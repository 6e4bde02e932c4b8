-------------------------- MODULE CargoPublish_proofs --------------------------
(***************************************************************************)
(* Proofs about CargoPublish for any crates, any workspaces and any number *)
(* of concurrent runs: what a run plans it can upload in that order, no    *)
(* upload starts with an expired token, a run that succeeds leaves         *)
(* everything on crates.io and has claimed exactly its own uploads.        *)
(***************************************************************************)
EXTENDS CargoPublish, PublishOrder_proofs

\* What the invariant says of one run.
RunInv(j) ==
  /\ AtHandIsPlanned(j) /\ TimesAreKept(j) /\ PlanIsKept(j)
  /\ AnswerIsTrue(j) /\ ClaimsFollowUploads(j)

\* The invariant is one of every run, next to what concerns no run.
LEMMA InvIsRunInv ==
  PublishInv <=> /\ PublishTypeOK
                 /\ \A c \in Crates : uploader[c] # Nobody => c \in registry
                 /\ \A j \in Jobs : RunInv(j)
  BY DEF PublishInv, RunInv

\* What a run plans with is a workspace in the planner's sense.
LEMMA PlanningIsWorkspace ==
  ASSUME ws \in Workspaces, NEW index
  PROVE  Workspace(Planning(index), Crates)
<1>1. /\ ws.hard \in [Crates -> SUBSET Crates] /\ ws.soft \in [Crates -> SUBSET Crates]
      /\ \A n \in Crates : n \notin ws.hard[n] \cup ws.soft[n]
  BY PublishConstants
<1>2. QED
  BY <1>1, PublishConstants DEF Workspace, Planning

\* The crate at hand is the one at its place in the plan.
LEMMA UploadType ==
  ASSUME PublishTypeOK, NEW j \in Jobs, AtHandIsPlanned(j),
         job[j].phase \in {"delaying", "uploading", "answered", "backoff"}
  PROVE  /\ job[j].i \in 1 .. Len(job[j].plan)
         /\ job[j].plan \in Seq(Crates)
         /\ Upload(j) \in Crates /\ Upload(j) = job[j].plan[job[j].i]
  BY DEF PublishTypeOK, JobState, AtHandIsPlanned, Upload

\* A run keeps its part of the invariant while others work: the registry only
\* grows, and nobody else uploads for it.
LEMMA OthersAreKept ==
  ASSUME PublishInv, PublishTypeOK', NEW k \in Jobs, job'[k] = job[k],
         now' = now, ws' = ws, registry \subseteq registry', known \subseteq known',
         \A c \in Crates : uploader'[c] = k <=> uploader[c] = k
  PROVE  RunInv(k)'
<1>1. AtHandIsPlanned(k)' /\ TimesAreKept(k)'
  BY DEF PublishInv, AtHandIsPlanned, TimesAreKept
<1>2. PlanIsKept(k)'
  <2>1. SUFFICES ASSUME job[k].phase \notin {"new", "done", "failed"} PROVE PlanIsKept(k)'
    BY DEF PlanIsKept
  <2>2. PlanIsKept(k)
    BY DEF PublishInv
  <2>3. Planning(job[k].index)' = Planning(job[k].index)
    BY DEF Planning
  <2>4. QED
    BY <2>1, <2>2, <2>3 DEF PlanIsKept
<1>3. AnswerIsTrue(k)'
  BY DEF PublishInv, AnswerIsTrue, Upload, Planning, PublishTypeOK
<1>4. ClaimsFollowUploads(k)'
  BY DEF PublishInv, ClaimsFollowUploads, Upload
<1>5. QED
  BY <1>1, <1>2, <1>3, <1>4 DEF RunInv

\* A step of one run in which nothing is uploaded.
LEMMA OneRunMoves ==
  ASSUME PublishInv, NEW j \in Jobs, NEW s \in JobState, job' = [job EXCEPT ![j] = s],
         UNCHANGED <<now, ws, known, registry, uploader>>, RunInv(j)'
  PROVE  PublishInv'
<1>1. PublishTypeOK'
  BY DEF PublishInv, PublishTypeOK
<1>2. ASSUME NEW k \in Jobs PROVE RunInv(k)'
  <2>1. CASE k # j
    <3>1. job'[k] = job[k]
      BY <2>1 DEF PublishInv, PublishTypeOK
    <3>2. QED
      BY <1>1, <3>1, OthersAreKept
  <2>2. QED
    BY <2>1
<1>3. QED
  BY <1>1, <1>2 DEF PublishInv, RunInv

\* The state of a run that has not started, or has ended.
LEMMA IdleFacts ==
  ASSUME NEW skip \in BOOLEAN, NEW phase \in Phases, NEW published \in SUBSET Crates
  PROVE  /\ Idle(skip, phase, published) \in JobState
         /\ Idle(skip, phase, published).phase = phase
         /\ Idle(skip, phase, published).published = published
         /\ Idle(skip, phase, published).i = 1
         /\ Idle(skip, phase, published).answer = "none"
         /\ Idle(skip, phase, published).startedAt = 0
<1>1. Idle(skip, phase, published) \in JobState
  BY DEF Idle, JobState
<1>2. QED
  BY <1>1 DEF Idle

\* The invariant holds at the start.
LEMMA InitPublishInv == Init => PublishInv
<1> SUFFICES ASSUME Init PROVE PublishInv
  OBVIOUS
<1>1. PICK skips \in [Jobs -> BOOLEAN] : job = [j \in Jobs |-> Idle(skips[j], "new", {})]
  BY DEF Init
<1>2. \A j \in Jobs : /\ job[j] \in JobState
                      /\ job[j].phase = "new" /\ job[j].i = 1 /\ job[j].answer = "none"
                      /\ job[j].startedAt = 0 /\ job[j].published = {}
  <2>1. SUFFICES ASSUME NEW j \in Jobs
                 PROVE  /\ job[j] \in JobState
                        /\ job[j].phase = "new" /\ job[j].i = 1 /\ job[j].answer = "none"
                        /\ job[j].startedAt = 0 /\ job[j].published = {}
    OBVIOUS
  <2>2. skips[j] \in BOOLEAN /\ "new" \in Phases /\ job[j] = Idle(skips[j], "new", {})
    BY <1>1 DEF Phases
  <2>3. QED
    BY <2>2, IdleFacts
<1>3. PublishTypeOK
  BY <1>1, <1>2, PublishConstants DEF Init, PublishTypeOK
<1>4. \A j \in Jobs : {c \in Crates : uploader[c] = j} = {}
  BY PublishConstants DEF Init
<1>5. ASSUME NEW j \in Jobs PROVE RunInv(j)
  <2>1. AtHandIsPlanned(j) /\ TimesAreKept(j)
    BY <1>2 DEF AtHandIsPlanned, TimesAreKept
  <2>2. PlanIsKept(j) /\ AnswerIsTrue(j)
    BY <1>2 DEF PlanIsKept, AnswerIsTrue
  <2>3. ClaimsFollowUploads(j)
    BY <1>2, <1>4 DEF ClaimsFollowUploads
  <2>4. QED
    BY <2>1, <2>2, <2>3 DEF RunInv
<1>6. QED
  BY <1>3, <1>5 DEF Init, PublishInv, RunInv

\* A run that ends keeps its part of the invariant if what it claims is right.
LEMMA EndKeeps ==
  ASSUME PublishInv, NEW j \in Jobs, NEW phase \in {"done", "failed"}, End(j, phase),
         UNCHANGED <<now, ws, known, registry, uploader>>,
         phase = "done" => /\ registry = Crates
                           /\ job[j].answer = "none"
                           /\ job[j].phase # "failed"
  PROVE  PublishInv'
<1> DEFINE s == Idle(job[j].skip, phase, job[j].published)
<1>1. job[j].skip \in BOOLEAN /\ job[j].published \in SUBSET Crates /\ phase \in Phases
  BY DEF PublishInv, PublishTypeOK, JobState, Phases
<1>3. job' = [job EXCEPT ![j] = s] /\ job'[j] = s
  BY DEF End, PublishInv, PublishTypeOK
<1>4. /\ s \in JobState
      /\ s.phase = phase /\ s.published = job[j].published /\ s.i = 1
      /\ s.answer = "none" /\ s.startedAt = 0
  BY <1>1, IdleFacts
<1> HIDE DEF s
<1>5. AtHandIsPlanned(j)' /\ TimesAreKept(j)' /\ PlanIsKept(j)'
  BY <1>3, <1>4 DEF AtHandIsPlanned, TimesAreKept, PlanIsKept
<1>6. AnswerIsTrue(j)'
  BY <1>3, <1>4 DEF AnswerIsTrue
<1>7. ClaimsFollowUploads(j)'
  BY <1>3, <1>4 DEF ClaimsFollowUploads, PublishInv
<1>8. QED
  BY <1>3, <1>4, <1>5, <1>6, <1>7, OneRunMoves DEF RunInv

\* A run that fails keeps it.
LEMMA FailKeeps ==
  ASSUME PublishInv, NEW j \in Jobs, Fail(j), UNCHANGED <<now, ws, known, registry, uploader>>
  PROVE  PublishInv'
  BY EndKeeps DEF Fail

-----------------------------------------------------------------------------
(* The steps before the first upload.                                      *)

\* What a run that was not refused has planned.
LEMMA PlanKeeps ==
  ASSUME PublishInv, NEW j \in Jobs, Plan(j)
  PROVE  PublishInv'
<1>1. PICK index \in SUBSET registry :
        LET ordered == PlanOf(Planning(index), Crates)
            toPublish == Kept(ordered, Crates \ Skipped(j, index))
        IN  IF Refused(ordered, toPublish)
              THEN Fail(j)
              ELSE job' = [job EXCEPT ![j].phase = "planned",
                                      ![j].index = index,
                                      ![j].plan = toPublish]
  BY DEF Plan
<1> DEFINE ordered == PlanOf(Planning(index), Crates)
           T == Crates \ Skipped(j, index)
           plan == Kept(ordered, T)
<1>2. UNCHANGED <<now, ws, known, registry, uploader>> /\ job[j].phase = "new"
  BY DEF Plan
<1>3. CASE Refused(ordered, plan)
  BY <1>1, <1>2, <1>3, FailKeeps
<1>4. CASE ~Refused(ordered, plan)
  <2>1. /\ ordered # Failed
        /\ \A k \in 1 .. Len(plan) : plan[k] \in known
    BY <1>4 DEF Refused
  <2>2. Workspace(Planning(index), Crates)
    BY PlanningIsWorkspace DEF PublishInv, PublishTypeOK
  <2>3. /\ ordered \in Seq(Crates)
        /\ \A c \in Crates : \E i \in 1 .. Len(ordered) : ordered[i] = c
        /\ Acyclic([c \in Crates |-> Needed(Planning(index), c)], Crates) =>
             \A i, l \in 1 .. Len(ordered) :
               ordered[l] \in Needed(Planning(index), ordered[i]) => l < i
    BY <2>1, <2>2, PlanFacts
  <2>4. job' = [job EXCEPT ![j].phase = "planned", ![j].index = index, ![j].plan = plan]
    BY <1>1, <1>4
  <2> HIDE DEF ordered
  <2>5. plan \in Seq(Crates \cap T) /\ IsKept(plan, ordered, T)
    <3>1. ordered \in Seq(Crates)
      BY <2>3
    <3> HIDE DEF T
    <3>2. QED
      BY <3>1, KeptFacts
  <2> HIDE DEF plan
  <2>6. PICK at \in [1 .. Len(plan) -> 1 .. Len(ordered)] :
             /\ \A k \in 1 .. Len(plan) : plan[k] = ordered[at[k]]
             /\ \A k, l \in 1 .. Len(plan) : k < l => at[k] < at[l]
             /\ \A i \in 1 .. Len(ordered) : ordered[i] \in T =>
                  \E k \in 1 .. Len(plan) : at[k] = i
    BY <2>5 DEF IsKept
  <2>7. plan \in Seq(Crates) /\ Len(plan) \in Nat
    BY <2>5, Crates \cap T \subseteq Crates
  <2>8. \A c \in Crates : c \in index \/ \E k \in 1 .. Len(plan) : plan[k] = c
    <3>1. SUFFICES ASSUME NEW c \in Crates, c \notin index
                   PROVE  \E k \in 1 .. Len(plan) : plan[k] = c
      OBVIOUS
    <3>2. PICK i \in 1 .. Len(ordered) : ordered[i] = c
      BY <2>3
    <3>3. c \in T
      BY <3>1 DEF Skipped
    <3>4. QED
      BY <2>6, <3>2, <3>3
  <2>9. ASSUME Acyclic([c \in Crates |-> Needed(Planning(index), c)], Crates),
               NEW k \in 1 .. Len(plan), NEW l \in 1 .. Len(plan),
               plan[l] \in Needed(Planning(index), plan[k])
        PROVE  l < k
    <3>1. at[k] \in 1 .. Len(ordered) /\ at[l] \in 1 .. Len(ordered)
      BY <2>6
    <3>2. at[l] < at[k]
      BY <2>3, <2>6, <2>9, <3>1
    <3>3. ~ (k < l) /\ k # l
      BY <2>6, <3>1, <3>2
    <3>4. QED
      BY <2>7, <3>3
  <2> DEFINE s == [job[j] EXCEPT !.phase = "planned", !.index = index, !.plan = plan]
  <2>10. job[j] \in JobState /\ index \in SUBSET Crates
    BY DEF PublishInv, PublishTypeOK
  <2>11. s \in JobState
    BY <2>7, <2>10 DEF JobState, Phases
  <2>12. /\ s.phase = "planned" /\ s.index = index /\ s.plan = plan /\ s.i = job[j].i
         /\ s.answer = job[j].answer /\ s.startedAt = job[j].startedAt
         /\ s.published = job[j].published
    BY <2>10 DEF JobState
  <2>13. job' = [job EXCEPT ![j] = s] /\ job'[j] = s
    BY <2>4 DEF PublishInv, PublishTypeOK
  <2> HIDE DEF s
  <2>14. AtHandIsPlanned(j)' /\ TimesAreKept(j)' /\ AnswerIsTrue(j)' /\ ClaimsFollowUploads(j)'
    <3>1. AtHandIsPlanned(j)'
      BY <1>2, <2>12, <2>13 DEF AtHandIsPlanned, PublishInv
    <3>2. TimesAreKept(j)'
      BY <1>2, <2>12, <2>13 DEF TimesAreKept, PublishInv
    <3>3. job[j].answer = "none" /\ s.answer = "none"
      BY <1>2, <2>12 DEF PublishInv, AtHandIsPlanned
    <3>4. AnswerIsTrue(j)'
      BY <2>12, <2>13, <3>3 DEF AnswerIsTrue
    <3>5. ClaimsFollowUploads(j)'
      BY <1>2, <2>12, <2>13, <3>3 DEF ClaimsFollowUploads, PublishInv
    <3>6. QED
      BY <3>1, <3>2, <3>4, <3>5
  <2>15. PlanIsKept(j)'
    <3>1. \A k \in 1 .. Len(plan) : plan[k] \in known /\ ~ (k < job[j].i)
      <4>1. job[j].i = 1
        BY <1>2 DEF PublishInv, AtHandIsPlanned
      <4>2. \A k \in 1 .. Len(plan) : plan[k] \in known
        BY <2>1, <2>7
      <4>3. Len(plan) \in Nat
        BY <2>7
      <4>4. QED
        BY <4>1, <4>2, <4>3
    <3>2. Planning(index)' = Planning(index)
      BY <1>2 DEF Planning
    <3>3. QED
      BY <1>2, <2>8, <2>9, <2>12, <2>13, <3>1, SMTT(30) DEF PlanIsKept, Planning
  <2>16. QED
    BY <1>2, <2>11, <2>13, <2>14, <2>15, OneRunMoves DEF RunInv
<1>5. QED
  BY <1>3, <1>4

\* A run that ends with nothing to publish keeps it.
LEMMA NothingKeeps ==
  ASSUME PublishInv, NEW j \in Jobs, NothingToPublish(j)
  PROVE  PublishInv'
<1>1. /\ job[j].phase = "planned" /\ job[j].plan = <<>> /\ End(j, "done")
      /\ UNCHANGED <<now, ws, known, registry, uploader>>
  BY DEF NothingToPublish
<1>2. \A c \in Crates : c \in job[j].index /\ job[j].index \subseteq registry
  <2>1. PlanIsKept(j) /\ Len(<<>>) = 0 /\ 1 .. 0 = {}
    BY DEF PublishInv
  <2>2. QED
    BY <1>1, <2>1 DEF PlanIsKept
<1>3. registry = Crates
  BY <1>2 DEF PublishInv, PublishTypeOK
<1>4. job[j].answer = "none"
  BY <1>1 DEF PublishInv, AtHandIsPlanned
<1>5. QED
  BY <1>1, <1>3, <1>4, EndKeeps

\* Minting the token starts the run's clock.
LEMMA AuthenticateKeeps ==
  ASSUME PublishInv, NEW j \in Jobs, Authenticate(j)
  PROVE  PublishInv'
<1> DEFINE s == [job[j] EXCEPT !.phase = "minted", !.mintedAt = now]
<1>1. /\ job[j].phase = "planned" /\ UNCHANGED <<now, ws, known, registry, uploader>>
      /\ job' = [job EXCEPT ![j] = s] /\ job'[j] = s
  BY DEF Authenticate, PublishInv, PublishTypeOK
<1>2. job[j] \in JobState /\ now \in Nat /\ Lag \in Nat
  BY PublishConstants DEF PublishInv, PublishTypeOK
<1>3. s \in JobState
  BY <1>2 DEF JobState, Phases
<1>4. /\ s.phase = "minted" /\ s.mintedAt = now /\ s.index = job[j].index
      /\ s.plan = job[j].plan /\ s.i = job[j].i /\ s.answer = job[j].answer
      /\ s.startedAt = job[j].startedAt /\ s.published = job[j].published
  BY <1>2 DEF JobState
<1> HIDE DEF s
<1>5. RunInv(j) /\ job[j].answer = "none" /\ job[j].startedAt = 0
  BY <1>1 DEF PublishInv, RunInv, AtHandIsPlanned, TimesAreKept
<1>6. AtHandIsPlanned(j)' /\ TimesAreKept(j)'
  BY <1>1, <1>2, <1>4, <1>5 DEF RunInv, AtHandIsPlanned, TimesAreKept
<1>7. PlanIsKept(j)'
  BY <1>1, <1>4, <1>5, SMTT(30) DEF RunInv, PlanIsKept, Planning
<1>8. AnswerIsTrue(j)' /\ ClaimsFollowUploads(j)'
  BY <1>1, <1>4, <1>5 DEF RunInv, AnswerIsTrue, ClaimsFollowUploads
<1>9. QED
  BY <1>1, <1>3, <1>6, <1>7, <1>8, OneRunMoves DEF RunInv

\* The issue time is recorded within Lag of the mint.
LEMMA RecordKeeps ==
  ASSUME PublishInv, NEW j \in Jobs, RecordIssueTime(j)
  PROVE  PublishInv'
<1> DEFINE s == [job[j] EXCEPT !.phase = "next", !.issuedAt = now]
<1>1. /\ job[j].phase = "minted" /\ UNCHANGED <<now, ws, known, registry, uploader>>
      /\ job' = [job EXCEPT ![j] = s] /\ job'[j] = s
  BY DEF RecordIssueTime, PublishInv, PublishTypeOK
<1>2. job[j] \in JobState /\ now \in Nat
  BY DEF PublishInv, PublishTypeOK
<1>3. s \in JobState
  BY <1>2 DEF JobState, Phases
<1>4. /\ s.phase = "next" /\ s.mintedAt = job[j].mintedAt /\ s.issuedAt = now
      /\ s.index = job[j].index /\ s.plan = job[j].plan /\ s.i = job[j].i
      /\ s.answer = job[j].answer /\ s.startedAt = job[j].startedAt
      /\ s.published = job[j].published
  BY <1>2 DEF JobState
<1> HIDE DEF s
<1>5. RunInv(j) /\ job[j].answer = "none" /\ job[j].startedAt = 0
  BY <1>1 DEF PublishInv, RunInv, AtHandIsPlanned, TimesAreKept
<1>6. AtHandIsPlanned(j)' /\ TimesAreKept(j)'
  BY <1>1, <1>2, <1>4, <1>5 DEF RunInv, AtHandIsPlanned, TimesAreKept
<1>7. PlanIsKept(j)'
  BY <1>1, <1>4, <1>5, SMTT(30) DEF RunInv, PlanIsKept, Planning
<1>8. AnswerIsTrue(j)' /\ ClaimsFollowUploads(j)'
  BY <1>1, <1>4, <1>5 DEF RunInv, AnswerIsTrue, ClaimsFollowUploads
<1>9. QED
  BY <1>1, <1>3, <1>6, <1>7, <1>8, OneRunMoves DEF RunInv

-----------------------------------------------------------------------------
(* The loop over the plan.                                                 *)

\* An upload that starts when the token is in time keeps the invariant.
LEMMA StartUploadKeeps ==
  ASSUME PublishInv, NEW j \in Jobs, StartUpload(j),
         UNCHANGED <<now, ws, known, registry, uploader>>,
         job[j].phase \in {"next", "delaying"}, job[j].i <= Len(job[j].plan),
         ~OutOfTime(j, 0)
  PROVE  PublishInv'
<1> DEFINE s == [job[j] EXCEPT !.phase = "uploading", !.startedAt = now, !.wake = 0]
<1>1. job' = [job EXCEPT ![j] = s] /\ job'[j] = s
  BY DEF StartUpload, PublishInv, PublishTypeOK
<1>2. job[j] \in JobState /\ now \in Nat
  BY DEF PublishInv, PublishTypeOK
<1>3. s \in JobState
  BY <1>2 DEF JobState, Phases
<1>4. /\ s.phase = "uploading" /\ s.mintedAt = job[j].mintedAt
      /\ s.issuedAt = job[j].issuedAt /\ s.startedAt = now
      /\ s.index = job[j].index /\ s.plan = job[j].plan /\ s.i = job[j].i
      /\ s.answer = job[j].answer /\ s.published = job[j].published
  BY <1>2 DEF JobState
<1> HIDE DEF s
<1>5. RunInv(j) /\ job[j].answer = "none"
  BY DEF PublishInv, RunInv, AtHandIsPlanned
<1>6. now < job[j].mintedAt + Lifetime
  <2>1. /\ job[j].mintedAt \in Nat /\ job[j].issuedAt \in Nat
        /\ Lag \in Nat /\ Budget \in Nat /\ Lifetime \in Nat /\ Overrun \in Nat
        /\ Lag + Overrun < Lifetime - Budget
    BY <1>2, PublishConstants DEF JobState
  <2>2. now <= job[j].issuedAt + Budget /\ job[j].issuedAt <= job[j].mintedAt + Lag
    BY <1>2, <1>5, <2>1 DEF OutOfTime, RunInv, TimesAreKept
  <2>3. QED
    BY <1>2, <2>1, <2>2
<1>7. AtHandIsPlanned(j)' /\ TimesAreKept(j)'
  <2>1. AtHandIsPlanned(j)'
    BY <1>1, <1>4, <1>5 DEF RunInv, AtHandIsPlanned
  <2>2. TimesAreKept(j)'
    BY <1>1, <1>2, <1>4, <1>5, <1>6 DEF RunInv, TimesAreKept
  <2>3. QED
    BY <2>1, <2>2
<1>8. PlanIsKept(j)'
  BY <1>1, <1>4, <1>5, SMTT(30) DEF RunInv, PlanIsKept, Planning
<1>9. AnswerIsTrue(j)' /\ ClaimsFollowUploads(j)'
  BY <1>1, <1>4, <1>5 DEF RunInv, AnswerIsTrue, ClaimsFollowUploads
<1>10. QED
  BY <1>1, <1>3, <1>7, <1>8, <1>9, OneRunMoves DEF RunInv

\* So does a sleep that ends in time.
LEMMA SleepKeeps ==
  ASSUME PublishInv, NEW j \in Jobs, NEW phase \in {"delaying", "backoff"}, NEW wait \in Nat,
         Sleep(j, phase, wait), UNCHANGED <<now, ws, known, registry, uploader>>,
         job[j].phase = "next" \/ (job[j].phase = "answered" /\ job[j].answer = "limited"),
         job[j].i <= Len(job[j].plan)
  PROVE  PublishInv'
<1> DEFINE s == [job[j] EXCEPT !.phase = phase, !.wake = now + wait,
                               !.answer = "none", !.startedAt = 0]
<1>1. job' = [job EXCEPT ![j] = s] /\ job'[j] = s
  BY DEF Sleep, PublishInv, PublishTypeOK
<1>2. job[j] \in JobState /\ now \in Nat /\ phase \in Phases /\ now + wait \in Nat
  BY DEF PublishInv, PublishTypeOK, Phases
<1>3. s \in JobState
  BY <1>2 DEF JobState
<1>4. /\ s.phase = phase /\ s.mintedAt = job[j].mintedAt
      /\ s.issuedAt = job[j].issuedAt /\ s.startedAt = 0
      /\ s.wake = now + wait /\ s.index = job[j].index /\ s.plan = job[j].plan
      /\ s.i = job[j].i /\ s.answer = "none" /\ s.published = job[j].published
  BY <1>2 DEF JobState
<1> HIDE DEF s
<1>5. RunInv(j)
  BY DEF PublishInv, RunInv
<1>6. AtHandIsPlanned(j)'
  BY <1>1, <1>4, <1>5 DEF RunInv, AtHandIsPlanned
<1>7. TimesAreKept(j)'
  <2>1. job[j].issuedAt \in Nat /\ job[j].mintedAt \in Nat /\ {Budget, Lag, Overrun} \subseteq Nat
    BY <1>2, PublishConstants DEF JobState
  <2>2. now + wait <= job[j].issuedAt + Budget
    BY <1>2, <2>1 DEF Sleep, OutOfTime
  <2>3. job[j].issuedAt <= job[j].mintedAt + Lag
    BY <1>5 DEF RunInv, TimesAreKept
  <2>4. QED
    BY <1>1, <1>2, <1>4, <2>1, <2>2, <2>3, SMTT(30) DEF TimesAreKept
<1>8. PlanIsKept(j)'
  BY <1>1, <1>4, <1>5, SMTT(30) DEF RunInv, PlanIsKept, Planning
<1>9. AnswerIsTrue(j)'
  BY <1>1, <1>4 DEF AnswerIsTrue
<1>10. ClaimsFollowUploads(j)'
  BY <1>1, <1>4, <1>5 DEF RunInv, ClaimsFollowUploads, AtHandIsPlanned
<1>11. QED
  BY <1>1, <1>3, <1>6, <1>7, <1>8, <1>9, <1>10, OneRunMoves DEF RunInv

\* The loop over the plan goes on, waits, uploads, fails or is done.
LEMMA NextCrateKeeps ==
  ASSUME PublishInv, NEW j \in Jobs, NextCrate(j)
  PROVE  PublishInv'
<1>1. job[j].phase = "next" /\ UNCHANGED <<now, ws, known, registry, uploader>>
  BY DEF NextCrate
<1>2. /\ job[j] \in JobState /\ now \in Nat /\ RunInv(j) /\ job[j].answer = "none"
      /\ job[j].i \in Nat /\ job[j].plan \in Seq(Crates)
  BY <1>1 DEF PublishInv, PublishTypeOK, RunInv, AtHandIsPlanned, JobState
<1>3. CASE job[j].i > Len(job[j].plan)
  <2>1. End(j, "done")
    <3>1. ~ (job[j].i <= Len(job[j].plan))
      BY <1>2, <1>3
    <3>2. QED
      BY <1>3, <3>1 DEF NextCrate
  <2>2. \A k \in 1 .. Len(job[j].plan) : job[j].plan[k] \in registry
    BY <1>1, <1>2, <1>3 DEF RunInv, PlanIsKept
  <2>3. \A c \in Crates : c \in registry
    BY <1>1, <1>2, <2>2 DEF RunInv, PlanIsKept
  <2>4. registry = Crates
    BY <2>3 DEF PublishInv, PublishTypeOK
  <2>5. QED
    BY <1>1, <1>2, <2>1, <2>4, EndKeeps
<1>4. CASE ~ (job[j].i > Len(job[j].plan)) /\ Sleep(j, "delaying", Delay)
  <2>1. job[j].i <= Len(job[j].plan) /\ Delay \in Nat
    <3>1. Len(job[j].plan) \in Nat
      BY <1>2
    <3>2. Delay \in Nat
      BY PublishConstants
    <3>3. QED
      BY <1>2, <1>4, <3>1, <3>2
  <2>2. "delaying" \in {"delaying", "backoff"} /\ Sleep(j, "delaying", Delay)
    BY <1>4
  <2>3. QED
    BY <1>1, <2>1, <2>2, SleepKeeps, ZenonT(20)
<1>5. CASE ~ (job[j].i > Len(job[j].plan)) /\ StartUpload(j) /\ ~OutOfTime(j, 0)
  <2>1. job[j].i <= Len(job[j].plan)
    BY <1>2, <1>5
  <2>2. QED
    BY <1>1, <1>5, <2>1, StartUploadKeeps
<1>6. CASE Fail(j)
  BY <1>1, <1>6, FailKeeps
<1>7. QED
  BY <1>3, <1>4, <1>5, <1>6 DEF NextCrate

\* A delay ends in an upload or in a failure.
LEMMA DelayEndsKeeps ==
  ASSUME PublishInv, NEW j \in Jobs, DelayEnds(j)
  PROVE  PublishInv'
<1>1. job[j].phase = "delaying" /\ UNCHANGED <<now, ws, known, registry, uploader>>
  BY DEF DelayEnds
<1>2. CASE OutOfTime(j, 0)
  BY <1>1, <1>2, FailKeeps DEF DelayEnds
<1>3. CASE ~OutOfTime(j, 0)
  <2>1. job[j].i <= Len(job[j].plan)
    BY <1>1 DEF PublishInv, AtHandIsPlanned
  <2>2. StartUpload(j)
    BY <1>3 DEF DelayEnds
  <2>3. QED
    BY <1>1, <1>3, <2>1, <2>2, StartUploadKeeps
<1>4. QED
  BY <1>2, <1>3

\* A retry asks no more whether it is in time: its wait was, and it wakes up
\* soon enough.
LEMMA BackoffEndsKeeps ==
  ASSUME PublishInv, NEW j \in Jobs, BackoffEnds(j)
  PROVE  PublishInv'
<1> DEFINE s == [job[j] EXCEPT !.phase = "uploading", !.startedAt = now,
                               !.attempt = @ + 1, !.wake = 0]
<1>1. /\ job[j].phase = "backoff" /\ UNCHANGED <<now, ws, known, registry, uploader>>
      /\ job' = [job EXCEPT ![j] = s] /\ job'[j] = s
  BY DEF BackoffEnds, PublishInv, PublishTypeOK
<1>2. job[j] \in JobState /\ now \in Nat /\ job[j].attempt + 1 \in Nat /\ "uploading" \in Phases
  BY DEF PublishInv, PublishTypeOK, JobState, Phases
<1>3. s \in JobState
  BY <1>2 DEF JobState
<1>4. /\ s.phase = "uploading" /\ s.mintedAt = job[j].mintedAt
      /\ s.issuedAt = job[j].issuedAt /\ s.startedAt = now
      /\ s.index = job[j].index /\ s.plan = job[j].plan /\ s.i = job[j].i
      /\ s.answer = job[j].answer /\ s.published = job[j].published
  BY <1>2 DEF JobState
<1> HIDE DEF s
<1>5. RunInv(j) /\ job[j].answer = "none"
  BY <1>1 DEF PublishInv, RunInv, AtHandIsPlanned
<1>6. now < job[j].mintedAt + Lifetime
  <2>1. /\ job[j].mintedAt \in Nat /\ job[j].issuedAt \in Nat /\ job[j].wake \in Nat
        /\ Lag \in Nat /\ Budget \in Nat /\ Lifetime \in Nat /\ Overrun \in Nat
        /\ Lag + Overrun < Lifetime - Budget
    BY <1>2, PublishConstants DEF JobState
  <2>2. /\ now <= job[j].wake + Overrun /\ job[j].wake <= job[j].issuedAt + Budget
        /\ job[j].issuedAt <= job[j].mintedAt + Lag
    BY <1>1, <1>5 DEF RunInv, TimesAreKept
  <2>3. QED
    BY <1>2, <2>1, <2>2
<1>7. AtHandIsPlanned(j)' /\ TimesAreKept(j)'
  <2>1. AtHandIsPlanned(j)'
    BY <1>1, <1>4, <1>5 DEF RunInv, AtHandIsPlanned
  <2>2. TimesAreKept(j)'
    BY <1>1, <1>2, <1>4, <1>5, <1>6 DEF RunInv, TimesAreKept
  <2>3. QED
    BY <2>1, <2>2
<1>8. PlanIsKept(j)'
  BY <1>1, <1>4, <1>5, SMTT(30) DEF RunInv, PlanIsKept, Planning
<1>9. AnswerIsTrue(j)' /\ ClaimsFollowUploads(j)'
  BY <1>1, <1>4, <1>5 DEF RunInv, AnswerIsTrue, ClaimsFollowUploads
<1>10. QED
  BY <1>1, <1>3, <1>7, <1>8, <1>9, OneRunMoves DEF RunInv

-----------------------------------------------------------------------------
(* Uploads and their answers.                                              *)

\* crates.io misses a dependency only if nothing could have been planned: what
\* the crate needs is before it in the plan, and so on crates.io.
LEMMA MissingIsCyclic ==
  ASSUME PublishInv, NEW j \in Jobs, job[j].phase = "uploading",
         "missing" \in RegistryAnswers(j)
  PROVE  ~Acyclic([c \in Crates |-> Needed(Planning(job[j].index), c)], Crates)
<1> DEFINE index == job[j].index
           plan == job[j].plan
           c == Upload(j)
<1>1. SUFFICES ASSUME Acyclic([d \in Crates |-> Needed(Planning(index), d)], Crates)
               PROVE  FALSE
  OBVIOUS
<1>2. /\ job[j].i \in 1 .. Len(plan) /\ c \in Crates /\ c = plan[job[j].i]
  BY UploadType DEF PublishInv
<1>3. c \notin registry /\ (ws.hard[c] \cup ws.soft[c]) \ registry # {}
  BY DEF RegistryAnswers
<1>4. PICK d \in ws.hard[c] \cup ws.soft[c] : d \notin registry
  BY <1>3
<1>5. d \in Crates
  <2>1. ws \in Workspaces
    BY DEF PublishInv, PublishTypeOK
  <2>2. ws.hard \in [Crates -> SUBSET Crates] /\ ws.soft \in [Crates -> SUBSET Crates]
    BY <2>1, PublishConstants
  <2>3. QED
    BY <1>2, <1>4, <2>2
<1>6. /\ index \subseteq registry
      /\ \A e \in Crates : e \in index \/ \E k \in 1 .. Len(plan) : plan[k] = e
      /\ \A k \in 1 .. Len(plan) : k < job[j].i => plan[k] \in registry
      /\ \A k, l \in 1 .. Len(plan) : plan[l] \in Needed(Planning(index), plan[k]) => l < k
  <2>1. PlanIsKept(j)
    BY DEF PublishInv
  <2>2. QED
    BY <1>1, <2>1 DEF PlanIsKept
<1>7. d \in Needed(Planning(index), c)
  BY <1>3, <1>4, <1>6 DEF Needed, Planning
<1>8. PICK l \in 1 .. Len(plan) : plan[l] = d
  BY <1>4, <1>5, <1>6
<1>9. l < job[j].i
  BY <1>2, <1>6, <1>7, <1>8
<1>10. QED
  BY <1>4, <1>6, <1>8, <1>9

\* crates.io's answer says what is true of the crate at hand.
LEMMA AnswerKeeps ==
  ASSUME PublishInv, NEW j \in Jobs, Answer(j)
  PROVE  PublishInv'
<1>1. PICK answer \in RegistryAnswers(j) :
        /\ job' = [job EXCEPT ![j].phase = "answered", ![j].answer = answer]
        /\ IF answer = "accepted"
             THEN /\ registry' = registry \cup {Upload(j)}
                  /\ uploader' = [uploader EXCEPT ![Upload(j)] = j]
             ELSE UNCHANGED <<registry, uploader>>
  BY DEF Answer
<1>2. job[j].phase = "uploading" /\ UNCHANGED <<now, ws, known>>
  BY DEF Answer
<1> DEFINE s == [job[j] EXCEPT !.phase = "answered", !.answer = answer]
           c == Upload(j)
<1>3. job[j] \in JobState /\ RunInv(j) /\ job[j].answer = "none"
  BY <1>2 DEF PublishInv, PublishTypeOK, RunInv, AtHandIsPlanned
<1>4. answer \in Answers
  BY DEF RegistryAnswers, Answers
<1>5. s \in JobState
  BY <1>3, <1>4 DEF JobState, Phases
<1>6. /\ s.phase = "answered" /\ s.mintedAt = job[j].mintedAt
      /\ s.issuedAt = job[j].issuedAt /\ s.startedAt = job[j].startedAt
      /\ s.wake = job[j].wake /\ s.index = job[j].index /\ s.plan = job[j].plan
      /\ s.i = job[j].i /\ s.answer = answer /\ s.published = job[j].published
  BY <1>3 DEF JobState
<1>7. job' = [job EXCEPT ![j] = s] /\ job'[j] = s
  BY <1>1 DEF PublishInv, PublishTypeOK
<1>8. /\ job[j].i \in 1 .. Len(job[j].plan) /\ c \in Crates /\ c = job[j].plan[job[j].i]
  BY <1>2, UploadType DEF PublishInv
<1>9. Upload(j)' = c
  BY <1>6, <1>7 DEF Upload
<1> HIDE DEF s, c
<1>10. c \in known
  BY <1>2, <1>3, <1>8 DEF RunInv, PlanIsKept
<1>11. /\ answer = "accepted" => c \notin registry
       /\ answer = "already" => c \in registry
       /\ answer # "uncreatable" /\ answer # "none"
  BY <1>10 DEF RegistryAnswers, c
<1>12. /\ answer = "accepted" => registry' = registry \cup {c} /\ uploader' = [uploader EXCEPT ![c] = j]
       /\ answer # "accepted" => UNCHANGED <<registry, uploader>>
  BY <1>1 DEF c
<1>13. PublishTypeOK'
  BY <1>2, <1>5, <1>7, <1>8, <1>10, <1>12 DEF PublishInv, PublishTypeOK
<1>14. \A d \in Crates : uploader'[d] # Nobody => d \in registry'
  BY <1>8, <1>12 DEF PublishInv, PublishTypeOK
<1>15. ASSUME NEW k \in Jobs, k # j PROVE RunInv(k)'
  <2>1. job'[k] = job[k]
    BY <1>7, <1>15 DEF PublishInv, PublishTypeOK
  <2>2. \A d \in Crates : uploader'[d] = k <=> uploader[d] = k
    <3>1. CASE answer = "accepted"
      <4>1. c \notin registry /\ uploader[c] = Nobody /\ Nobody # k
        BY <1>8, <1>11, <3>1, PublishConstants DEF PublishInv
      <4>2. QED
        BY <1>12, <1>15, <3>1, <4>1 DEF PublishInv, PublishTypeOK
    <3>2. CASE answer # "accepted"
      BY <1>12, <3>2
    <3>3. QED
      BY <3>1, <3>2
  <2>3. registry \subseteq registry'
    BY <1>12
  <2>4. QED
    BY <1>2, <1>13, <2>1, <2>2, <2>3, OthersAreKept
<1>16. AtHandIsPlanned(j)' /\ TimesAreKept(j)'
  BY <1>2, <1>3, <1>6, <1>7, <1>11 DEF RunInv, AtHandIsPlanned, TimesAreKept
<1>17. PlanIsKept(j)'
  <2>1. registry \subseteq registry'
    BY <1>12
  <2>2. PlanIsKept(j) /\ Planning(job[j].index)' = Planning(job[j].index)'
    BY <1>3 DEF RunInv
  <2>3. QED
    BY <1>2, <1>6, <1>7, <2>1, <2>2 DEF PlanIsKept, Planning
<1>18. AnswerIsTrue(j)'
  <2>1. answer = "missing" =>
          ~Acyclic([d \in Crates |-> Needed(Planning(job[j].index), d)], Crates)
    BY <1>2, MissingIsCyclic
  <2>2. answer \in {"accepted", "already"} => c \in registry'
    BY <1>11, <1>12
  <2>3. QED
    BY <1>2, <1>6, <1>7, <1>9, <1>11, <2>1, <2>2 DEF AnswerIsTrue, Planning
<1>19. ClaimsFollowUploads(j)'
  <2>1. /\ {d \in Crates : uploader[d] = j} = job[j].published
        /\ job[j].published \in SUBSET Crates
    BY <1>2, <1>3 DEF RunInv, ClaimsFollowUploads, JobState
  <2>2. CASE answer = "accepted"
    <3>1. {d \in Crates : uploader'[d] = j} = {d \in Crates : uploader[d] = j} \cup {c}
      BY <1>8, <1>12, <2>2 DEF PublishInv, PublishTypeOK
    <3>2. QED
      BY <1>6, <1>7, <1>9, <2>1, <2>2, <3>1 DEF ClaimsFollowUploads
  <2>3. CASE answer # "accepted"
    BY <1>6, <1>7, <1>12, <2>1, <2>3 DEF ClaimsFollowUploads
  <2>4. QED
    BY <2>2, <2>3
<1>20. QED
  BY <1>13, <1>14, <1>15, <1>16, <1>17, <1>18, <1>19 DEF PublishInv, RunInv

\* An upload whose answer is lost may have been taken.
LEMMA AnswerLostKeeps ==
  ASSUME PublishInv, NEW j \in Jobs, AnswerLost(j)
  PROVE  PublishInv'
<1> DEFINE s == [job[j] EXCEPT !.answer = "broken"]
<1>1. /\ job[j].phase = "answered" /\ job[j].answer \in {"accepted", "already"}
      /\ UNCHANGED <<now, ws, known, registry, uploader>>
      /\ job' = [job EXCEPT ![j] = s] /\ job'[j] = s
  BY DEF AnswerLost, PublishInv, PublishTypeOK
<1>2. job[j] \in JobState /\ RunInv(j)
  BY DEF PublishInv, PublishTypeOK, RunInv
<1>3. s \in JobState
  BY <1>2 DEF JobState, Answers
<1>4. /\ s.phase = "answered" /\ s.mintedAt = job[j].mintedAt
      /\ s.issuedAt = job[j].issuedAt /\ s.startedAt = job[j].startedAt
      /\ s.wake = job[j].wake /\ s.index = job[j].index /\ s.plan = job[j].plan
      /\ s.i = job[j].i /\ s.answer = "broken" /\ s.published = job[j].published
  BY <1>1, <1>2 DEF JobState
<1> HIDE DEF s
<1>5. AtHandIsPlanned(j)' /\ TimesAreKept(j)'
  BY <1>1, <1>2, <1>4 DEF RunInv, AtHandIsPlanned, TimesAreKept
<1>6. PlanIsKept(j)'
  BY <1>1, <1>2, <1>4 DEF RunInv, PlanIsKept, Planning
<1>7. AnswerIsTrue(j)' /\ ClaimsFollowUploads(j)'
  BY <1>1, <1>2, <1>4 DEF RunInv, AnswerIsTrue, ClaimsFollowUploads
<1>8. QED
  BY <1>1, <1>3, <1>5, <1>6, <1>7, OneRunMoves DEF RunInv

\* The loop may pass a crate that is on crates.io.
LEMMA PassedIsKept ==
  ASSUME PublishInv, NEW j \in Jobs, job[j].phase = "answered",
         job[j].answer \in {"accepted", "already"},
         UNCHANGED <<now, ws, known, registry, uploader>>,
         job'[j].plan = job[j].plan, job'[j].index = job[j].index,
         job'[j].i = job[j].i + 1
  PROVE  PlanIsKept(j)'
<1>1. /\ PlanIsKept(j) /\ Upload(j) \in registry
      /\ job[j].i \in 1 .. Len(job[j].plan) /\ Upload(j) = job[j].plan[job[j].i]
  BY UploadType DEF PublishInv, AnswerIsTrue
<1>2. ASSUME NEW k \in 1 .. Len(job[j].plan)
      PROVE  /\ job[j].plan[k] \in known
             /\ k < job[j].i + 1 => job[j].plan[k] \in registry
  <2>1. /\ job[j].plan[k] \in known
        /\ k < job[j].i => job[j].plan[k] \in registry
    BY <1>1 DEF PlanIsKept
  <2>2. k < job[j].i + 1 => k < job[j].i \/ k = job[j].i
    BY <1>1
  <2>3. QED
    BY <1>1, <2>1, <2>2
<1>3. Planning(job[j].index)' = Planning(job[j].index)
  BY DEF Planning
<1>4. QED
  BY <1>1, <1>2, <1>3 DEF PlanIsKept

\* After an accepted or known upload the loop goes on with the next crate.
LEMMA ContinueKeeps ==
  ASSUME PublishInv, NEW j \in Jobs, job[j].phase = "answered", Continues(job[j].answer),
         UNCHANGED <<now, ws, known, registry, uploader>>,
         job' = [job EXCEPT ![j].phase = "next", ![j].i = @ + 1,
                            ![j].attempt = 1, ![j].answer = "none",
                            ![j].startedAt = 0,
                            ![j].published =
                               IF Claimed(job[j].answer) THEN @ \cup {Upload(j)} ELSE @]
  PROVE  PublishInv'
<1> DEFINE claims == IF Claimed(job[j].answer) THEN job[j].published \cup {Upload(j)}
                                               ELSE job[j].published
           s == [job[j] EXCEPT !.phase = "next", !.i = @ + 1, !.attempt = 1,
                               !.answer = "none", !.startedAt = 0, !.published = claims]
<1>1. job[j] \in JobState /\ RunInv(j) /\ job[j].answer \in {"accepted", "already"}
  BY DEF PublishInv, PublishTypeOK, RunInv, Continues
<1>2. /\ job[j].i \in 1 .. Len(job[j].plan) /\ Upload(j) \in Crates
      /\ Upload(j) = job[j].plan[job[j].i] /\ job[j].plan \in Seq(Crates)
      /\ job[j].i \in Nat
  BY UploadType DEF PublishInv
<1>3. claims \in SUBSET Crates /\ job[j].i + 1 \in Nat /\ "next" \in Phases
  BY <1>1, <1>2 DEF JobState, Phases
<1>4. job' = [job EXCEPT ![j] = s] /\ job'[j] = s
  BY DEF PublishInv, PublishTypeOK
<1> HIDE DEF claims
<1>5. s \in JobState
  BY <1>1, <1>3 DEF JobState
<1>6. /\ s.phase = "next" /\ s.mintedAt = job[j].mintedAt
      /\ s.issuedAt = job[j].issuedAt /\ s.startedAt = 0
      /\ s.index = job[j].index /\ s.plan = job[j].plan
      /\ s.i = job[j].i + 1 /\ s.answer = "none" /\ s.published = claims
  BY <1>1 DEF JobState
<1> HIDE DEF s
<1>7. AtHandIsPlanned(j)' /\ TimesAreKept(j)' /\ AnswerIsTrue(j)'
  <2>1. AtHandIsPlanned(j)'
    BY <1>2, <1>4, <1>6 DEF AtHandIsPlanned
  <2>2. TimesAreKept(j)'
    BY <1>1, <1>4, <1>6, job[j].phase = "answered" DEF RunInv, TimesAreKept
  <2>3. AnswerIsTrue(j)'
    BY <1>4, <1>6 DEF AnswerIsTrue
  <2>4. QED
    BY <2>1, <2>2, <2>3
<1>8. PlanIsKept(j)'
  BY <1>1, <1>4, <1>6, PassedIsKept
<1>9. ClaimsFollowUploads(j)'
  <2>1. ClaimsFollowUploads(j)
    BY <1>1 DEF RunInv
  <2>2. {c \in Crates : uploader[c] = j} = claims
    BY <1>1, <2>1 DEF ClaimsFollowUploads, claims, Claimed
  <2>3. QED
    BY <1>4, <1>6, <2>2 DEF ClaimsFollowUploads
<1>10. QED
  BY <1>4, <1>5, <1>7, <1>8, <1>9, OneRunMoves DEF RunInv

\* What publish() does about an answer keeps it.
LEMMA ClassifyKeeps ==
  ASSUME PublishInv, NEW j \in Jobs, Classify(j)
  PROVE  PublishInv'
<1>1. job[j].phase = "answered" /\ UNCHANGED <<now, ws, known, registry, uploader>>
  BY DEF Classify
<1>2. job[j].i <= Len(job[j].plan)
  BY <1>1 DEF PublishInv, AtHandIsPlanned
<1>3. CASE Continues(job[j].answer)
  BY <1>1, <1>3, ContinueKeeps DEF Classify
<1>4. CASE ~Continues(job[j].answer)
  <2>1. Fail(j) \/ (job[j].answer = "limited" /\ \E wait \in Waits : Sleep(j, "backoff", wait))
    BY <1>4 DEF Classify
  <2>2. CASE Fail(j)
    BY <1>1, <2>2, FailKeeps
  <2>3. ASSUME NEW wait \in Waits, Sleep(j, "backoff", wait), job[j].answer = "limited"
        PROVE  PublishInv'
    <3>1. wait \in Nat
      BY PublishConstants
    <3>2. QED
      BY <1>1, <1>2, <2>3, <3>1, SleepKeeps
  <2>4. QED
    BY <2>1, <2>2, <2>3
<1>5. QED
  BY <1>3, <1>4

-----------------------------------------------------------------------------
(* The world, and the theorems.                                            *)

\* A crate that someone else publishes keeps it.
LEMMA PublishByHandKeeps ==
  ASSUME PublishInv, NEW c \in Crates, PublishByHand(c)
  PROVE  PublishInv'
<1>1. /\ registry' = registry \cup {c} /\ known' = known \cup {c}
      /\ UNCHANGED <<now, ws, uploader, job>>
  BY DEF PublishByHand
<1>2. PublishTypeOK'
  BY <1>1 DEF PublishInv, PublishTypeOK
<1>3. ASSUME NEW k \in Jobs PROVE RunInv(k)'
  BY <1>1, <1>2, OthersAreKept
<1>4. QED
  BY <1>1, <1>2, <1>3 DEF PublishInv, RunInv

\* Time passes only up to the wake-ups that are due.
LEMMA TickKeeps ==
  ASSUME PublishInv, Tick
  PROVE  PublishInv'
<1>1. /\ now < MaxTime /\ now' = now + 1 /\ UNCHANGED <<ws, known, registry, uploader, job>>
      /\ \A j \in Jobs : OnTime(j)
  BY DEF Tick
<1>2. PublishTypeOK' /\ now \in Nat
  <2>1. now' \in 1 .. MaxTime /\ now \in Nat
    BY <1>1, PublishConstants DEF PublishInv, PublishTypeOK
  <2>2. QED
    BY <1>1, <2>1 DEF PublishInv, PublishTypeOK
<1>3. ASSUME NEW k \in Jobs PROVE RunInv(k)'
  <2>1. RunInv(k) /\ OnTime(k)
    BY <1>1 DEF PublishInv, RunInv
  <2>2. job[k].mintedAt \in Nat /\ job[k].wake \in Nat /\ Lag \in Nat /\ Overrun \in Nat
    BY PublishConstants DEF PublishInv, PublishTypeOK, JobState
  <2>3. TimesAreKept(k)'
    BY <1>1, <1>2, <2>1, <2>2 DEF RunInv, TimesAreKept, OnTime
  <2>4. /\ AtHandIsPlanned(k)' /\ PlanIsKept(k)' /\ AnswerIsTrue(k)'
        /\ ClaimsFollowUploads(k)'
    BY <1>1, <2>1 DEF RunInv, AtHandIsPlanned, PlanIsKept, AnswerIsTrue,
       ClaimsFollowUploads, Planning, Upload
  <2>5. QED
    BY <2>3, <2>4 DEF RunInv
<1>4. QED
  BY <1>1, <1>2, <1>3 DEF PublishInv, RunInv

\* Every step keeps the invariant.
LEMMA NextPublishInv == PublishInv /\ [Next]_vars => PublishInv'
<1> SUFFICES ASSUME PublishInv, [Next]_vars PROVE PublishInv'
  OBVIOUS
<1>1. ASSUME NEW j \in Jobs, Step(j) PROVE PublishInv'
  BY <1>1, PlanKeeps, NothingKeeps, AuthenticateKeeps, RecordKeeps, NextCrateKeeps,
     DelayEndsKeeps, BackoffEndsKeeps, AnswerKeeps, ClassifyKeeps DEF Step
<1>2. ASSUME NEW j \in Jobs, StepFails(j) \/ Cancel(j) PROVE PublishInv'
  BY <1>2, FailKeeps DEF StepFails, Cancel
<1>3. ASSUME NEW j \in Jobs, AnswerLost(j) PROVE PublishInv'
  BY <1>3, AnswerLostKeeps
<1>4. ASSUME NEW c \in Crates, PublishByHand(c) PROVE PublishInv'
  BY <1>4, PublishByHandKeeps
<1>5. CASE Tick
  BY <1>5, TickKeeps
<1>6. CASE UNCHANGED vars
  <2>1. PublishTypeOK'
    BY <1>6 DEF vars, PublishInv, PublishTypeOK
  <2>2. \A k \in Jobs : RunInv(k)'
    BY <1>6, <2>1, OthersAreKept DEF vars
  <2>3. QED
    BY <1>6, <2>1, <2>2 DEF vars, PublishInv, RunInv
<1>7. QED
  BY <1>1, <1>2, <1>3, <1>4, <1>5, <1>6 DEF Next

\* Every state of the runs satisfies the inductive invariant.
THEOREM PublishInvariant == Spec => []PublishInv
  BY InitPublishInv, NextPublishInv, PTL DEF Spec

\* The budget leaves enough of the token's life: no attempt starts with an
\* expired one, a retry after a late wake-up included.
THEOREM TokenOutlivesAttempts == Spec => []StartsWithLiveToken
<1>1. PublishInv => StartsWithLiveToken
  BY DEF PublishInv, TimesAreKept, StartsWithLiveToken
<1>2. QED
  BY <1>1, PublishInvariant, PTL

\* crates.io rejects no upload for a missing dependency when the edges that
\* uploads need have an order, whatever the index showed and whoever uploads.
THEOREM NoUploadIsRejected == Spec => []NeverRejected
<1>1. PublishInv => NeverRejected
  BY DEF PublishInv, AnswerIsTrue, NeverRejected
<1>2. QED
  BY <1>1, PublishInvariant, PTL

\* No run stops halfway at a crate that trusted publishing cannot create.
THEOREM NewCratesStopThePlan == Spec => []NeverStopsAtNewCrate
<1>1. PublishInv => NeverStopsAtNewCrate
  BY DEF PublishInv, AnswerIsTrue, NeverStopsAtNewCrate
<1>2. QED
  BY <1>1, PublishInvariant, PTL

\* A run claims only its own uploads, and all of them when it succeeds.
THEOREM ClaimsAreRight == Spec => []OutcomesAreOwn
<1>1. PublishInv => OutcomesAreOwn
  BY DEF PublishInv, AtHandIsPlanned, ClaimsFollowUploads, ClaimsAreOwn, OutcomesAreOwn
<1>2. QED
  BY <1>1, PublishInvariant, PTL

\* A run that succeeds leaves every selected crate on crates.io.
THEOREM SuccessMeansPublished == Spec => []SuccessIsComplete
<1>1. PublishInv => SuccessIsComplete
  BY DEF PublishInv, AnswerIsTrue, SuccessIsComplete
<1>2. QED
  BY <1>1, PublishInvariant, PTL
=============================================================================
