----------------------- MODULE ChangesetsRelease_proofs -----------------------
(***************************************************************************)
(* Proofs about ChangesetsRelease for any packages, any pushes and any     *)
(* interleaving of their runs, with failures and reruns: npm was given the *)
(* dependencies of what is uploaded and whatever has a tag, and a run that *)
(* succeeds has tagged what it planned and what it resumes.                *)
(***************************************************************************)
EXTENDS ChangesetsRelease, PublishOrder_proofs

\* What the invariant says of one run.
RunInv(r) ==
  PhaseFitsJob(r) /\ PlanIsKept(r) /\ PassedIsReleased(r) /\ RowsAreLeft(r)

\* The invariant is one of every run, next to what concerns no run.
LEMMA InvIsRunInv ==
  ReleaseInv <=> /\ ReleaseTypeOK /\ DependenciesFirst /\ TaggedIsGiven
                 /\ \A r \in Runs : RunInv(r)
  BY DEF ReleaseInv, RunInv

\* A run's versions are versions of its packages.
LEMMA VersionsOfRuns ==
  /\ 0 \notin Runs /\ Packages \subseteq Nat \ {0}
  /\ \A r \in Runs, p \in Packages :
       At(r, p) \in Versions /\ At(r, p)[1] = p
  /\ \A v \in Versions : v[1] \in Packages
<1>1. \A r \in Runs, p \in Packages : Commits[r][p] \in Nat /\ 0 \notin Runs
  BY ReleaseConstants DEF Runs
<1>2. 0 \notin Runs
  BY ReleaseConstants DEF Runs
<1>3. QED
  BY <1>1, <1>2, ReleaseConstants DEF Versions, At

-----------------------------------------------------------------------------
(* The order of the packages.                                              *)

\* orderPackages lists every package, behind the packages it depends on.
LEMMA OrderedFacts ==
  ASSUME Ordered(Packages) # Failed
  PROVE  /\ Ordered(Packages) \in Seq(Packages)
         /\ \A p \in Packages : \E i \in 1 .. Len(Ordered(Packages)) : Ordered(Packages)[i] = p
         /\ \A i, j \in 1 .. Len(Ordered(Packages)) :
              Ordered(Packages)[j] \in Deps[Ordered(Packages)[i]] =>
                j < i \/ Ordered(Packages)[j] = Ordered(Packages)[i]
<1> DEFINE l == Ordered(Packages)
           batch == [R \in SUBSET Packages |-> {p \in R : Deps[p] \cap R \subseteq {p}}]
<1>1. Passes(batch, Packages)
  BY ReleaseConstants DEF Passes
<1>2. l = Rounds(batch, Packages)[Packages]
  BY DEF Ordered
<1>3. \A Q \in SUBSET Packages : batch[Q] = {p \in Q : Deps[p] \cap Q \subseteq {p}}
  OBVIOUS
<1> HIDE DEF l, batch
<1>4. Places(batch, Packages, l)
  BY <1>1, <1>2, RoundsPlace DEF l
<1>5. ASSUME NEW i \in 1 .. Len(l), NEW j \in 1 .. Len(l), l[j] \in Deps[l[i]]
      PROVE  j < i \/ l[j] = l[i]
  <2>1. PICK Q \in SUBSET Packages : l[i] \in batch[Q] /\ \A k \in i .. Len(l) : l[k] \in Q
    BY <1>4 DEF Places
  <2>2. Deps[l[i]] \cap Q \subseteq {l[i]}
    BY <1>3, <2>1
  <2>3. Len(l) \in Nat
    BY <1>4 DEF Places
  <2>4. CASE i <= j
    BY <1>5, <2>1, <2>2, <2>3, <2>4
  <2>5. QED
    BY <2>3, <2>4
<1>6. QED
  BY <1>4, <1>5 DEF Places, l

\* A plan lists every package that was not on npm, behind what it depends on.
PlanFits(plan, onNpm) ==
  /\ plan \in Seq(Packages)
  /\ \A k \in 1 .. Len(plan) : plan[k] \notin onNpm
  /\ \A p \in Packages : p \in onNpm \/ \E k \in 1 .. Len(plan) : plan[k] = p
  /\ \A k, l \in 1 .. Len(plan) :
       plan[l] \in Deps[plan[k]] => l < k \/ plan[l] = plan[k]

\* The plan that pack() hands on does.
LEMMA PackedFits ==
  ASSUME Ordered(Packages) # Failed, NEW onNpm \in SUBSET Packages
  PROVE  PlanFits(Kept(Ordered(Packages), Packages \ onNpm), onNpm)
<1> DEFINE plan == Kept(Ordered(Packages), Packages \ onNpm)
<1> DEFINE o == Ordered(Packages)
           T == Packages \ onNpm
<1>1. /\ o \in Seq(Packages)
      /\ \A p \in Packages : \E i \in 1 .. Len(o) : o[i] = p
      /\ \A i, j \in 1 .. Len(o) : o[j] \in Deps[o[i]] => j < i \/ o[j] = o[i]
  BY OrderedFacts
<1>2. /\ plan = Kept(o, T) /\ Packages \cap T = T
      /\ \A p \in Packages : p \in T <=> p \notin onNpm
      /\ \A p \in T : p \in Packages /\ p \notin onNpm
  OBVIOUS
<1> HIDE DEF o, T, plan
<1>3. plan \in Seq(T) /\ IsKept(plan, o, T)
  BY <1>1, <1>2, KeptFacts
<1>9. Len(o) \in Nat /\ Len(plan) \in Nat
  BY <1>1, <1>3
<1>4. PICK at \in [1 .. Len(plan) -> 1 .. Len(o)] :
        /\ \A k \in 1 .. Len(plan) : plan[k] = o[at[k]]
        /\ \A k, l \in 1 .. Len(plan) : k < l => at[k] < at[l]
        /\ \A i \in 1 .. Len(o) : o[i] \in T => \E k \in 1 .. Len(plan) : at[k] = i
  BY <1>3 DEF IsKept
<1>5. ASSUME NEW k \in 1 .. Len(plan), NEW l \in 1 .. Len(plan), plan[l] \in Deps[plan[k]]
      PROVE  l < k \/ plan[l] = plan[k]
  <2>1. /\ at[k] \in 1 .. Len(o) /\ at[l] \in 1 .. Len(o)
        /\ plan[k] = o[at[k]] /\ plan[l] = o[at[l]]
    BY <1>4
  <2>2. at[l] < at[k] \/ plan[l] = plan[k]
    BY <1>1, <1>5, <2>1
  <2>3. k \in Int /\ l \in Int /\ at[k] \in Int /\ at[l] \in Int
    BY <1>9, <2>1
  <2>4. CASE k < l
    <3>1. at[k] < at[l]
      BY <1>4, <2>4
    <3>2. QED
      BY <2>2, <2>3, <3>1
  <2>6. CASE k = l
    BY <2>6
  <2>5. QED
    BY <2>3, <2>4, <2>6
<1>6. ASSUME NEW p \in Packages, p \notin onNpm
      PROVE  \E k \in 1 .. Len(plan) : plan[k] = p
  <2>1. PICK i \in 1 .. Len(o) : o[i] = p
    BY <1>1
  <2>2. p \in T
    BY <1>2, <1>6
  <2>3. PICK k \in 1 .. Len(plan) : at[k] = i
    BY <1>4, <2>1, <2>2
  <2>4. plan[k] = o[at[k]]
    BY <1>4
  <2>5. QED
    BY <2>1, <2>3, <2>4
<1>7. plan \in Seq(Packages) /\ \A k \in 1 .. Len(plan) : plan[k] \notin onNpm
  <2>1. T \subseteq Packages
    BY <1>2
  <2>2. \A k \in 1 .. Len(plan) : plan[k] \in T
    BY <1>3
  <2>3. plan \in Seq(Packages)
    BY <1>3, <2>1
  <2>4. QED
    BY <1>2, <2>2, <2>3
<1>8. PlanFits(plan, onNpm)
  BY <1>5, <1>6, <1>7 DEF PlanFits
<1>10. QED
  BY <1>8 DEF plan

-----------------------------------------------------------------------------
(* What every step keeps.                                                  *)

\* The state of a run but for its phase.
SameButPhase(s, t) ==
  /\ s.job = t.job /\ s.plan = t.plan /\ s.onNpm = t.onNpm /\ s.i = t.i
  /\ s.published = t.published /\ s.released = t.released /\ s.missed = t.missed
  /\ s.resumable = t.resumable /\ s.rows = t.rows /\ s.had = t.had

\* The phases of which only the job is known.
Waits(phase, job) ==
  \/ phase = "failed"
  \/ phase = "pack" /\ job = "pack"
  \/ phase \in {"ready", "waiting", "check"} /\ job = "publish"
  \/ phase = "release" /\ job = "release"

\* What npm was given.
Given == npm \cup staged

\* Being given is being published or staged, in every state.
LEMMA GivenFacts ==
  /\ \A v : AlreadyOnNpm(v) <=> v \in Given
  /\ \A v : AlreadyOnNpm(v)' <=> v \in Given'
  /\ DependenciesFirst <=> \A v \in Versions :
       uploader[v] # None => \A d \in Deps[v[1]] : At(uploader[v], d) \in Given
  /\ DependenciesFirst' <=> \A v \in Versions :
       uploader'[v] # None => \A d \in Deps[v[1]] : At(uploader'[v], d) \in Given'
  /\ TaggedIsGiven <=> tags \subseteq Given
  /\ TaggedIsGiven' <=> tags' \subseteq Given'
  BY DEF AlreadyOnNpm, Given, DependenciesFirst, TaggedIsGiven, At

\* A run keeps its part of the invariant while npm, what it was given and the
\* tags grow, and when it fails, waits, starts or starts again.
LEMMA RunIsKept ==
  ASSUME NEW r \in Runs, RunInv(r), SameButPhase(run'[r], run[r]),
         run'[r].phase = run[r].phase \/ Waits(run'[r].phase, run[r].job),
         npm \subseteq npm', Given \subseteq Given', tags \subseteq tags'
  PROVE  RunInv(r)'
<1>1. PhaseFitsJob(r)'
  BY DEF RunInv, PhaseFitsJob, SameButPhase, Waits
<1>2. PlanIsKept(r)'
  BY DEF RunInv, PlanIsKept, SameButPhase, At
<1>3. PassedIsReleased(r)'
  <2>1. /\ run'[r].phase \in {"next", "uploading"} => run'[r].phase = run[r].phase
        /\ run'[r].phase = "uploading" => run'[r].phase = run[r].phase
    BY DEF Waits
  <2>2. \A p \in run'[r].released : AlreadyOnNpm(At(r, p))'
    BY GivenFacts DEF RunInv, PassedIsReleased, SameButPhase
  <2>3. QED
    BY <2>1, <2>2 DEF RunInv, PassedIsReleased, SameButPhase
<1>4. RowsAreLeft(r)'
  <2>1. run'[r].phase \in {"view", "create", "done"} => run'[r].phase = run[r].phase
    BY DEF Waits
  <2>2. \A p \in run'[r].had : Tagged(p)'
    BY DEF RunInv, RowsAreLeft, SameButPhase, Tagged
  <2>3. QED
    BY <2>1, <2>2 DEF RunInv, RowsAreLeft, SameButPhase
<1>5. QED
  BY <1>1, <1>2, <1>3, <1>4 DEF RunInv

\* One run moves, which neither enters nor leaves the concurrency group.
LEMMA OneRunMoves ==
  ASSUME ReleaseInv, NEW r \in Runs, NEW s \in RunState, run' = [run EXCEPT ![r] = s],
         UNCHANGED <<publishing, waiting>>,
         s.phase \in {"check", "next", "uploading"} <=>
           run[r].phase \in {"check", "next", "uploading"},
         s.phase = "waiting" <=> run[r].phase = "waiting",
         npm' \in SUBSET Versions, npm \subseteq npm',
         UNCHANGED staged, npm' \cap staged = {},
         uploader' \in [Versions -> Runs \cup {None}],
         tags' \in SUBSET Versions, tags \subseteq tags',
         DependenciesFirst', TaggedIsGiven', RunInv(r)'
  PROVE  ReleaseInv'
<1>1. run \in [Runs -> RunState] /\ run'[r] = s /\ Given \subseteq Given'
  BY DEF ReleaseInv, ReleaseTypeOK, Given
<1>2. \A q \in Runs : q # r => run'[q] = run[q]
  BY <1>1
<1>3. ReleaseTypeOK'
  <2>1. run' \in [Runs -> RunState]
    BY <1>1
  <2>2. ASSUME NEW q \in Runs
        PROVE  /\ run'[q].phase \in {"check", "next", "uploading"} <=> publishing' = q
               /\ run'[q].phase = "waiting" <=> waiting' = q
    BY <1>1, <1>2 DEF ReleaseInv, ReleaseTypeOK
  <2>3. QED
    BY <2>1, <2>2 DEF ReleaseInv, ReleaseTypeOK
<1>4. ASSUME NEW q \in Runs PROVE RunInv(q)'
  <2>1. CASE q = r
    BY <2>1
  <2>2. CASE q # r
    <3>1. run'[q] = run[q]
      BY <1>2, <2>2
    <3>2. QED
      BY <1>1, <3>1, RunIsKept DEF ReleaseInv, RunInv, SameButPhase
  <2>3. QED
    BY <2>1, <2>2
<1>5. QED
  BY <1>3, <1>4 DEF ReleaseInv, RunInv

\* The same when nothing is uploaded or tagged.
LEMMA OneRunMovesAlone ==
  ASSUME ReleaseInv, NEW r \in Runs, NEW s \in RunState, run' = [run EXCEPT ![r] = s],
         UNCHANGED <<npm, staged, uploader, tags, publishing, waiting>>,
         s.phase \in {"check", "next", "uploading"} <=>
           run[r].phase \in {"check", "next", "uploading"},
         s.phase = "waiting" <=> run[r].phase = "waiting",
         RunInv(r)'
  PROVE  ReleaseInv'
<1>1. /\ npm' \in SUBSET Versions /\ npm \subseteq npm' /\ npm' \cap staged = {}
      /\ uploader' \in [Versions -> Runs \cup {None}]
      /\ tags' \in SUBSET Versions /\ tags \subseteq tags' /\ Given' = Given
  BY DEF ReleaseInv, ReleaseTypeOK, Given
<1>2. DependenciesFirst' /\ TaggedIsGiven'
  BY <1>1, GivenFacts DEF ReleaseInv
<1>3. QED
  BY <1>1, <1>2, OneRunMoves

\* A step of the concurrency group: runs only change their phase.
LEMMA GroupMoves ==
  ASSUME ReleaseInv, UNCHANGED <<npm, staged, uploader, tags>>,
         run' \in [Runs -> RunState],
         {publishing', waiting'} \subseteq Runs \cup {None},
         \A q \in Runs :
           /\ run'[q].phase \in {"check", "next", "uploading"} <=> publishing' = q
           /\ run'[q].phase = "waiting" <=> waiting' = q
           /\ RunInv(q)'
  PROVE  ReleaseInv'
<1>1. ReleaseTypeOK'
  BY DEF ReleaseInv, ReleaseTypeOK
<1>2. Given' = Given
  BY DEF Given
<1>4. DependenciesFirst' /\ TaggedIsGiven'
  BY <1>2, GivenFacts DEF ReleaseInv
<1>3. QED
  BY <1>1, <1>4 DEF ReleaseInv, RunInv

\* A state of a run with another phase.
LEMMA OtherPhase ==
  ASSUME NEW s \in RunState, NEW phase \in Phases
  PROVE  /\ [s EXCEPT !.phase = phase] \in RunState
         /\ [s EXCEPT !.phase = phase].phase = phase
         /\ SameButPhase([s EXCEPT !.phase = phase], s)
         /\ [s EXCEPT !.phase = phase].job = s.job
  BY DEF RunState, SameButPhase

-----------------------------------------------------------------------------
(* The steps of the jobs.                                                  *)

\* The invariant holds at the start.
LEMMA InitReleaseInv == Init => ReleaseInv
<1> SUFFICES ASSUME Init PROVE ReleaseInv
  OBVIOUS
<1>1. PICK S \in SUBSET {At(1, p) : p \in Packages} : npm = (Packages \X {0}) \cup S
  BY DEF Init
<1>2. npm \in SUBSET Versions
  <2>1. 1 \in Runs
    BY ReleaseConstants DEF Runs
  <2>2. \A p \in Packages : At(1, p) \in Versions
    BY <2>1, VersionsOfRuns
  <2>3. QED
    BY <1>1, <2>2 DEF Versions
<1>3. \A r \in Runs :
        /\ run[r] \in RunState /\ run[r].phase = "pack" /\ run[r].job = "pack"
        /\ run[r].plan = <<>> /\ run[r].released = {} /\ run[r].rows = <<>>
        /\ run[r].had = {}
  BY DEF Init, RunState, Phases, Jobs
<1>4. ReleaseTypeOK
  <2>1. /\ run \in [Runs -> RunState] /\ uploader \in [Versions -> Runs \cup {None}]
        /\ tags \in SUBSET npm /\ publishing = None /\ waiting = None /\ staged = {}
    BY <1>3 DEF Init
  <2>2. QED
    BY <1>2, <1>3, <2>1, VersionsOfRuns DEF ReleaseTypeOK, None
<1>5. DependenciesFirst /\ TaggedIsGiven
  <2>1. tags \subseteq Given /\ \A v \in Versions : uploader[v] = None
    BY DEF Init, Given
  <2>2. QED
    BY <2>1, GivenFacts
<1>6. ASSUME NEW r \in Runs PROVE RunInv(r)
  <2>1. PhaseFitsJob(r) /\ PlanIsKept(r)
    BY <1>3 DEF PhaseFitsJob, PlanIsKept
  <2>2. PassedIsReleased(r)
    BY <1>3 DEF PassedIsReleased
  <2>3. RowsAreLeft(r)
    BY <1>3 DEF RowsAreLeft
  <2>4. QED
    BY <2>1, <2>2, <2>3 DEF RunInv
<1>7. QED
  BY <1>4, <1>5, <1>6 DEF ReleaseInv, RunInv

\* Packing plans what is not on npm.
LEMMA PackKeeps ==
  ASSUME ReleaseInv, NEW r \in Runs, Pack(r)
  PROVE  ReleaseInv'
<1>1. PICK onNpm \in SUBSET {p \in Packages : At(r, p) \in npm} :
        run' = [run EXCEPT
          ![r].onNpm = onNpm,
          ![r].plan = Kept(Ordered(Packages), Packages \ onNpm),
          ![r].phase = IF onNpm = Packages THEN "done" ELSE "ready",
          ![r].job = IF onNpm = Packages THEN @ ELSE "publish"]
  BY DEF Pack
<1> DEFINE plan == Kept(Ordered(Packages), Packages \ onNpm)
           s == [run[r] EXCEPT
                  !.onNpm = onNpm, !.plan = plan,
                  !.phase = IF onNpm = Packages THEN "done" ELSE "ready",
                  !.job = IF onNpm = Packages THEN @ ELSE "publish"]
<1>2. /\ run[r].phase = "pack" /\ Ordered(Packages) # Failed
      /\ UNCHANGED <<npm, staged, uploader, tags, publishing, waiting>>
      /\ run[r] \in RunState /\ RunInv(r)
  BY DEF Pack, ReleaseInv, RunInv, ReleaseTypeOK
<1>3. run' = [run EXCEPT ![r] = s] /\ run'[r] = s
  BY <1>1 DEF ReleaseInv, ReleaseTypeOK
<1>4. onNpm \in SUBSET Packages /\ \A p \in onNpm : At(r, p) \in npm
  OBVIOUS
<1>5. /\ plan \in Seq(Packages)
      /\ \A k \in 1 .. Len(plan) : plan[k] \notin onNpm
      /\ \A p \in Packages : p \in onNpm \/ \E k \in 1 .. Len(plan) : plan[k] = p
      /\ \A k, l \in 1 .. Len(plan) :
           plan[l] \in Deps[plan[k]] => l < k \/ plan[l] = plan[k]
  <2>1. PlanFits(plan, onNpm)
    BY <1>2, <1>4, PackedFits
  <2> HIDE DEF plan
  <2>2. QED
    BY <2>1 DEF PlanFits
<1> HIDE DEF plan
<1>6. s \in RunState
  BY <1>2, <1>4, <1>5 DEF RunState, Phases, Jobs
<1>7. /\ s.onNpm = onNpm /\ s.plan = plan
      /\ s.phase = IF onNpm = Packages THEN "done" ELSE "ready"
      /\ s.job = IF onNpm = Packages THEN "pack" ELSE "publish"
      /\ s.released = run[r].released /\ s.rows = run[r].rows /\ s.had = run[r].had
  BY <1>2 DEF RunState, RunInv, PhaseFitsJob
<1> HIDE DEF s
<1>8. onNpm = Packages => plan = <<>>
  <2>1. SUFFICES ASSUME onNpm = Packages PROVE plan = <<>>
    OBVIOUS
  <2>2. Len(plan) \in Nat /\ \A k \in 1 .. Len(plan) : plan[k] \in Packages
    BY <1>5
  <2>3. Len(plan) = 0
    BY <1>5, <2>1, <2>2
  <2>4. QED
    BY <1>5, <2>3
<1>9. run[r].rows = <<>> /\ run[r].had = {} /\ run[r].job = "pack"
  BY <1>2 DEF RunInv, PhaseFitsJob
<1>10. PhaseFitsJob(r)' /\ PlanIsKept(r)'
  <2>1. PhaseFitsJob(r)'
    BY <1>3, <1>7, <1>9 DEF PhaseFitsJob
  <2>2. PlanIsKept(r)'
    BY <1>2, <1>3, <1>4, <1>5, <1>7, <1>8 DEF PlanIsKept
  <2>3. QED
    BY <2>1, <2>2
<1>11. PassedIsReleased(r)' /\ RowsAreLeft(r)'
  <2>1. PassedIsReleased(r)'
    BY <1>2, <1>3, <1>7, <1>9 DEF RunInv, PassedIsReleased, AlreadyOnNpm
  <2>2. RowsAreLeft(r)'
    BY <1>2, <1>3, <1>7, <1>9 DEF RowsAreLeft
  <2>3. QED
    BY <2>1, <2>2
<1>12. QED
  BY <1>2, <1>3, <1>6, <1>7, <1>10, <1>11, OneRunMovesAlone DEF RunInv

\* The publish job takes the plan that it was handed.
LEMMA StartPublishKeeps ==
  ASSUME ReleaseInv, NEW r \in Runs, StartPublish(r)
  PROVE  ReleaseInv'
<1>1. /\ run[r].phase = "ready" /\ UNCHANGED <<npm, staged, uploader, tags>>
      /\ run \in [Runs -> RunState] /\ 0 \notin Runs
      /\ \A q \in Runs : RunInv(q) /\ run[q] \in RunState
      /\ \A q \in Runs :
           /\ run[q].phase \in {"check", "next", "uploading"} <=> publishing = q
           /\ run[q].phase = "waiting" <=> waiting = q
      /\ {publishing, waiting} \subseteq Runs \cup {None}
  BY VersionsOfRuns DEF StartPublish, ReleaseInv, ReleaseTypeOK, RunInv
<1>2. run[r].job = "publish" /\ publishing # r /\ waiting # r
  BY <1>1 DEF RunInv, PhaseFitsJob
<1>3. {"check", "waiting", "failed"} \subseteq Phases
  BY DEF Phases
<1>4. CASE publishing = None
  <2> DEFINE s == [run[r] EXCEPT !.phase = "check"]
  <2>1. /\ publishing' = r /\ UNCHANGED waiting
        /\ run' = [run EXCEPT ![r] = s] /\ run'[r] = s
    BY <1>1, <1>4 DEF StartPublish
  <2>2. s \in RunState /\ s.phase = "check" /\ SameButPhase(s, run[r])
    BY <1>1, <1>3, OtherPhase
  <2> HIDE DEF s
  <2>3. \A q \in Runs : q # r => run'[q] = run[q]
    BY <1>1, <2>1
  <2>4. run' \in [Runs -> RunState]
    BY <1>1, <2>1, <2>2
  <2>5. ASSUME NEW q \in Runs
        PROVE  /\ run'[q].phase \in {"check", "next", "uploading"} <=> publishing' = q
               /\ run'[q].phase = "waiting" <=> waiting' = q
    <3>1. CASE q = r
      BY <1>1, <1>2, <2>1, <2>2, <3>1
    <3>2. CASE q # r
      BY <1>1, <1>4, <2>1, <2>3, <3>2 DEF None
    <3>3. QED
      BY <3>1, <3>2
  <2>6. ASSUME NEW q \in Runs PROVE RunInv(q)'
    <3>1. SameButPhase(run'[q], run[q])
      BY <2>1, <2>2, <2>3 DEF SameButPhase
    <3>2. run'[q].phase = run[q].phase \/ Waits(run'[q].phase, run[q].job)
      BY <1>2, <2>1, <2>2, <2>3 DEF Waits
    <3>3. QED
      BY <1>1, <3>1, <3>2, RunIsKept DEF Given
  <2>7. {publishing', waiting'} \subseteq Runs \cup {None}
    BY <1>1, <2>1
  <2>8. QED
    BY <1>1, <2>4, <2>5, <2>6, <2>7, GroupMoves
<1>5. CASE publishing # None
  <2>1. /\ waiting' = r /\ UNCHANGED publishing
        /\ run' = [q \in Runs |->
             CASE q = r       -> [run[q] EXCEPT !.phase = "waiting"]
               [] q = waiting -> [run[q] EXCEPT !.phase = "failed"]
               [] OTHER       -> run[q]]
    BY <1>5 DEF StartPublish
  <2>2. ASSUME NEW q \in Runs
        PROVE  /\ run'[q] \in RunState /\ SameButPhase(run'[q], run[q])
               /\ run'[q].phase = IF q = r THEN "waiting"
                                 ELSE IF q = waiting THEN "failed" ELSE run[q].phase
    <3>1. CASE q = r
      <4>1. run'[q] = [run[q] EXCEPT !.phase = "waiting"]
        BY <1>2, <2>1, <3>1
      <4>2. QED
        BY <1>1, <1>3, <3>1, <4>1, OtherPhase
    <3>2. CASE q # r /\ q = waiting
      <4>1. run'[q] = [run[q] EXCEPT !.phase = "failed"]
        BY <2>1, <3>2
      <4>2. QED
        BY <1>1, <1>3, <3>2, <4>1, OtherPhase
    <3>3. CASE q # r /\ q # waiting
      <4>1. run'[q] = run[q]
        BY <2>1, <3>3
      <4>2. QED
        BY <1>1, <3>3, <4>1 DEF SameButPhase
    <3>4. QED
      BY <3>1, <3>2, <3>3
  <2>3. run' \in [Runs -> RunState]
    BY <2>1, <2>2
  <2>4. ASSUME NEW q \in Runs
        PROVE  /\ run'[q].phase \in {"check", "next", "uploading"} <=> publishing' = q
               /\ run'[q].phase = "waiting" <=> waiting' = q
    BY <1>1, <1>2, <2>1, <2>2
  <2>5. ASSUME NEW q \in Runs PROVE RunInv(q)'
    <3>1. run'[q].phase = run[q].phase \/ Waits(run'[q].phase, run[q].job)
      BY <1>2, <2>2 DEF Waits
    <3>2. QED
      BY <1>1, <2>2, <3>1, RunIsKept DEF Given
  <2>6. {publishing', waiting'} \subseteq Runs \cup {None}
    BY <1>1, <2>1
  <2>7. QED
    BY <1>1, <2>3, <2>4, <2>5, <2>6, GroupMoves
<1>6. QED
  BY <1>4, <1>5

\* A run leaves the group in a state that keeps its part of the invariant.
LEMMA LeaveKeeps ==
  ASSUME ReleaseInv, NEW r \in Runs, NEW s \in RunState, LeaveGroup(r, s),
         UNCHANGED <<npm, staged, uploader, tags>>, publishing = r,
         s.phase \in {"release", "failed"}, run'[r] = s => RunInv(r)'
  PROVE  ReleaseInv'
<1>1. /\ run \in [Runs -> RunState] /\ 0 \notin Runs
      /\ \A q \in Runs : RunInv(q) /\ run[q] \in RunState
      /\ \A q \in Runs :
           /\ run[q].phase \in {"check", "next", "uploading"} <=> publishing = q
           /\ run[q].phase = "waiting" <=> waiting = q
      /\ {publishing, waiting} \subseteq Runs \cup {None}
  BY VersionsOfRuns DEF ReleaseInv, ReleaseTypeOK, RunInv
<1>2. /\ publishing' = waiting /\ waiting' = None /\ waiting # r /\ "check" \in Phases
      /\ run' = [q \in Runs |->
           CASE q = r       -> s
             [] q = waiting -> [run[q] EXCEPT !.phase = "check"]
             [] OTHER       -> run[q]]
  BY <1>1 DEF LeaveGroup, Phases
<1>3. run'[r] = s
  BY <1>2
<1>4. ASSUME NEW q \in Runs, q # r
      PROVE  /\ run'[q] \in RunState /\ SameButPhase(run'[q], run[q])
             /\ run'[q].phase = IF q = waiting THEN "check" ELSE run[q].phase
  <2>1. CASE q = waiting
    <3>1. run'[q] = [run[q] EXCEPT !.phase = "check"]
      BY <1>2, <1>4, <2>1
    <3>2. run[q] \in RunState /\ "check" \in Phases
      BY <1>1, <1>2
    <3>3. QED
      BY <2>1, <3>1, <3>2, OtherPhase
  <2>2. CASE q # waiting
    <3>1. run'[q] = run[q]
      BY <1>2, <1>4, <2>2
    <3>2. QED
      BY <1>1, <2>2, <3>1 DEF SameButPhase
  <2>3. QED
    BY <2>1, <2>2
<1>5. run' \in [Runs -> RunState]
  BY <1>2, <1>3, <1>4
<1>6. ASSUME NEW q \in Runs
      PROVE  /\ run'[q].phase \in {"check", "next", "uploading"} <=> publishing' = q
             /\ run'[q].phase = "waiting" <=> waiting' = q
  <2>1. CASE q = r
    BY <1>1, <1>2, <1>3, <2>1 DEF None
  <2>2. CASE q # r
    BY <1>1, <1>2, <1>4, <2>2 DEF None
  <2>3. QED
    BY <2>1, <2>2
<1>7. ASSUME NEW q \in Runs PROVE RunInv(q)'
  <2>1. CASE q = r
    BY <1>3, <2>1
  <2>2. CASE q # r
    <3>1. run'[q].phase = run[q].phase \/ Waits(run'[q].phase, run[q].job)
      BY <1>1, <1>4, <2>2 DEF Waits, RunInv, PhaseFitsJob
    <3>2. QED
      BY <1>1, <1>4, <2>2, <3>1, RunIsKept DEF Given
  <2>3. QED
    BY <2>1, <2>2
<1>8. {publishing', waiting'} \subseteq Runs \cup {None}
  BY <1>1, <1>2
<1>9. QED
  BY <1>5, <1>6, <1>7, <1>8, GroupMoves

\* The publish job hands on what it passed.
LEMMA PublishEndsKeeps ==
  ASSUME ReleaseInv, NEW r \in Runs, PublishEnds(r)
  PROVE  ReleaseInv'
<1> DEFINE s == [run[r] EXCEPT !.phase = "release", !.job = "release"]
<1>1. /\ run[r].phase = "next" /\ run[r].i > Len(run[r].plan)
      /\ LeaveGroup(r, s) /\ UNCHANGED <<npm, staged, uploader, tags>>
      /\ publishing = r /\ RunInv(r) /\ run[r] \in RunState
  BY DEF PublishEnds, ReleaseInv, RunInv, ReleaseTypeOK
<1>2. s \in RunState
  BY <1>1 DEF RunState, Phases, Jobs
<1>3. /\ s.phase = "release" /\ s.job = "release" /\ s.plan = run[r].plan
      /\ s.onNpm = run[r].onNpm /\ s.released = run[r].released
      /\ s.resumable = run[r].resumable /\ s.had = run[r].had
      /\ s.missed = run[r].missed
  BY <1>1 DEF RunState
<1> HIDE DEF s
<1>4. ASSUME run'[r] = s PROVE RunInv(r)'
  <2>1. run[r].job = "publish" /\ run[r].had = {}
    BY <1>1 DEF RunInv, PhaseFitsJob
  <2>2. PhaseFitsJob(r)'
    BY <1>3, <1>4 DEF PhaseFitsJob
  <2>3. PlanIsKept(r)'
    BY <1>1, <1>3, <1>4, <2>1 DEF RunInv, PlanIsKept, At
  <2>4. \A k \in 1 .. Len(run[r].plan) : run[r].plan[k] \in run[r].released
    <3>1. run[r].i \in Nat /\ Len(run[r].plan) \in Nat
      BY <1>1 DEF RunState
    <3>2. \A k \in 1 .. Len(run[r].plan) : k < run[r].i
      BY <1>1, <3>1
    <3>3. QED
      BY <1>1, <3>2 DEF RunInv, PassedIsReleased
  <2>5. PassedIsReleased(r)'
    BY <1>1, <1>3, <1>4, <2>4 DEF RunInv, PassedIsReleased, AlreadyOnNpm
  <2>6. RowsAreLeft(r)'
    BY <1>3, <1>4, <2>1 DEF RowsAreLeft
  <2>7. QED
    BY <2>2, <2>3, <2>5, <2>6 DEF RunInv
<1>5. QED
  BY <1>1, <1>2, <1>3, <1>4, LeaveKeeps

\* A job that fails keeps it.
LEMMA FailKeeps ==
  ASSUME ReleaseInv, NEW r \in Runs, Fail(r)
  PROVE  ReleaseInv'
<1> DEFINE s == [run[r] EXCEPT !.phase = "failed"]
<1>1. /\ run[r].phase \notin {"done", "failed"} /\ UNCHANGED <<npm, staged, uploader, tags>>
      /\ CASE publishing = r -> LeaveGroup(r, s)
           [] waiting = r    -> /\ waiting' = None
                                /\ run' = [run EXCEPT ![r] = s]
                                /\ UNCHANGED publishing
           [] OTHER          -> /\ run' = [run EXCEPT ![r] = s]
                                /\ UNCHANGED <<publishing, waiting>>
  BY DEF Fail
<1>2. /\ run \in [Runs -> RunState] /\ 0 \notin Runs
      /\ \A q \in Runs : RunInv(q) /\ run[q] \in RunState
      /\ \A q \in Runs :
           /\ run[q].phase \in {"check", "next", "uploading"} <=> publishing = q
           /\ run[q].phase = "waiting" <=> waiting = q
      /\ {publishing, waiting} \subseteq Runs \cup {None}
  BY VersionsOfRuns DEF ReleaseInv, ReleaseTypeOK, RunInv
<1>3. s \in RunState /\ s.phase = "failed" /\ SameButPhase(s, run[r])
  <2>1. run[r] \in RunState /\ "failed" \in Phases
    BY <1>2 DEF Phases
  <2>2. QED
    BY <2>1, OtherPhase
<1> HIDE DEF s
<1>4. ASSUME run'[r] = s PROVE RunInv(r)'
  <2>1. SameButPhase(run'[r], run[r]) /\ Waits(run'[r].phase, run[r].job)
    BY <1>3, <1>4 DEF Waits
  <2>2. npm \subseteq npm' /\ Given \subseteq Given' /\ tags \subseteq tags'
    BY <1>1 DEF Given
  <2>3. QED
    BY <1>2, <2>1, <2>2, RunIsKept
<1>5. CASE publishing = r
  <2>1. LeaveGroup(r, s)
    <3>1. waiting # r
      BY <1>2, <1>5
    <3>2. QED
      BY <1>1, <1>5, <3>1
  <2>2. QED
    BY <1>1, <1>3, <1>4, <1>5, <2>1, LeaveKeeps
<1>6. CASE publishing # r
  <2>1. /\ run' = [run EXCEPT ![r] = s] /\ UNCHANGED publishing
        /\ waiting' = IF waiting = r THEN None ELSE waiting
    BY <1>1, <1>6
  <2>2. run'[r] = s /\ \A q \in Runs : q # r => run'[q] = run[q]
    BY <1>2, <2>1
  <2>3. run' \in [Runs -> RunState]
    BY <1>2, <1>3, <2>1
  <2>4. ASSUME NEW q \in Runs
        PROVE  /\ run'[q].phase \in {"check", "next", "uploading"} <=> publishing' = q
               /\ run'[q].phase = "waiting" <=> waiting' = q
    BY <1>2, <1>3, <1>6, <2>1, <2>2 DEF None
  <2>5. ASSUME NEW q \in Runs PROVE RunInv(q)'
    <3>1. CASE q = r
      BY <1>4, <2>2, <3>1
    <3>2. CASE q # r
      <4>1. SameButPhase(run'[q], run[q]) /\ run'[q].phase = run[q].phase
        BY <2>2, <3>2 DEF SameButPhase
      <4>2. npm \subseteq npm' /\ Given \subseteq Given' /\ tags \subseteq tags'
        BY <1>1 DEF Given
      <4>3. QED
        BY <1>2, <4>1, <4>2, RunIsKept
    <3>3. QED
      BY <3>1, <3>2
  <2>6. {publishing', waiting'} \subseteq Runs \cup {None}
    BY <1>2, <2>1
  <2>7. QED
    BY <1>1, <2>3, <2>4, <2>5, <2>6, GroupMoves
<1>7. QED
  BY <1>5, <1>6

\* A rerun of the failed jobs starts from the outputs that are left.
LEMMA RerunKeeps ==
  ASSUME ReleaseInv, NEW r \in Runs, Rerun(r)
  PROVE  ReleaseInv'
<1> DEFINE phase == CASE run[r].job = "pack"    -> "pack"
                      [] run[r].job = "publish" -> "ready"
                      [] run[r].job = "release" -> "release"
           s == [run[r] EXCEPT !.phase = phase]
<1>1. /\ run[r].phase = "failed" /\ UNCHANGED <<npm, staged, uploader, tags, publishing, waiting>>
      /\ run' = [run EXCEPT ![r] = s] /\ run'[r] = s
      /\ run[r] \in RunState /\ RunInv(r)
  BY DEF Rerun, ReleaseInv, ReleaseTypeOK, RunInv
<1>2. run[r].job \in Jobs
  BY <1>1 DEF RunState
<1>3. /\ phase \in {"pack", "ready", "release"} /\ phase \in Phases
      /\ Waits(phase, run[r].job)
  BY <1>2 DEF Jobs, Phases, Waits
<1> HIDE DEF phase
<1>4. s \in RunState /\ s.phase = phase /\ SameButPhase(s, run[r])
  BY <1>1, <1>3, OtherPhase
<1> HIDE DEF s
<1>5. npm \subseteq npm' /\ Given \subseteq Given' /\ tags \subseteq tags'
  BY <1>1 DEF Given
<1>6. RunInv(r)'
  BY <1>1, <1>3, <1>4, <1>5, RunIsKept
<1>7. QED
  BY <1>1, <1>3, <1>4, <1>6, OneRunMovesAlone

\* What the second lookup confirms may be resumed.
LEMMA CheckKeeps ==
  ASSUME ReleaseInv, NEW r \in Runs, Check(r)
  PROVE  ReleaseInv'
<1>1. PICK missed \in SUBSET run[r].onNpm :
        run' = [run EXCEPT ![r].phase = "next", ![r].i = 1, ![r].missed = missed,
                           ![r].resumable = Resumable(r, missed),
                           ![r].published = {}, ![r].released = {}]
  BY DEF Check
<1> DEFINE s == [run[r] EXCEPT !.phase = "next", !.i = 1, !.missed = missed,
                               !.resumable = Resumable(r, missed),
                               !.published = {}, !.released = {}]
<1>2. /\ run[r].phase = "check"
      /\ UNCHANGED <<npm, staged, uploader, tags, publishing, waiting>>
      /\ run' = [run EXCEPT ![r] = s] /\ run'[r] = s
      /\ run[r] \in RunState /\ RunInv(r)
  BY <1>1 DEF Check, ReleaseInv, ReleaseTypeOK, RunInv
<1>3. run[r].job = "publish" /\ run[r].rows = <<>> /\ run[r].had = {}
  BY <1>2 DEF RunInv, PhaseFitsJob
<1>4. Resumable(r, missed) = run[r].onNpm \ (Ambiguous[r] \cup missed)
  BY <1>2, <1>3 DEF Resumable, RunInv, PlanIsKept
<1>5. /\ missed \in SUBSET Packages /\ Resumable(r, missed) \in SUBSET Packages
      /\ "next" \in Phases
  BY <1>2, <1>4 DEF RunState, Phases
<1> HIDE DEF Resumable
<1>6. s \in RunState
  BY <1>2, <1>5 DEF RunState
<1>7. /\ s.phase = "next" /\ s.job = "publish" /\ s.plan = run[r].plan
      /\ s.onNpm = run[r].onNpm /\ s.i = 1 /\ s.released = {} /\ s.missed = missed
      /\ s.resumable = run[r].onNpm \ (Ambiguous[r] \cup missed)
      /\ s.rows = <<>> /\ s.had = {}
  BY <1>2, <1>3, <1>4 DEF RunState
<1> HIDE DEF s
<1>8. PhaseFitsJob(r)'
  BY <1>2, <1>7 DEF PhaseFitsJob
<1>9. PlanIsKept(r)'
  BY <1>2, <1>3, <1>7 DEF RunInv, PlanIsKept, At
<1>10. PassedIsReleased(r)'
  BY <1>2, <1>7 DEF PassedIsReleased
<1>11. RowsAreLeft(r)'
  BY <1>2, <1>7 DEF RowsAreLeft
<1>12. QED
  BY <1>2, <1>6, <1>7, <1>8, <1>9, <1>10, <1>11, OneRunMovesAlone DEF RunInv

\* The current package, and that npm was given its dependencies.
LEMMA CurrentFacts ==
  ASSUME ReleaseInv, NEW r \in Runs, run[r].phase \in {"next", "uploading"},
         run[r].i <= Len(run[r].plan)
  PROVE  /\ run[r].i \in 1 .. Len(run[r].plan) /\ Current(r) = run[r].plan[run[r].i]
         /\ Current(r) \in Packages
         /\ \A d \in Deps[Current(r)] : d = Current(r) \/ At(r, d) \in Given
<1>1. RunInv(r) /\ run[r] \in RunState /\ run[r].job = "publish"
  BY DEF ReleaseInv, ReleaseTypeOK, RunInv, PhaseFitsJob
<1>2. /\ run[r].i \in Nat /\ run[r].plan \in Seq(Packages) /\ run[r].i >= 1
      /\ Len(run[r].plan) \in Nat
  BY <1>1 DEF RunState, RunInv, PassedIsReleased
<1>3. run[r].i \in 1 .. Len(run[r].plan) /\ Current(r) = run[r].plan[run[r].i]
  BY <1>2 DEF Current
<1>4. Current(r) \in Packages
  BY <1>2, <1>3
<1>5. ASSUME NEW d \in Deps[Current(r)], d # Current(r) PROVE At(r, d) \in Given
  <2>1. d \in Packages
    BY <1>4, ReleaseConstants
  <2>2. /\ \A p \in run[r].onNpm : At(r, p) \in Given
        /\ \A p \in Packages : p \in run[r].onNpm
             \/ \E k \in 1 .. Len(run[r].plan) : run[r].plan[k] = p
        /\ \A k, l \in 1 .. Len(run[r].plan) :
             run[r].plan[l] \in Deps[run[r].plan[k]] =>
               l < k \/ run[r].plan[l] = run[r].plan[k]
        /\ \A p \in run[r].released : At(r, p) \in Given
        /\ \A k \in 1 .. Len(run[r].plan) : k < run[r].i => run[r].plan[k] \in run[r].released
    BY <1>1 DEF RunInv, PlanIsKept, PassedIsReleased, AlreadyOnNpm, Given
  <2>3. CASE d \in run[r].onNpm
    BY <2>2, <2>3
  <2>4. CASE d \notin run[r].onNpm
    <3>1. PICK l \in 1 .. Len(run[r].plan) : run[r].plan[l] = d
      BY <2>1, <2>2, <2>4
    <3>2. l < run[r].i
      BY <1>3, <1>5, <2>2, <3>1
    <3>3. QED
      BY <2>2, <3>1, <3>2
  <2>5. QED
    BY <2>3, <2>4
<1>6. QED
  BY <1>3, <1>4, <1>5

\* The run goes on once npm was given its current package.
LEMMA AdvancedFacts ==
  ASSUME ReleaseInv, NEW r \in Runs, run[r].phase \in {"next", "uploading"},
         run[r].i <= Len(run[r].plan), NEW uploaded \in BOOLEAN
  PROVE  /\ Advanced(r, Current(r), uploaded) \in RunState
         /\ Advanced(r, Current(r), uploaded).phase = "next"
         /\ (/\ run' = [run EXCEPT ![r] = Advanced(r, Current(r), uploaded)]
             /\ npm \subseteq npm' /\ Given \subseteq Given' /\ tags \subseteq tags'
             /\ At(r, Current(r)) \in Given')
            => RunInv(r)'
<1> DEFINE p == Current(r)
           s == Advanced(r, p, uploaded)
<1>1. /\ run \in [Runs -> RunState] /\ run[r] \in RunState /\ RunInv(r)
      /\ run[r].job = "publish" /\ run[r].rows = <<>> /\ run[r].had = {}
  BY DEF ReleaseInv, ReleaseTypeOK, RunInv, PhaseFitsJob
<1>2. /\ run[r].i \in 1 .. Len(run[r].plan) /\ p = run[r].plan[run[r].i] /\ p \in Packages
  BY CurrentFacts
<1> HIDE DEF p
<1>3. s \in RunState
  <2>1. /\ run[r].i + 1 \in Nat /\ run[r].released \cup {p} \in SUBSET Packages
        /\ (IF uploaded THEN run[r].published \cup {p} ELSE run[r].published) \in SUBSET Packages
    BY <1>1, <1>2 DEF RunState
  <2>2. "next" \in Phases
    BY DEF Phases
  <2>3. QED
    BY <1>1, <2>1, <2>2 DEF RunState, Advanced
<1>4. /\ s.phase = "next" /\ s.job = "publish" /\ s.plan = run[r].plan
      /\ s.onNpm = run[r].onNpm /\ s.i = run[r].i + 1
      /\ s.released = run[r].released \cup {p}
      /\ s.resumable = run[r].resumable /\ s.rows = <<>> /\ s.had = {}
      /\ s.missed = run[r].missed
  BY <1>1 DEF RunState, Advanced
<1> HIDE DEF s
<1>5. ASSUME run' = [run EXCEPT ![r] = s], npm \subseteq npm', Given \subseteq Given',
             tags \subseteq tags', At(r, p) \in Given'
      PROVE  RunInv(r)'
  <2>1. run'[r] = s
    BY <1>1, <1>5
  <2>2. PhaseFitsJob(r)'
    BY <1>4, <2>1 DEF PhaseFitsJob
  <2>3. PlanIsKept(r)'
    BY <1>1, <1>4, <1>5, <2>1 DEF RunInv, PlanIsKept, At
  <2>4. PassedIsReleased(r)'
    <3>1. \A q \in s.released : AlreadyOnNpm(At(r, q))'
      <4>1. \A q \in run[r].released : At(r, q) \in Given
        BY <1>1, GivenFacts DEF RunInv, PassedIsReleased
      <4>2. QED
        BY <1>4, <1>5, <4>1, GivenFacts
    <3>2. s.i >= 1
      BY <1>2, <1>4
    <3>3. ASSUME NEW k \in 1 .. Len(run[r].plan), k < s.i
          PROVE  run[r].plan[k] \in s.released
      <4>1. k < run[r].i \/ k = run[r].i
        BY <1>2, <1>4, <3>3
      <4>2. CASE k = run[r].i
        BY <1>2, <1>4, <4>2
      <4>3. CASE k < run[r].i
        BY <1>1, <1>4, <4>3 DEF RunInv, PassedIsReleased
      <4>4. QED
        BY <4>1, <4>2, <4>3
    <3>4. run[r].resumable = run[r].onNpm \ (Ambiguous[r] \cup run[r].missed)
      BY <1>1 DEF RunInv, PassedIsReleased
    <3>5. QED
      BY <1>4, <2>1, <3>1, <3>2, <3>3, <3>4 DEF PassedIsReleased, At
  <2>5. RowsAreLeft(r)'
    BY <1>4, <2>1 DEF RowsAreLeft
  <2>6. QED
    BY <2>2, <2>3, <2>4, <2>5 DEF RunInv
<1>6. QED
  BY <1>3, <1>4, <1>5 DEF p, s

\* Going on with the next package keeps it.
LEMMA NextPackageKeeps ==
  ASSUME ReleaseInv, NEW r \in Runs, NextPackage(r)
  PROVE  ReleaseInv'
<1>1. /\ run[r].phase = "next" /\ run[r].i <= Len(run[r].plan)
      /\ UNCHANGED <<npm, staged, uploader, tags, publishing, waiting>>
      /\ run \in [Runs -> RunState] /\ run[r] \in RunState /\ RunInv(r)
  BY DEF NextPackage, ReleaseInv, ReleaseTypeOK, RunInv
<1>2. CASE At(r, Current(r)) \in npm
           /\ run' = [run EXCEPT ![r] = Advanced(r, Current(r), FALSE)]
  <2> DEFINE s == Advanced(r, Current(r), FALSE)
  <2>1. s \in RunState /\ s.phase = "next" /\ RunInv(r)'
    BY <1>1, <1>2, AdvancedFacts DEF Given
  <2>2. run' = [run EXCEPT ![r] = s]
    BY <1>2
  <2> HIDE DEF s
  <2>3. QED
    BY <1>1, <2>1, <2>2, OneRunMovesAlone
<1>3. CASE run' = [run EXCEPT ![r].phase = "uploading"]
  <2> DEFINE s == [run[r] EXCEPT !.phase = "uploading"]
  <2>1. run' = [run EXCEPT ![r] = s] /\ run'[r] = s
    BY <1>1, <1>3
  <2>2. s \in RunState /\ s.phase = "uploading" /\ SameButPhase(s, run[r])
    <3>1. "uploading" \in Phases
      BY DEF Phases
    <3>2. QED
      BY <1>1, <3>1, OtherPhase
  <2> HIDE DEF s
  <2>3. PhaseFitsJob(r)' /\ RowsAreLeft(r)'
    BY <1>1, <2>1, <2>2 DEF RunInv, PhaseFitsJob, RowsAreLeft, SameButPhase, Tagged
  <2>4. PlanIsKept(r)'
    BY <1>1, <2>1, <2>2 DEF RunInv, PlanIsKept, SameButPhase, At
  <2>5. PassedIsReleased(r)'
    BY <1>1, <2>1, <2>2 DEF RunInv, PassedIsReleased, SameButPhase, AlreadyOnNpm
  <2>6. QED
    BY <1>1, <2>1, <2>2, <2>3, <2>4, <2>5, OneRunMovesAlone DEF RunInv
<1>4. QED
  BY <1>2, <1>3 DEF NextPackage

\* npm takes a version: nothing it depends on is missing.
LEMMA NewVersionFacts ==
  ASSUME ReleaseInv, NEW r \in Runs, run[r].phase = "uploading",
         npm' = npm \cup {At(r, Current(r))},
         uploader' = [uploader EXCEPT ![At(r, Current(r))] = r],
         At(r, Current(r)) \notin Given, UNCHANGED <<staged, tags>>
  PROVE  /\ npm' \in SUBSET Versions /\ npm \subseteq npm' /\ npm' \cap staged = {}
         /\ Given \subseteq Given' /\ At(r, Current(r)) \in Given'
         /\ uploader' \in [Versions -> Runs \cup {None}]
         /\ tags' \in SUBSET Versions /\ tags \subseteq tags'
         /\ DependenciesFirst' /\ TaggedIsGiven'
<1> DEFINE v == At(r, Current(r))
<1>1. run[r].i <= Len(run[r].plan)
  BY DEF ReleaseInv, PassedIsReleased
<1>2. /\ Current(r) \in Packages
      /\ \A d \in Deps[Current(r)] : d = Current(r) \/ At(r, d) \in Given
  BY <1>1, CurrentFacts
<1>3. v \in Versions /\ v[1] = Current(r)
  BY <1>2, VersionsOfRuns
<1>4. /\ npm' = npm \cup {v} /\ uploader' = [uploader EXCEPT ![v] = r]
      /\ Given' = Given \cup {v} /\ v \notin staged
  BY DEF Given
<1>5. /\ npm \in SUBSET Versions /\ tags \in SUBSET Versions /\ tags \subseteq Given
      /\ npm \cap staged = {}
      /\ uploader \in [Versions -> Runs \cup {None}]
      /\ \A w \in Versions : uploader[w] # None =>
           \A d \in Deps[w[1]] : At(uploader[w], d) \in Given
  BY GivenFacts DEF ReleaseInv, ReleaseTypeOK
<1>6. \A d \in Deps[v[1]] : At(r, d) \in Given'
  BY <1>2, <1>3, <1>4
<1> HIDE DEF v
<1>7. ASSUME NEW w \in Versions, uploader'[w] # None, NEW d \in Deps[w[1]]
      PROVE  At(uploader'[w], d) \in Given'
  <2>1. CASE w = v
    BY <1>3, <1>4, <1>5, <1>6, <2>1
  <2>2. CASE w # v
    <3>1. uploader'[w] = uploader[w]
      BY <1>4, <1>5, <2>2
    <3>2. QED
      BY <1>4, <1>5, <1>7, <3>1
  <2>3. QED
    BY <2>1, <2>2
<1>8. DependenciesFirst' /\ TaggedIsGiven'
  BY <1>4, <1>5, <1>7, GivenFacts
<1>9. /\ npm' \in SUBSET Versions /\ npm' \cap staged = {}
      /\ uploader' \in [Versions -> Runs \cup {None}]
  BY <1>3, <1>4, <1>5
<1>10. QED
  BY <1>4, <1>5, <1>8, <1>9 DEF v

\* An upload follows all that its package depends on.
LEMMA UploadKeeps ==
  ASSUME ReleaseInv, NEW r \in Runs, Upload(r)
  PROVE  ReleaseInv'
<1> DEFINE v == At(r, Current(r))
           New == /\ v \notin Given
                  /\ npm' = npm \cup {v}
                  /\ uploader' = [uploader EXCEPT ![v] = r]
<1>1. /\ run[r].phase = "uploading" /\ UNCHANGED <<staged, tags, publishing, waiting>>
      /\ run \in [Runs -> RunState] /\ run[r] \in RunState /\ RunInv(r)
      /\ run[r].i <= Len(run[r].plan)
  BY DEF Upload, ReleaseInv, ReleaseTypeOK, RunInv, PassedIsReleased
<1>2. CASE New /\ run' = [run EXCEPT ![r] = Advanced(r, Current(r), TRUE)]
  <2> DEFINE s == Advanced(r, Current(r), TRUE)
  <2>1. /\ npm' \in SUBSET Versions /\ npm \subseteq npm' /\ npm' \cap staged = {}
        /\ Given \subseteq Given' /\ v \in Given'
        /\ uploader' \in [Versions -> Runs \cup {None}]
        /\ tags' \in SUBSET Versions /\ tags \subseteq tags'
        /\ DependenciesFirst' /\ TaggedIsGiven'
    BY <1>1, <1>2, NewVersionFacts
  <2>2. s \in RunState /\ s.phase = "next" /\ RunInv(r)'
    BY <1>1, <1>2, <2>1, AdvancedFacts
  <2>3. run' = [run EXCEPT ![r] = s]
    BY <1>2
  <2> HIDE DEF s
  <2>4. QED
    BY <1>1, <2>1, <2>2, <2>3, OneRunMoves
<1>3. CASE v \in Given /\ UNCHANGED <<npm, uploader>>
           /\ run' = [run EXCEPT ![r] = Advanced(r, Current(r), FALSE)]
  <2> DEFINE s == Advanced(r, Current(r), FALSE)
  <2>1. s \in RunState /\ s.phase = "next" /\ RunInv(r)'
    BY <1>1, <1>3, AdvancedFacts DEF Given
  <2>2. run' = [run EXCEPT ![r] = s]
    BY <1>3
  <2> HIDE DEF s
  <2>3. QED
    BY <1>1, <1>3, <2>1, <2>2, OneRunMovesAlone
<1>4. CASE New /\ run' = run
  <2>1. /\ npm' \in SUBSET Versions /\ npm \subseteq npm' /\ npm' \cap staged = {}
        /\ Given \subseteq Given' /\ v \in Given'
        /\ uploader' \in [Versions -> Runs \cup {None}]
        /\ tags' \in SUBSET Versions /\ tags \subseteq tags'
        /\ DependenciesFirst' /\ TaggedIsGiven'
    BY <1>1, <1>4, NewVersionFacts
  <2>2. RunInv(r)'
    <3>1. SameButPhase(run'[r], run[r]) /\ run'[r].phase = run[r].phase
      BY <1>4 DEF SameButPhase
    <3>2. QED
      BY <1>1, <2>1, <3>1, RunIsKept
  <2>3. run' = [run EXCEPT ![r] = run[r]]
    BY <1>1, <1>4
  <2>4. QED
    BY <1>1, <2>1, <2>2, <2>3, OneRunMoves
<1>5. \/ New /\ run' = [run EXCEPT ![r] = Advanced(r, Current(r), TRUE)]
      \/ v \in Given /\ UNCHANGED <<npm, uploader>>
           /\ run' = [run EXCEPT ![r] = Advanced(r, Current(r), FALSE)]
      \/ New /\ run' = run
  BY GivenFacts DEF Upload
<1>6. QED
  BY <1>2, <1>3, <1>4, <1>5

\* The rows of the release job: what was released, then what may be resumed.
RowsFit(rows, S) ==
  /\ rows \in Seq(Packages)
  /\ \A k \in 1 .. Len(rows) : rows[k] \in S
  /\ \A p \in S : \E k \in 1 .. Len(rows) : rows[k] = p

\* What a release job works through is made of two ordered parts of its
\* packages.
LEMMA RowsFacts ==
  ASSUME Ordered(Packages) # Failed, NEW A \in SUBSET Packages, NEW B \in SUBSET Packages
  PROVE  RowsFit(Kept(Ordered(Packages), A) \o Kept(Ordered(Packages), B \ A), A \cup B)
<1> DEFINE o == Ordered(Packages)
           C == B \ A
           a == Kept(o, A)
           c == Kept(o, C)
           rows == a \o c
<1>1. o \in Seq(Packages) /\ \A p \in Packages : \E i \in 1 .. Len(o) : o[i] = p
  BY OrderedFacts
<1>2. C \in SUBSET B /\ \A p \in A \cup B : p \in A \/ p \in C
  OBVIOUS
<1> HIDE DEF o, C
<1>3. /\ a \in Seq(Packages \cap A) /\ IsKept(a, o, A)
      /\ c \in Seq(Packages \cap C) /\ IsKept(c, o, C)
  BY <1>1, KeptFacts
<1> HIDE DEF a, c
<1>4. Packages \cap A \subseteq A /\ Packages \cap C \subseteq B /\ C \subseteq Packages
  BY <1>2
<1>5. a \in Seq(A) /\ c \in Seq(B) /\ a \in Seq(Packages) /\ c \in Seq(Packages)
  BY <1>3, <1>4
<1>6. /\ \A p \in A : \E k \in 1 .. Len(a) : a[k] = p
      /\ \A p \in C : \E k \in 1 .. Len(c) : c[k] = p
  <2>1. ASSUME NEW t, NEW T \in SUBSET Packages, IsKept(t, o, T), NEW p \in T
        PROVE  \E k \in 1 .. Len(t) : t[k] = p
    <3>1. PICK at \in [1 .. Len(t) -> 1 .. Len(o)] :
            /\ \A k \in 1 .. Len(t) : t[k] = o[at[k]]
            /\ \A i \in 1 .. Len(o) : o[i] \in T => \E k \in 1 .. Len(t) : at[k] = i
      BY <2>1 DEF IsKept
    <3>2. PICK i \in 1 .. Len(o) : o[i] = p
      BY <1>1
    <3>3. PICK k \in 1 .. Len(t) : at[k] = i
      BY <3>1, <3>2
    <3>4. t[k] = o[at[k]]
      BY <3>1
    <3>5. QED
      BY <3>2, <3>3, <3>4
  <2>2. QED
    BY <1>3, <1>4, <2>1
<1>7. /\ rows \in Seq(Packages) /\ Len(rows) = Len(a) + Len(c)
      /\ Len(a) \in Nat /\ Len(c) \in Nat
      /\ \A k \in 1 .. Len(rows) :
           rows[k] = IF k <= Len(a) THEN a[k] ELSE c[k - Len(a)]
  BY <1>5
<1> HIDE DEF rows
<1>8. ASSUME NEW k \in 1 .. Len(rows) PROVE rows[k] \in A \cup B
  <2>1. CASE k <= Len(a)
    <3>1. k \in 1 .. Len(a) /\ rows[k] = a[k]
      BY <1>7, <2>1
    <3>2. QED
      BY <1>5, <3>1
  <2>2. CASE k > Len(a)
    <3>1. k - Len(a) \in 1 .. Len(c) /\ rows[k] = c[k - Len(a)]
      BY <1>7, <2>2
    <3>2. QED
      BY <1>5, <3>1
  <2>3. QED
    BY <1>7, <2>1, <2>2
<1>9. ASSUME NEW p \in A \cup B PROVE \E k \in 1 .. Len(rows) : rows[k] = p
  <2>1. CASE p \in A
    <3>1. PICK k \in 1 .. Len(a) : a[k] = p
      BY <1>6, <2>1
    <3>2. k \in 1 .. Len(rows) /\ rows[k] = p
      BY <1>7, <3>1
    <3>3. QED
      BY <3>2
  <2>2. CASE p \in C
    <3>1. PICK k \in 1 .. Len(c) : c[k] = p
      BY <1>6, <2>2
    <3>2. /\ Len(a) + k \in 1 .. Len(rows) /\ ~ (Len(a) + k <= Len(a))
          /\ (Len(a) + k) - Len(a) = k
      BY <1>7
    <3>4. rows[Len(a) + k] = p
      BY <1>7, <3>1, <3>2
    <3>3. QED
      BY <3>2, <3>4
  <2>3. QED
    BY <1>2, <2>1, <2>2
<1>10. RowsFit(rows, A \cup B)
  BY <1>7, <1>8, <1>9 DEF RowsFit
<1>11. QED
  BY <1>10 DEF rows, a, c, C, o

\* The release job starts with a row for every version that was passed.
LEMMA StartReleaseKeeps ==
  ASSUME ReleaseInv, NEW r \in Runs, StartRelease(r)
  PROVE  ReleaseInv'
<1> DEFINE rows == Kept(Ordered(Packages), run[r].released)
                     \o Kept(Ordered(Packages), run[r].resumable \ run[r].released)
           had == {p \in Packages : Tagged(p)}
           s == [run[r] EXCEPT !.phase = "view", !.rows = rows, !.had = had]
<1>1. /\ run[r].phase = "release" /\ UNCHANGED <<npm, staged, uploader, tags, publishing, waiting>>
      /\ run' = [run EXCEPT ![r] = s] /\ run'[r] = s
      /\ run[r] \in RunState /\ RunInv(r)
  BY DEF StartRelease, ReleaseInv, ReleaseTypeOK, RunInv
<1>2. run[r].job = "release"
  BY <1>1 DEF RunInv, PhaseFitsJob
<1>3. /\ Ordered(Packages) # Failed
      /\ run[r].released \in SUBSET Packages /\ run[r].resumable \in SUBSET Packages
  BY <1>1, <1>2 DEF RunInv, PlanIsKept, RunState
<1>4. /\ rows \in Seq(Packages)
      /\ \A k \in 1 .. Len(rows) : rows[k] \in run[r].released \cup run[r].resumable
      /\ \A p \in run[r].released \cup run[r].resumable : \E k \in 1 .. Len(rows) : rows[k] = p
  <2>1. RowsFit(rows, run[r].released \cup run[r].resumable)
    BY <1>3, RowsFacts
  <2> HIDE DEF rows
  <2>2. QED
    BY <2>1 DEF RowsFit
<1>5. had \in SUBSET Packages /\ \A p \in had : Tagged(p)
  OBVIOUS
<1> HIDE DEF rows, had
<1>6. s \in RunState
  BY <1>1, <1>4, <1>5 DEF RunState, Phases
<1>7. /\ s.phase = "view" /\ s.job = "release" /\ s.plan = run[r].plan
      /\ s.onNpm = run[r].onNpm /\ s.released = run[r].released
      /\ s.resumable = run[r].resumable /\ s.rows = rows /\ s.had = had
      /\ s.missed = run[r].missed
  BY <1>1, <1>2 DEF RunState
<1> HIDE DEF s
<1>8. run[r].released \cup (had \ (Ambiguous[r] \cup run[r].missed))
        \subseteq run[r].released \cup run[r].resumable
  BY <1>1, <1>2, <1>5 DEF RunInv, PlanIsKept, PassedIsReleased
<1>9. PhaseFitsJob(r)'
  BY <1>1, <1>7 DEF PhaseFitsJob
<1>10. PlanIsKept(r)'
  BY <1>1, <1>2, <1>7 DEF RunInv, PlanIsKept, At
<1>11. PassedIsReleased(r)'
  BY <1>1, <1>2, <1>7 DEF RunInv, PassedIsReleased, AlreadyOnNpm
<1>12. RowsAreLeft(r)'
  BY <1>1, <1>4, <1>5, <1>7, <1>8 DEF RowsAreLeft, Tagged, At
<1>13. QED
  BY <1>1, <1>6, <1>7, <1>9, <1>10, <1>11, <1>12, OneRunMovesAlone DEF RunInv

\* The first row and the rest of the rows.
LEMMA TailFacts ==
  ASSUME NEW X, NEW rows \in Seq(X), rows # <<>>
  PROVE  /\ Tail(rows) \in Seq(X) /\ Head(rows) = rows[1] /\ Head(rows) \in X
         /\ Len(rows) \in Nat /\ Len(rows) >= 1
         /\ \A k \in 1 .. Len(rows) :
              k = 1 \/ (k - 1 \in 1 .. Len(Tail(rows)) /\ Tail(rows)[k - 1] = rows[k])
         /\ \A k \in 1 .. Len(Tail(rows)) :
              k + 1 \in 1 .. Len(rows) /\ Tail(rows)[k] = rows[k + 1]
  OBVIOUS

\* A row is done with when its version has a tag, or when it resumes nothing.
LEMMA RowKeeps ==
  ASSUME ReleaseInv, NEW r \in Runs, run[r].phase \in {"view", "create"},
         run[r].rows # <<>>,
         run' = [run EXCEPT ![r] = [run[r] EXCEPT !.phase = "view", !.rows = Tail(run[r].rows)]],
         UNCHANGED <<npm, staged>>, tags \subseteq tags',
         At(r, Head(run[r].rows)) \in tags' \/ Skipped(r, Head(run[r].rows))
  PROVE  /\ [run[r] EXCEPT !.phase = "view", !.rows = Tail(run[r].rows)] \in RunState
         /\ [run[r] EXCEPT !.phase = "view", !.rows = Tail(run[r].rows)].phase = "view"
         /\ RunInv(r)'
<1> DEFINE rows == run[r].rows
           s == [run[r] EXCEPT !.phase = "view", !.rows = Tail(rows)]
<1>1. /\ run \in [Runs -> RunState] /\ run[r] \in RunState /\ RunInv(r)
      /\ run[r].job = "release" /\ rows \in Seq(Packages)
  BY DEF ReleaseInv, ReleaseTypeOK, RunInv, PhaseFitsJob, RunState
<1>2. run' = [run EXCEPT ![r] = s] /\ run'[r] = s /\ rows # <<>>
  BY <1>1
<1>3. /\ Tail(rows) \in Seq(Packages) /\ Head(rows) = rows[1]
      /\ Len(rows) \in Nat /\ Len(rows) >= 1
      /\ \A k \in 1 .. Len(rows) :
           k = 1 \/ (k - 1 \in 1 .. Len(Tail(rows)) /\ Tail(rows)[k - 1] = rows[k])
      /\ \A k \in 1 .. Len(Tail(rows)) :
           k + 1 \in 1 .. Len(rows) /\ Tail(rows)[k] = rows[k + 1]
  <2>1. rows \in Seq(Packages) /\ rows # <<>>
    BY <1>1, <1>2
  <2> HIDE DEF rows
  <2>2. QED
    BY <2>1, TailFacts
<1>4. s \in RunState
  <2>1. "view" \in Phases
    BY DEF Phases
  <2>2. QED
    BY <1>1, <1>3, <2>1 DEF RunState
<1>5. /\ s.phase = "view" /\ s.job = "release" /\ s.plan = run[r].plan
      /\ s.onNpm = run[r].onNpm /\ s.released = run[r].released
      /\ s.resumable = run[r].resumable /\ s.rows = Tail(rows) /\ s.had = run[r].had
      /\ s.missed = run[r].missed
  BY <1>1 DEF RunState
<1> HIDE DEF s
<1> DEFINE due == run[r].released \cup (run[r].had \ (Ambiguous[r] \cup run[r].missed))
<1>6. /\ \A k \in 1 .. Len(rows) : rows[k] \in run[r].released \cup run[r].resumable
      /\ \A p \in due :
           At(r, p) \in tags \/ \E k \in 1 .. Len(rows) : rows[k] = p
      /\ \A p \in run[r].had : Tagged(p)
  BY <1>1 DEF RunInv, RowsAreLeft
<1>7. \A k \in 1 .. Len(Tail(rows)) : Tail(rows)[k] \in run[r].released \cup run[r].resumable
  BY <1>3, <1>6
<1>8. ASSUME NEW p \in due
      PROVE  At(r, p) \in tags' \/ \E k \in 1 .. Len(Tail(rows)) : Tail(rows)[k] = p
  <2>1. CASE At(r, p) \in tags
    BY <2>1
  <2>2. CASE p = rows[1]
    <3>1. Skipped(r, p) => At(r, p) \in tags
      BY <1>6, <1>8 DEF Skipped
    <3>2. QED
      BY <1>3, <2>2, <3>1
  <2>3. CASE At(r, p) \notin tags /\ p # rows[1]
    <3>1. PICK k \in 1 .. Len(rows) : rows[k] = p
      BY <1>6, <2>3
    <3>2. k - 1 \in 1 .. Len(Tail(rows)) /\ Tail(rows)[k - 1] = p
      BY <1>3, <2>3, <3>1
    <3>3. QED
      BY <3>2
  <2>4. QED
    BY <2>1, <2>2, <2>3
<1>9. PhaseFitsJob(r)'
  BY <1>2, <1>5 DEF PhaseFitsJob
<1>10. PlanIsKept(r)'
  BY <1>1, <1>2, <1>5 DEF RunInv, PlanIsKept, At
<1>11. PassedIsReleased(r)'
  BY <1>1, <1>2, <1>5 DEF RunInv, PassedIsReleased, AlreadyOnNpm
<1>12. RowsAreLeft(r)'
  <2>1. \A p \in run[r].had : Tagged(p)'
    BY <1>6 DEF Tagged
  <2> HIDE DEF rows
  <2>2. \A p \in s.released \cup (s.had \ (Ambiguous[r] \cup s.missed)) :
          At(r, p) \in tags' \/ \E k \in 1 .. Len(s.rows) : s.rows[k] = p
    BY <1>5, <1>8
  <2>3. QED
    BY <1>2, <1>5, <1>7, <2>1, <2>2 DEF RowsAreLeft, Tagged, At
<1>13. QED
  BY <1>4, <1>5, <1>9, <1>10, <1>11, <1>12 DEF RunInv, s

\* Looking at a tag keeps it.
LEMMA ViewKeeps ==
  ASSUME ReleaseInv, NEW r \in Runs, View(r)
  PROVE  ReleaseInv'
<1>1. /\ run[r].phase = "view" /\ UNCHANGED <<npm, staged, uploader, tags, publishing, waiting>>
      /\ run \in [Runs -> RunState] /\ run[r] \in RunState /\ RunInv(r)
      /\ run[r].job = "release"
  BY DEF View, ReleaseInv, ReleaseTypeOK, RunInv, PhaseFitsJob
<1>2. ASSUME NEW phase \in {"done", "create"}, run' = [run EXCEPT ![r].phase = phase],
             phase = "done" <=> run[r].rows = <<>>
      PROVE  ReleaseInv'
  <2> DEFINE s == [run[r] EXCEPT !.phase = phase]
  <2>1. run' = [run EXCEPT ![r] = s] /\ run'[r] = s
    BY <1>1, <1>2
  <2>2. s \in RunState /\ s.phase = phase /\ SameButPhase(s, run[r])
    <3>1. phase \in Phases
      BY DEF Phases
    <3>2. QED
      BY <1>1, <3>1, OtherPhase
  <2> HIDE DEF s
  <2>3. PhaseFitsJob(r)'
    BY <1>1, <2>1, <2>2 DEF RunInv, PhaseFitsJob, SameButPhase
  <2>4. PlanIsKept(r)'
    BY <1>1, <2>1, <2>2 DEF RunInv, PlanIsKept, SameButPhase, At
  <2>5. PassedIsReleased(r)'
    BY <1>1, <2>1, <2>2 DEF RunInv, PassedIsReleased, SameButPhase, AlreadyOnNpm
  <2>6. RowsAreLeft(r)'
    BY <1>1, <1>2, <2>1, <2>2 DEF RunInv, RowsAreLeft, SameButPhase, Tagged, At
  <2>7. QED
    BY <1>1, <2>1, <2>2, <2>3, <2>4, <2>5, <2>6, OneRunMovesAlone DEF RunInv
<1>3. CASE run[r].rows = <<>>
  <2>1. run' = [run EXCEPT ![r].phase = "done"]
    BY <1>3 DEF View
  <2>2. QED
    BY <1>2, <1>3, <2>1
<1>4. CASE run[r].rows # <<>> /\ run' = [run EXCEPT ![r].phase = "create"]
  BY <1>2, <1>4
<1>5. CASE /\ run[r].rows # <<>> /\ run' = [run EXCEPT ![r].rows = Tail(@)]
           /\ At(r, Head(run[r].rows)) \in tags \/ Skipped(r, Head(run[r].rows))
  <2> DEFINE s == [run[r] EXCEPT !.phase = "view", !.rows = Tail(run[r].rows)]
  <2>1. [run[r] EXCEPT !.rows = Tail(@)] = s
    BY <1>1 DEF RunState
  <2>2. run' = [run EXCEPT ![r] = s]
    BY <1>1, <1>5, <2>1
  <2>3. UNCHANGED <<npm, staged>> /\ tags \subseteq tags'
    BY <1>1
  <2>4. s \in RunState /\ s.phase = "view" /\ RunInv(r)'
    BY <1>1, <1>5, <2>2, <2>3, RowKeeps
  <2> HIDE DEF s
  <2>5. QED
    BY <1>1, <2>2, <2>4, OneRunMovesAlone
<1>6. QED
  BY <1>3, <1>4, <1>5 DEF View

\* Creating a tag with its release removes the row.
LEMMA CreateKeeps ==
  ASSUME ReleaseInv, NEW r \in Runs, Create(r)
  PROVE  ReleaseInv'
<1> DEFINE v == At(r, Head(run[r].rows))
<1>1. /\ run[r].phase = "create" /\ UNCHANGED <<npm, staged, uploader, publishing, waiting>>
      /\ run \in [Runs -> RunState] /\ run[r] \in RunState /\ RunInv(r)
      /\ run[r].job = "release" /\ run[r].rows # <<>>
      /\ tags' = tags \cup {v}
      /\ \/ run' = [run EXCEPT ![r].phase = "view", ![r].rows = Tail(@)]
         \/ run' = [run EXCEPT ![r].phase = "failed"]
  BY DEF Create, ReleaseInv, ReleaseTypeOK, RunInv, PhaseFitsJob, RowsAreLeft
<1>2. v \in Given /\ v \in Versions
  <2>1. run[r].rows \in Seq(Packages)
    BY <1>1 DEF RunState
  <2>2. /\ Head(run[r].rows) = run[r].rows[1] /\ Head(run[r].rows) \in Packages
        /\ 1 \in 1 .. Len(run[r].rows)
    BY <1>1, <2>1, TailFacts
  <2>3. Head(run[r].rows) \in run[r].released \cup run[r].resumable
    BY <1>1, <2>2 DEF RunInv, RowsAreLeft
  <2>4. QED
    BY <1>1, <2>2, <2>3, VersionsOfRuns
       DEF RunInv, PlanIsKept, PassedIsReleased, AlreadyOnNpm, Given
<1>3. /\ npm' \in SUBSET Versions /\ npm \subseteq npm' /\ npm' \cap staged = {}
      /\ uploader' \in [Versions -> Runs \cup {None}]
      /\ tags' \in SUBSET Versions /\ tags \subseteq tags' /\ Given' = Given
  BY <1>1, <1>2 DEF ReleaseInv, ReleaseTypeOK, Given
<1>4. DependenciesFirst' /\ TaggedIsGiven'
  BY <1>1, <1>2, <1>3, GivenFacts DEF ReleaseInv
<1>5. v \in tags'
  BY <1>1
<1> HIDE DEF v
<1>6. CASE run' = [run EXCEPT ![r].phase = "view", ![r].rows = Tail(@)]
  <2> DEFINE s == [run[r] EXCEPT !.phase = "view", !.rows = Tail(run[r].rows)]
  <2>1. run' = [run EXCEPT ![r] = s]
    BY <1>1, <1>6
  <2>2. s \in RunState /\ s.phase = "view" /\ RunInv(r)'
    <3>1. UNCHANGED <<npm, staged>> /\ At(r, Head(run[r].rows)) \in tags'
      BY <1>1, <1>5 DEF v
    <3>2. QED
      BY <1>1, <1>3, <2>1, <3>1, RowKeeps
  <2> HIDE DEF s
  <2>3. QED
    BY <1>1, <1>3, <1>4, <2>1, <2>2, OneRunMoves
<1>7. CASE run' = [run EXCEPT ![r].phase = "failed"]
  <2> DEFINE s == [run[r] EXCEPT !.phase = "failed"]
  <2>1. run' = [run EXCEPT ![r] = s] /\ run'[r] = s
    BY <1>1, <1>7
  <2>2. s \in RunState /\ s.phase = "failed" /\ SameButPhase(s, run[r])
    <3>1. "failed" \in Phases
      BY DEF Phases
    <3>2. QED
      BY <1>1, <3>1, OtherPhase
  <2> HIDE DEF s
  <2>3. RunInv(r)'
    <3>1. SameButPhase(run'[r], run[r]) /\ Waits(run'[r].phase, run[r].job)
      BY <2>1, <2>2 DEF Waits
    <3>2. QED
      BY <1>1, <1>3, <3>1, RunIsKept
  <2>4. QED
    BY <1>1, <1>3, <1>4, <2>1, <2>2, <2>3, OneRunMoves
<1>8. QED
  BY <1>1, <1>6, <1>7

\* Staging or approving a version takes nothing from npm.
LEMMA OwnersKeep ==
  ASSUME ReleaseInv, NEW v \in Versions, OwnerStages(v) \/ OwnerApproves(v)
  PROVE  ReleaseInv'
<1>1. /\ UNCHANGED <<uploader, tags, publishing, waiting, run>> /\ npm \subseteq npm'
      /\ Given \subseteq Given'
  BY DEF OwnerStages, OwnerApproves, Given
<1>2. /\ npm' \in SUBSET Versions /\ staged' \in SUBSET Versions /\ npm' \cap staged' = {}
  BY DEF OwnerStages, OwnerApproves, ReleaseInv, ReleaseTypeOK
<1>3. ReleaseTypeOK'
  BY <1>1, <1>2 DEF ReleaseInv, ReleaseTypeOK
<1>4. DependenciesFirst' /\ TaggedIsGiven'
  BY <1>1, GivenFacts DEF ReleaseInv
<1>5. ASSUME NEW r \in Runs PROVE RunInv(r)'
  BY <1>1, RunIsKept DEF ReleaseInv, RunInv, SameButPhase
<1>6. QED
  BY <1>3, <1>4, <1>5 DEF ReleaseInv, RunInv

-----------------------------------------------------------------------------
(* Theorems.                                                               *)

\* The invariant is inductive: whatever order the runs take their steps in,
\* fail and are run again.
THEOREM ReleaseInvariant == Spec => []ReleaseInv
<1>1. ASSUME ReleaseInv, [Next]_vars PROVE ReleaseInv'
  <2>1. CASE \E r \in Runs : Step(r)
    <3>1. PICK r \in Runs : Step(r)
      BY <2>1
    <3>2. QED
      BY <1>1, <3>1, PackKeeps, StartPublishKeeps, CheckKeeps, NextPackageKeeps, UploadKeeps,
         PublishEndsKeeps, StartReleaseKeeps, ViewKeeps, CreateKeeps DEF Step
  <2>2. CASE \E r \in Runs : Fail(r) \/ Rerun(r)
    BY <1>1, <2>2, FailKeeps, RerunKeeps
  <2>3. CASE \E v \in Versions : OwnerStages(v) \/ OwnerApproves(v)
    BY <1>1, <2>3, OwnersKeep
  <2>4. CASE UNCHANGED vars
    BY <1>1, <2>4 DEF vars, ReleaseInv, ReleaseTypeOK, DependenciesFirst, TaggedIsGiven,
       AlreadyOnNpm, PhaseFitsJob, PlanIsKept, PassedIsReleased, RowsAreLeft, Tagged, At
  <2>5. QED
    BY <1>1, <2>1, <2>2, <2>3, <2>4 DEF Next
<1>2. QED
  BY <1>1, InitReleaseInv, PTL DEF Spec

\* Each variable has its type, and one publish job at most has the concurrency
\* group and one is pending in it.
THEOREM ReleaseIsTyped == Spec => []ReleaseTypeOK
<1>1. ReleaseInv => ReleaseTypeOK
  BY DEF ReleaseInv
<1>2. QED
  BY <1>1, ReleaseInvariant, PTL

\* orderPackages and the publish job together: npm was given the versions that a
\* version a run uploads depends on; what an owner only staged stands in for one.
THEOREM DependenciesComeFirst == Spec => []DependenciesFirst
<1>1. ReleaseInv => DependenciesFirst
  BY DEF ReleaseInv
<1>2. QED
  BY <1>1, ReleaseInvariant, PTL

\* Tags name only what npm was given, published or staged, and a run that ends
\* well has tagged its plan.
THEOREM TagsStayRight == Spec => []TagsAreRight
<1>1. ReleaseInv => TagsAreRight
  <2>1. SUFFICES ASSUME ReleaseInv, NEW r \in Runs, run[r].phase = "done",
                        NEW k \in 1 .. Len(run[r].plan)
                 PROVE  At(r, run[r].plan[k]) \in tags
    BY DEF ReleaseInv, TagsAreRight, DoneIsTagged
  <2>2. RunInv(r) /\ run[r].job \in Jobs /\ Len(<<>>) = 0 /\ 1 .. 0 = {}
    BY <2>1 DEF ReleaseInv, RunInv, ReleaseTypeOK, RunState
  <2>3. run[r].job = "release"
    BY <2>1, <2>2 DEF RunInv, PhaseFitsJob, PlanIsKept, Jobs
  <2>4. run[r].plan[k] \in run[r].released /\ run[r].rows = <<>>
    BY <2>1, <2>2, <2>3 DEF RunInv, PassedIsReleased, RowsAreLeft
  <2>5. QED
    BY <2>1, <2>2, <2>3, <2>4 DEF RunInv, RowsAreLeft
<1>2. QED
  BY <1>1, ReleaseInvariant, PTL

\* A run that ends well has tagged, at its commit, every package that had a tag
\* when its release job began, unless its name is ambiguous at the commit or the
\* publish job missed its version on npm: what an interrupted run left is resumed.
THEOREM InterruptedReleasesResume == Spec => []InterruptedIsResumed
<1>1. ReleaseInv => InterruptedIsResumed
  <2>1. SUFFICES ASSUME ReleaseInv, NEW r \in Runs, run[r].phase = "done",
                        NEW p \in run[r].had \ (Ambiguous[r] \cup run[r].missed)
                 PROVE  At(r, p) \in tags
    BY DEF InterruptedIsResumed
  <2>2. RunInv(r) /\ Len(<<>>) = 0 /\ 1 .. 0 = {}
    BY <2>1 DEF ReleaseInv, RunInv
  <2>3. run[r].job = "release" /\ run[r].rows = <<>>
    BY <2>1, <2>2 DEF RunInv, PhaseFitsJob, RowsAreLeft
  <2>4. QED
    BY <2>1, <2>2, <2>3 DEF RunInv, RowsAreLeft
<1>2. QED
  BY <1>1, ReleaseInvariant, PTL
=============================================================================
