---------------------------- MODULE CargoPublish ----------------------------
(***************************************************************************)
(* Runs of the cargo-publish action (action.yml and publish.cjs of         *)
(* actions/cargo-publish) against crates.io.                               *)
(*                                                                         *)
(* A run plans, obtains a trusted-publishing token, records when, and      *)
(* uploads its plan one crate at a time.  Reruns and concurrent runs of    *)
(* the same release share the registry.  Times are ticks of one clock; a   *)
(* sleep may overrun by up to Overrun ticks.                               *)
(***************************************************************************)
EXTENDS PublishOrder

CONSTANTS
  Crates,     \* names of the selected crates
  Workspaces, \* their possible dependencies: records of hard and soft edges
  Jobs,       \* runs of the action
  Nobody,     \* no job: a release published by hand
  Budget,     \* TOKEN_BUDGET_MS
  Lifetime,   \* TOKEN_LIFETIME_MS
  Delay,      \* delay-seconds
  Retries,    \* rate-limit-retries
  Waits,      \* the waits that a 429 may ask for
  Lag,        \* bound: from minting the token to recording the time
  Overrun,    \* bound: how much later than asked a sleep ends
  MaxMint,    \* bound: the last tick at which a token is minted
  MaxTime     \* bound: the last tick of the clock

ASSUME PublishConstants ==
  /\ Crates \subseteq Nat \ {0}
  /\ IsFiniteSet(Crates)
  /\ Workspaces \subseteq [hard : [Crates -> SUBSET Crates],
                           soft : [Crates -> SUBSET Crates]]
  /\ \A w \in Workspaces, n \in Crates : n \notin w.hard[n] \cup w.soft[n]
  /\ Nobody \notin Jobs
  /\ {Budget, Lifetime, Delay, Retries, Lag, Overrun, MaxMint, MaxTime} \subseteq Nat
  /\ MaxTime >= 1 /\ Waits \subseteq Nat \ {0}
  /\ Lag + Overrun < Lifetime - Budget

VARIABLES
  now,       \* Date.now()
  ws,        \* the workspace at the released commit
  known,     \* crates with any version on crates.io
  registry,  \* crates whose planned version is on crates.io
  uploader,  \* who put it there
  job        \* the state of every run

vars == <<now, ws, known, registry, uploader, job>>

Phases == {"new", "planned", "minted", "next", "delaying", "uploading",
           "answered", "backoff", "done", "failed"}
\* What crates.io answers, or how cargo ends before it asks.
Answers == {"accepted", "already", "limited", "missing", "uncreatable",
            "denied", "broken"}

JobState ==
  [phase : Phases, plan : Seq(Crates), index : SUBSET Crates, skip : BOOLEAN,
   i : Nat, attempt : Nat, wake : Nat, mintedAt : Nat, issuedAt : Nat,
   startedAt : Nat, answer : Answers \cup {"none"}, published : SUBSET Crates]

PublishTypeOK ==
  /\ now \in 1 .. MaxTime
  /\ ws \in Workspaces
  /\ known \in SUBSET Crates
  /\ registry \in SUBSET known
  /\ uploader \in [Crates -> Jobs \cup {Nobody}]
  /\ job \in [Jobs -> JobState]

-----------------------------------------------------------------------------
(* The workspace and the registry.                                         *)

\* The workspace together with what an index lookup showed.
Planning(index) == [hard |-> ws.hard, soft |-> ws.soft, onRegistry |-> index]

Upload(j) == job[j].plan[job[j].i]

\* Mutant: any version of a crate counts as the planned one.
SkippedAnyVersion(j, index) == IF job[j].skip THEN known ELSE {}
\* The crates that skip-published leaves out.
Skipped(j, index) == IF job[j].skip THEN index ELSE {}

\* Mutant: the planned wait is not counted.
OutOfTimeNow(j, wait) == now > job[j].issuedAt + Budget
\* outOfTime: a step that takes wait would end after the token's budget.
OutOfTime(j, wait) == now + wait > job[j].issuedAt + Budget

TokenValid(j) == now < job[j].mintedAt + Lifetime

\* A run that does not work has nothing but its input and its outputs.
Idle(skip, phase, published) ==
  [phase |-> phase, plan |-> <<>>, index |-> {}, skip |-> skip, i |-> 1,
   attempt |-> 1, wake |-> 0, mintedAt |-> 0, issuedAt |-> 0, startedAt |-> 0,
   answer |-> "none", published |-> published]

End(j, phase) == job' = [job EXCEPT ![j] = Idle(@.skip, phase, @.published)]
Fail(j) == End(j, "failed")

Init ==
  /\ now = 1
  /\ ws \in Workspaces
  /\ known \in SUBSET Crates
  /\ registry \in SUBSET known
  /\ uploader = [c \in Crates |-> Nobody]
  /\ \E skips \in [Jobs -> BOOLEAN] :
       job = [j \in Jobs |-> Idle(skips[j], "new", {})]

-----------------------------------------------------------------------------
(* The plan step.                                                          *)

\* Mutant: a new crate does not stop the plan.
RefusedOnlyCycle(ordered, toPublish) == ordered = Failed
\* Planning throws: only hard edges form a cycle, or trusted publishing would
\* have to create a crate.
Refused(ordered, toPublish) ==
  \/ ordered = Failed
  \/ \E k \in 1 .. Len(toPublish) : toPublish[k] \notin known

\* plan(): every crate is looked up once, in an index that may lag behind
\* the registry.
Plan(j) ==
  /\ job[j].phase = "new"
  /\ \E index \in SUBSET registry :
       LET ordered == PlanOf(Planning(index), Crates)
           toPublish == Kept(ordered, Crates \ Skipped(j, index))
       IN  IF Refused(ordered, toPublish)
             THEN Fail(j)
             ELSE job' = [job EXCEPT ![j].phase = "planned",
                                     ![j].index = index,
                                     ![j].plan = toPublish]
  /\ UNCHANGED <<now, ws, known, registry, uploader>>

\* A lookup fails five times, or the authentication step does.
StepFails(j) ==
  /\ job[j].phase \in {"new", "planned"}
  /\ Fail(j)
  /\ UNCHANGED <<now, ws, known, registry, uploader>>

\* With an empty plan there is no token, and publish() returns at once.
NothingToPublish(j) ==
  /\ job[j].phase = "planned" /\ job[j].plan = <<>>
  /\ End(j, "done")
  /\ UNCHANGED <<now, ws, known, registry, uploader>>

Authenticate(j) ==
  /\ job[j].phase = "planned" /\ job[j].plan # <<>>
  /\ now <= MaxMint
  /\ job' = [job EXCEPT ![j].phase = "minted", ![j].mintedAt = now]
  /\ UNCHANGED <<now, ws, known, registry, uploader>>

RecordIssueTime(j) ==
  /\ job[j].phase = "minted"
  /\ job' = [job EXCEPT ![j].phase = "next", ![j].issuedAt = now]
  /\ UNCHANGED <<now, ws, known, registry, uploader>>

-----------------------------------------------------------------------------
(* The publish step.                                                       *)

StartUpload(j) ==
  job' = [job EXCEPT ![j].phase = "uploading", ![j].startedAt = now,
                     ![j].wake = 0]

\* A sleep that ends within the token's budget; no attempt is under way.
Sleep(j, phase, wait) ==
  /\ ~OutOfTime(j, wait)
  /\ job' = [job EXCEPT ![j].phase = phase, ![j].wake = now + wait,
                        ![j].answer = "none", ![j].startedAt = 0]

\* The head of the loop over the plan.
NextCrate(j) ==
  /\ job[j].phase = "next"
  /\ CASE job[j].i > Len(job[j].plan) ->
            End(j, "done")
       [] job[j].i > 1 /\ Delay > 0 /\ job[j].i <= Len(job[j].plan) ->
            (OutOfTime(j, Delay) /\ Fail(j)) \/ Sleep(j, "delaying", Delay)
       [] OTHER -> IF OutOfTime(j, 0) THEN Fail(j) ELSE StartUpload(j)
  /\ UNCHANGED <<now, ws, known, registry, uploader>>

DelayEnds(j) ==
  /\ job[j].phase = "delaying" /\ now >= job[j].wake
  /\ IF OutOfTime(j, 0) THEN Fail(j) ELSE StartUpload(j)
  /\ UNCHANGED <<now, ws, known, registry, uploader>>

\* The next attempt after a rate limit.
BackoffEnds(j) ==
  /\ job[j].phase = "backoff" /\ now >= job[j].wake
  /\ job' = [job EXCEPT ![j].phase = "uploading", ![j].startedAt = now,
                        ![j].attempt = @ + 1, ![j].wake = 0]
  /\ UNCHANGED <<now, ws, known, registry, uploader>>

\* What crates.io may answer to the upload.
RegistryAnswers(j) ==
  LET c == Upload(j)
      needs == (ws.hard[c] \cup ws.soft[c]) \ registry
  IN  CASE c \in registry -> {"already", "broken"}
        [] c \notin registry /\ ~TokenValid(j) -> {"denied", "broken"}
        [] c \notin registry /\ TokenValid(j) /\ c \notin known ->
             {"uncreatable", "limited", "broken"}
        [] OTHER -> {IF needs = {} THEN "accepted" ELSE "missing",
                     "limited", "broken"}

\* cargo builds for a while, then uploads, or breaks off before it.
Answer(j) ==
  /\ job[j].phase = "uploading"
  /\ \E answer \in RegistryAnswers(j) :
       /\ job' = [job EXCEPT ![j].phase = "answered", ![j].answer = answer]
       /\ IF answer = "accepted"
            THEN /\ registry' = registry \cup {Upload(j)}
                 /\ uploader' = [uploader EXCEPT ![Upload(j)] = j]
            ELSE UNCHANGED <<registry, uploader>>
  /\ UNCHANGED <<now, ws, known>>

\* The answer to an upload never reaches cargo, which then reports an error.
AnswerLost(j) ==
  /\ job[j].phase = "answered"
  /\ job[j].answer \in {"accepted", "already"}
  /\ job' = [job EXCEPT ![j].answer = "broken"]
  /\ UNCHANGED <<now, ws, known, registry, uploader>>

\* Mutant: an upload that was already there is claimed as this run's.
ClaimedWithAlready(answer) == answer \in {"accepted", "already"}
\* Uploads this run reports as its own.
Claimed(answer) == answer = "accepted"

\* The loop goes on with the next crate.
Continues(answer) == answer \in {"accepted", "already"}

\* cargo exits and publish() classifies how.
Classify(j) ==
  /\ job[j].phase = "answered"
  /\ LET answer == job[j].answer
     IN \/ /\ Continues(answer)
           /\ job' = [job EXCEPT ![j].phase = "next", ![j].i = @ + 1,
                                 ![j].attempt = 1, ![j].answer = "none",
                                 ![j].startedAt = 0,
                                 ![j].published =
                                    IF Claimed(answer) THEN @ \cup {Upload(j)} ELSE @]
        \/ /\ ~Continues(answer)
           /\ answer # "limited" \/ job[j].attempt > Retries \/ ~TokenValid(j)
           /\ Fail(j)
        \/ /\ ~Continues(answer) /\ answer = "limited"
           /\ job[j].attempt <= Retries
           /\ \E wait \in Waits :
                (OutOfTime(j, wait) /\ Fail(j)) \/ Sleep(j, "backoff", wait)
  /\ UNCHANGED <<now, ws, known, registry, uploader>>

-----------------------------------------------------------------------------
(* The world around the runs.                                              *)

\* A version is published by hand, the first one of a new crate included.
PublishByHand(c) ==
  /\ c \notin registry
  /\ ws.hard[c] \cup ws.soft[c] \subseteq registry
  /\ known' = known \cup {c}
  /\ registry' = registry \cup {c}
  /\ UNCHANGED <<now, ws, uploader, job>>

\* A job is cancelled or its runner is lost.
Cancel(j) ==
  /\ job[j].phase \notin {"new", "done", "failed"}
  /\ Fail(j)
  /\ UNCHANGED <<now, ws, known, registry, uploader>>

\* Recording the time and waking up take bounded time.
OnTime(j) ==
  /\ job[j].phase = "minted" => now < job[j].mintedAt + Lag
  /\ job[j].phase \in {"delaying", "backoff"} => now < job[j].wake + Overrun

Tick ==
  /\ now < MaxTime
  /\ \A j \in Jobs : OnTime(j)
  /\ now' = now + 1
  /\ UNCHANGED <<ws, known, registry, uploader, job>>

Step(j) ==
  \/ Plan(j) \/ NothingToPublish(j) \/ Authenticate(j) \/ RecordIssueTime(j)
  \/ NextCrate(j) \/ DelayEnds(j) \/ BackoffEnds(j) \/ Answer(j) \/ Classify(j)

Next ==
  \/ \E j \in Jobs : Step(j) \/ StepFails(j) \/ AnswerLost(j) \/ Cancel(j)
  \/ \E c \in Crates : PublishByHand(c)
  \/ Tick

Spec == Init /\ [][Next]_vars

-----------------------------------------------------------------------------
(* Properties.                                                             *)

\* The comment on TOKEN_BUDGET_MS: the budget leaves enough of the token's
\* life that no attempt, a retry after a late wake-up included, starts with
\* an expired token (0 stands for no attempt under way).
StartsWithLiveToken ==
  \A j \in Jobs :
    job[j].startedAt # 0 => job[j].startedAt < job[j].mintedAt + Lifetime

\* Planning orders uploads so that crates.io never rejects one for a missing
\* dependency, however stale the index was and whoever else uploads, unless
\* the dependencies of what is left form a cycle.
NeverRejected ==
  \A j \in Jobs :
    job[j].answer = "missing" =>
      ~Acyclic([c \in Crates |-> Needed(Planning(job[j].index), c)], Crates)

\* plan() refuses a new crate before anything is uploaded: no run stops at
\* one halfway.
NeverStopsAtNewCrate == \A j \in Jobs : job[j].answer # "uncreatable"

\* The published output lists what this run uploaded and nothing else, with
\* other runs uploading the same plan; a run that succeeds lists all of it.
ClaimsAreOwn ==
  \A j \in Jobs :
    LET own == {c \in Crates : uploader[c] = j}
    IN  /\ job[j].published \subseteq own
        /\ job[j].phase = "done" => own \subseteq job[j].published

\* The outcomes of every run are of their types, and its claims its own.
OutcomesAreOwn == PublishTypeOK /\ ClaimsAreOwn

\* A run that succeeds leaves every selected crate on crates.io at the
\* planned version, whatever it skipped and whoever uploaded it.
SuccessIsComplete ==
  \A j \in Jobs : job[j].phase = "done" => registry = Crates

-----------------------------------------------------------------------------
(* The inductive invariant.                                                *)

\* The crate at hand is one of the plan, and an answer is there only until it
\* is classified.
AtHandIsPlanned(j) ==
  /\ job[j].i >= 1 /\ (job[j].phase = "new" => job[j].i = 1)
  /\ job[j].phase \in {"delaying", "uploading", "answered", "backoff"} =>
       job[j].i <= Len(job[j].plan)
  /\ job[j].answer # "none" <=> job[j].phase = "answered"

\* How late a run can be: what the recorded time and every wake-up lag behind.
TimesAreKept(j) ==
  /\ job[j].phase = "minted" => now <= job[j].mintedAt + Lag
  /\ job[j].phase \in {"next", "delaying", "uploading", "answered", "backoff"} =>
       job[j].issuedAt <= job[j].mintedAt + Lag
  /\ job[j].phase \in {"delaying", "backoff"} =>
       /\ job[j].wake <= job[j].issuedAt + Budget
       /\ now <= job[j].wake + Overrun
  /\ job[j].startedAt # 0 =>
       /\ job[j].phase \in {"uploading", "answered"}
       /\ job[j].startedAt < job[j].mintedAt + Lifetime

\* A run that has planned knows every crate: it was on crates.io already or is
\* in the plan, behind all that it needs; what was passed in the plan is there.
PlanIsKept(j) ==
  job[j].phase \notin {"new", "done", "failed"} =>
    LET plan == job[j].plan
        index == job[j].index
    IN  /\ index \subseteq registry
        /\ \A c \in Crates : c \in index \/ \E k \in 1 .. Len(plan) : plan[k] = c
        /\ \A k \in 1 .. Len(plan) :
             plan[k] \in known /\ (k < job[j].i => plan[k] \in registry)
        /\ Acyclic([c \in Crates |-> Needed(Planning(index), c)], Crates) =>
             \A k, l \in 1 .. Len(plan) :
               plan[l] \in Needed(Planning(index), plan[k]) => l < k

\* What the answer at hand says of the crate at hand.
AnswerIsTrue(j) ==
  /\ job[j].answer \in {"accepted", "already"} => Upload(j) \in registry
  /\ job[j].answer # "uncreatable"
  /\ job[j].answer = "missing" =>
       ~Acyclic([c \in Crates |-> Needed(Planning(job[j].index), c)], Crates)
  /\ job[j].phase = "done" => registry = Crates

\* A run has claimed what it uploaded, but for an upload whose answer is at
\* hand or never came.
ClaimsFollowUploads(j) ==
  LET own == {c \in Crates : uploader[c] = j}
  IN  /\ job[j].published \subseteq own
      /\ job[j].phase # "failed" /\ job[j].answer # "broken" =>
           own = job[j].published \cup
                   IF job[j].answer = "accepted" THEN {Upload(j)} ELSE {}

PublishInv ==
  /\ PublishTypeOK
  /\ \A c \in Crates : uploader[c] # Nobody => c \in registry
  /\ \A j \in Jobs :
       /\ AtHandIsPlanned(j) /\ TimesAreKept(j) /\ PlanIsKept(j)
       /\ AnswerIsTrue(j) /\ ClaimsFollowUploads(j)
=============================================================================
