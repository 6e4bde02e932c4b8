---------------------------- MODULE Actions_proofs ----------------------------
(***************************************************************************)
(* Proofs about the actions of module Actions, for any constants: of each  *)
(* action an inductive invariant of its own steps, then the theorems about *)
(* a job that runs any one of them.                                        *)
(***************************************************************************)
EXTENDS Actions, FiniteSetTheorems, WellFoundedInduction, TLAPS

-----------------------------------------------------------------------------
(* A step of the job is a step of one action, and leaves the others alone. *)

ActionsNext == ActionsWork \/ ActionsWorld

\* A step of a job is a step of one action; it leaves the state of the others
\* alone.
LEMMA OneActionSteps ==
  ASSUME [ActionsNext]_jobVars
  PROVE  /\ [StsNext]_stsVars /\ [BrokerNext]_brokerVars /\ [SyncNext]_syncVars
         /\ [AuditNext]_auditVars /\ [EnsureNext]_ensureVars /\ [CiNext]_ciVars
         /\ [OidcNext]_oidcVars /\ [CreateNext]_createVars /\ [UpdateNext]_updateVars
<1>1. CASE UNCHANGED jobVars
  BY <1>1 DEF jobVars
<1>2. CASE ActionsWork
  <2>1. [StsNext]_stsVars /\ [EnsureNext]_ensureVars /\ [CiNext]_ciVars
    BY <1>2 DEF ActionsWork, Others, StsNext
  <2>2. [BrokerNext]_brokerVars /\ [SyncNext]_syncVars /\ [AuditNext]_auditVars
    BY <1>2 DEF ActionsWork, Others, BrokerNext, SyncNext, AuditNext
  <2>3. [OidcNext]_oidcVars /\ [CreateNext]_createVars
    BY <1>2 DEF ActionsWork, Others
  <2>4. [UpdateNext]_updateVars
    BY <1>2 DEF ActionsWork, Others, UpdateNext
  <2>5. QED
    BY <2>1, <2>2, <2>3, <2>4
<1>3. CASE ActionsWorld
  <2>1. [StsNext]_stsVars /\ [EnsureNext]_ensureVars /\ [CiNext]_ciVars
    BY <1>3 DEF ActionsWorld, Others, StsNext
  <2>2. [BrokerNext]_brokerVars /\ [SyncNext]_syncVars /\ [AuditNext]_auditVars
    BY <1>3 DEF ActionsWorld, Others, BrokerNext, SyncNext, AuditNext
  <2>3. [OidcNext]_oidcVars /\ [CreateNext]_createVars
    BY <1>3 DEF ActionsWorld, Others
  <2>4. [UpdateNext]_updateVars
    BY <1>3 DEF ActionsWorld, Others, UpdateNext
  <2>5. QED
    BY <2>1, <2>2, <2>3, <2>4
<1>4. QED
  BY <1>1, <1>2, <1>3 DEF ActionsNext

\* A job starts with every action at its start.
LEMMA ActionsStart ==
  ASSUME ActionsInit
  PROVE  /\ StsInit /\ BrokerInit /\ SyncInit /\ AuditInit /\ EnsureInit /\ CiInit
         /\ OidcInit /\ CreateInit /\ UpdateInit
<1>1. StsInit /\ BrokerInit
  BY DEF ActionsInit, StsIdle, BrokerIdle, BrokerInit
<1>2. SyncInit /\ AuditInit /\ EnsureInit /\ CiInit
  BY DEF ActionsInit, SyncIdle, AuditIdle, EnsureIdle, CiIdle
<1>3. OidcInit /\ CreateInit /\ UpdateInit
  BY DEF ActionsInit, UpdateIdle
<1>4. QED
  BY <1>1, <1>2, <1>3

-----------------------------------------------------------------------------
(* dependency-update: pushes under a lease.                                *)

\* The invariant of dependency-update holds at the start.
LEMMA InitUpdateInv == UpdateInit => UpdateInv
  BY DEF UpdateInit, UpdateInv, LeaseIsExact, SeenIsHeld, PushesAreKept, NoBranch

\* Every call of the coordinator keeps it: a push checks the lease that it
\* shows.
LEMMA CoordinatorKeeps ==
  ASSUME UpdateInv, Coordinator
  PROVE  UpdateInv'
<1> USE DEF UpdateInv, LeaseIsExact, SeenIsHeld, PushesAreKept, Proceed, Raise,
            theBranch, coordinator
<1>1. CASE StartUpdate
  BY <1>1 DEF StartUpdate, NoBranch
<1>2. CASE ListPulls
  BY <1>2 DEF ListPulls
<1>3. CASE LookAtBranch
  BY <1>3 DEF LookAtBranch, Continues
<1>4. CASE FetchBranch
  BY <1>4 DEF FetchBranch
<1>5. CASE PrepareUpdate
  BY <1>5 DEF PrepareUpdate
<1>6. CASE CheckHead
  BY <1>6 DEF CheckHead
<1>7. CASE PushUpdate
  <2>1. CASE UNCHANGED <<updateBranch, lost, mine, expected, heads>>
    BY <1>7, <2>1 DEF PushUpdate
  <2>2. CASE LeaseHolds /\ ~UNCHANGED <<updateBranch, lost, mine, expected, heads>>
    <3> DEFINE pushed == mine \cup {heads + 1}
    <3>1. /\ doing = "push" /\ UNCHANGED listed /\ doing' \in {"pull", "failed"}
          /\ updateBranch' = [head |-> heads + 1, holds |-> pushed]
          /\ lost' = lost \cup Dropped(pushed)
          /\ mine' = pushed /\ expected' = updateBranch' /\ heads' = heads + 1
      BY <1>7, <2>2 DEF PushUpdate
    <3>2. expected.holds = updateBranch.holds
      BY <2>2 DEF LeaseHolds
    <3>3. Dropped(pushed) = {}
      <4>1. CASE listed.state = "closed"
        BY <3>2, <4>1 DEF Dropped
      <4>2. CASE listed.state # "closed"
        BY <3>1, <3>2, <4>2 DEF Dropped
      <4>3. QED
        BY <4>1, <4>2
    <3> HIDE DEF pushed
    <3>4. /\ updateBranch'.head = heads + 1 /\ updateBranch'.holds = pushed
          /\ expected'.head = heads + 1 /\ expected'.holds = pushed
      BY <3>1
    <3>5. QED
      BY <3>1, <3>3, <3>4
  <2>3. QED
    BY <1>7, <2>1, <2>2 DEF PushUpdate
<1>8. CASE PullRequest
  BY <1>8 DEF PullRequest
<1>9. CASE Poll
  BY <1>9 DEF Poll
<1>10. QED
  BY <1>1, <1>2, <1>3, <1>4, <1>5, <1>6, <1>7, <1>8, <1>9 DEF Coordinator

\* So does whatever maintainers do to the branch between two calls.
LEMMA MaintainersKeep ==
  ASSUME UpdateInv, UpdateWorld
  PROVE  UpdateInv'
<1> USE DEF UpdateInv, LeaseIsExact, SeenIsHeld, PushesAreKept, coordinator
<1>1. CASE MaintainerPush
  <2>1. /\ heads' = heads + 1 /\ UNCHANGED <<expected, doing, listed, mine, lost>>
        /\ updateBranch'.head = heads + 1
    BY <1>1 DEF MaintainerPush
  <2>2. QED
    BY <2>1
<1>2. CASE MaintainerMove
  <2>1. UNCHANGED <<heads, doing, listed, expected, mine, lost>>
    BY <1>2 DEF MaintainerMove
  <2>2. updateBranch' = updateBranch \/ updateBranch' = NoBranch
    BY <1>2 DEF MaintainerMove
  <2>3. CASE updateBranch' = updateBranch
    BY <2>1, <2>3
  <2>4. CASE updateBranch' = NoBranch
    <3>1. updateBranch'.head = 0 /\ updateBranch'.holds = {}
      BY <2>4 DEF NoBranch
    <3>2. QED
      BY <2>1, <3>1
  <2>5. QED
    BY <2>2, <2>3, <2>4
<1>3. CASE StopUpdate
  BY <1>3 DEF StopUpdate, Raise, theBranch
<1>4. QED
  BY <1>1, <1>2, <1>3 DEF UpdateWorld

\* Every step of dependency-update keeps its invariant.
LEMMA UpdateStepKeeps ==
  ASSUME UpdateInv, [UpdateNext]_updateVars
  PROVE  UpdateInv'
<1>1. CASE UNCHANGED updateVars
  BY <1>1 DEF updateVars, theBranch, coordinator, UpdateInv, LeaseIsExact, SeenIsHeld,
     PushesAreKept
<1>2. QED
  BY <1>1, CoordinatorKeeps, MaintainersKeep DEF UpdateNext

-----------------------------------------------------------------------------
(* create-pull-request: what a run knows while nobody disturbs it.         *)

\* The invariant of create-pull-request holds at the start.
LEMMA InitCreateInv == CreateInit => CreateInv
  BY DEF CreateInit, CreateInv, RunIsInStep, EmptiedUnseen

\* What a step of run r leaves of the others.
OnlyRun(r) ==
  \A q \in Runs \ {r} :
    /\ task'[q] = task[q] /\ wants'[q] = wants[q]
    /\ made'[q] = made[q] /\ sawPr'[q] = sawPr[q]

\* Another run is disturbed, and goes on knowing what it knows anyway.
LEMMA OthersAreDisturbed ==
  ASSUME CreateInv, NEW r \in Runs, Disturb(r), OnlyRun(r)
  PROVE  \A q \in Runs \ {r} : RunIsInStep(q)'
<1> SUFFICES ASSUME NEW q \in Runs \ {r} PROVE RunIsInStep(q)'
  OBVIOUS
<1>1. RunIsInStep(q) /\ alone'[q] = FALSE
  BY DEF CreateInv, Disturb
<1>2. /\ task'[q] = task[q] /\ wants'[q] = wants[q]
      /\ made'[q] = made[q] /\ sawPr'[q] = sawPr[q]
  BY DEF OnlyRun
<1>3. QED
  BY <1>1, <1>2 DEF RunIsInStep

\* No commit of a run is the base commit, since its tree is another.
LEMMA CommitIsNew ==
  ASSUME NEW r, NEW tree \in Wanted
  PROVE  CommitOf(r, tree) # BaseSha /\ TreeOf(CommitOf(r, tree)) = tree
  BY CreateConstants DEF CommitOf, BaseSha, TreeOf

\* Who has closed a pull request stays past its look at them.
LEMMA ClosersStay ==
  ASSUME CreateInv, NEW r \in Runs, OnlyRun(r), UNCHANGED closers,
         task[r] \in Before \/ (sawPr'[r] = sawPr[r] /\ task'[r] \notin Before)
  PROVE  EmptiedUnseen'
<1> SUFFICES ASSUME NEW c \in closers
             PROVE  c[1] \in Runs /\ sawPr'[c[1]] = 0 /\ task'[c[1]] \notin Before
  BY DEF EmptiedUnseen
<1>1. c[1] \in Runs /\ sawPr[c[1]] = 0 /\ task[c[1]] \notin Before
  BY DEF CreateInv, EmptiedUnseen
<1>2. CASE c[1] = r
  BY <1>1, <1>2
<1>3. CASE c[1] # r
  BY <1>1, <1>3 DEF OnlyRun
<1>4. QED
  BY <1>2, <1>3

Places == {"idle", "branch", "list", "compare", "reset", "commit", "move", "pr",
           "done", "failed"}

\* What is left to show of a step of run r.
LEMMA RunKeeps ==
  ASSUME CreateInv, NEW r \in Runs, Disturb(r), OnlyRun(r), NEW place \in Places,
         Goto(r, place), prs' \in Nat, openPr' \in Nat,
         DOMAIN wants' = Runs, DOMAIN sawBranch' = Runs, DOMAIN sawPr' = Runs,
         DOMAIN made' = Runs, RunIsInStep(r)', EmptiedUnseen'
  PROVE  CreateInv'
<1>1. \A q \in Runs : RunIsInStep(q)'
  BY OthersAreDisturbed
<1>2. task' \in [Runs -> Places]
  BY DEF CreateInv, Places, Goto
<1>3. alone' \in [Runs -> BOOLEAN]
  BY DEF Disturb
<1>4. QED
  BY <1>1, <1>2, <1>3 DEF CreateInv, Places

\* A run that starts has seen nothing and expects nothing.
LEMMA StartKeeps ==
  ASSUME CreateInv, NEW r \in Runs, StartCreate(r)
  PROVE  CreateInv'
<1>1. PICK tree \in Wanted : wants' = [wants EXCEPT ![r] = tree]
  BY DEF StartCreate
<1>2. /\ task[r] = "idle" /\ task' = [task EXCEPT ![r] = "branch"]
      /\ UNCHANGED <<branch, openPr, prs, closers, sawBranch, sawPr, made>>
      /\ alone' = [s \in Runs |-> s = r \/ (alone[s] /\ task[s] \in {"done", "failed"})]
  BY DEF StartCreate, At, Goto, remote
<1>3. alone' \in [Runs -> BOOLEAN]
  BY <1>2
<1>4. /\ task' \in [Runs -> Places] /\ DOMAIN wants' = Runs
      /\ task'[r] = "branch" /\ wants'[r] = tree
  BY <1>1, <1>2 DEF CreateInv, Places
<1>5. RunIsInStep(r)'
  BY <1>4 DEF RunIsInStep
<1>6. ASSUME NEW q \in Runs \ {r} PROVE RunIsInStep(q)'
  <2>1. task'[q] = task[q] /\ wants'[q] = wants[q] /\ (alone'[q] => alone[q])
    BY <1>1, <1>2 DEF CreateInv
  <2>2. RunIsInStep(q)
    BY DEF CreateInv
  <2>3. QED
    BY <1>2, <2>1, <2>2 DEF RunIsInStep
<1>7. OnlyRun(r)
  BY <1>1, <1>2 DEF CreateInv, OnlyRun
<1>8. EmptiedUnseen'
  <2> SUFFICES ASSUME NEW c \in closers
               PROVE  c[1] \in Runs /\ sawPr[c[1]] = 0 /\ task'[c[1]] \notin Before
    BY <1>2 DEF EmptiedUnseen
  <2>1. c[1] \in Runs /\ sawPr[c[1]] = 0 /\ task[c[1]] \notin Before
    BY DEF CreateInv, EmptiedUnseen
  <2>2. c[1] # r
    BY <1>2, <2>1 DEF Before
  <2>3. QED
    BY <1>7, <2>1, <2>2 DEF OnlyRun
<1>9. QED
  BY <1>2, <1>3, <1>4, <1>5, <1>6, <1>8 DEF CreateInv, Places

\* A step that fails, or is stopped.
LEMMA FailKeeps ==
  ASSUME CreateInv, NEW r \in Runs, Disturb(r), Goto(r, "failed"),
         task[r] # "idle", UNCHANGED remote, UNCHANGED <<wants, sawBranch, sawPr, made>>
  PROVE  CreateInv'
<1>1. UNCHANGED <<branch, openPr, prs, closers>>
  BY DEF remote
<1>2. task'[r] = "failed" /\ OnlyRun(r) /\ RunIsInStep(r)
  BY DEF Goto, OnlyRun, CreateInv
<1>3. alone'[r] => alone[r]
  BY DEF Disturb
<1>4. RunIsInStep(r)'
  BY <1>1, <1>2, <1>3 DEF RunIsInStep
<1>5. EmptiedUnseen'
  BY <1>1, <1>2, ClosersStay DEF Before
<1>6. QED
  BY <1>1, <1>2, <1>4, <1>5, RunKeeps DEF CreateInv, Places

\* Reading the branch, the pull request and the comparison moves one run on.
LEMMA LookingKeeps ==
  ASSUME CreateInv, NEW r \in Runs, Disturb(r), ReadBranch(r) \/ ListPr(r) \/ Compare(r)
  PROVE  CreateInv'
<1>1. RunIsInStep(r) /\ UNCHANGED <<branch, openPr, prs, closers, wants>>
  BY DEF CreateInv, ReadBranch, ListPr, Compare, remote
<1>2. alone'[r] => alone[r]
  BY DEF Disturb
<1>3. CASE ReadBranch(r)
  <2>1. PICK b \in {branch, NoRef} : sawBranch' = [sawBranch EXCEPT ![r] = b]
    BY <1>3 DEF ReadBranch
  <2>2. /\ task[r] = "branch" /\ Goto(r, "list") /\ task'[r] = "list"
        /\ UNCHANGED <<sawPr, made>>
    BY <1>3 DEF ReadBranch, At, Goto, CreateInv
  <2>3. OnlyRun(r) /\ sawBranch'[r] = b /\ DOMAIN sawBranch' = Runs
    BY <1>1, <2>1, <2>2 DEF OnlyRun, Goto, CreateInv
  <2>4. RunIsInStep(r)'
    BY <1>1, <1>2, <2>1, <2>2, <2>3 DEF RunIsInStep
  <2>5. EmptiedUnseen'
    BY <1>1, <2>2, <2>3, ClosersStay DEF Before
  <2>6. QED
    BY <1>1, <2>2, <2>3, <2>4, <2>5, RunKeeps DEF CreateInv, Places
<1>4. CASE ListPr(r)
  <2>1. CASE Goto(r, "failed") /\ UNCHANGED sawPr
    BY <1>4, <2>1, FailKeeps DEF ListPr, At
  <2>2. CASE sawPr' = [sawPr EXCEPT ![r] = openPr] /\ Goto(r, "compare")
    <3>1. /\ task[r] = "list" /\ task'[r] = "compare" /\ sawPr'[r] = openPr
          /\ UNCHANGED <<sawBranch, made>>
      BY <1>4, <2>2 DEF ListPr, At, Goto, CreateInv
    <3>2. OnlyRun(r) /\ DOMAIN sawPr' = Runs
      BY <1>1, <2>2, <3>1 DEF OnlyRun, Goto, CreateInv
    <3>3. RunIsInStep(r)'
      BY <1>1, <1>2, <3>1 DEF RunIsInStep
    <3>4. EmptiedUnseen'
      BY <1>1, <3>1, <3>2, ClosersStay DEF Before
    <3>5. QED
      BY <1>1, <2>2, <3>1, <3>2, <3>3, <3>4, RunKeeps DEF CreateInv, Places
  <2>3. QED
    BY <1>4, <2>1, <2>2 DEF ListPr, Exit
<1>5. CASE Compare(r)
  <2>1. task[r] = "compare" /\ UNCHANGED <<sawBranch, sawPr>>
    BY <1>5 DEF Compare, At
  <2>2. CASE Goto(r, "reset") /\ UNCHANGED made
    <3>1. OnlyRun(r) /\ task'[r] = "reset"
      BY <1>1, <2>1, <2>2 DEF OnlyRun, Goto, CreateInv
    <3>2. RunIsInStep(r)'
      BY <1>1, <1>2, <2>1, <2>2, <3>1 DEF RunIsInStep
    <3>3. EmptiedUnseen'
      BY <1>1, <2>1, <3>1, ClosersStay DEF Before
    <3>4. QED
      BY <1>1, <2>1, <2>2, <3>1, <3>2, <3>3, RunKeeps DEF CreateInv, Places
  <2>3. CASE /\ sawBranch[r] # NoRef /\ TreeOf(sawBranch[r]) = wants[r]
             /\ made' = [made EXCEPT ![r] = sawBranch[r]] /\ Goto(r, "pr")
    <3>1. /\ OnlyRun(r) /\ task'[r] = "pr" /\ made'[r] = sawBranch[r]
          /\ DOMAIN made' = Runs
      BY <1>1, <2>1, <2>3 DEF OnlyRun, Goto, CreateInv
    <3>2. RunIsInStep(r)'
      BY <1>1, <1>2, <2>1, <2>3, <3>1 DEF RunIsInStep
    <3>3. EmptiedUnseen'
      BY <1>1, <2>1, <3>1, ClosersStay DEF Before
    <3>4. QED
      BY <1>1, <2>1, <2>3, <3>1, <3>2, <3>3, RunKeeps DEF CreateInv, Places
  <2>4. QED
    BY <1>5, <2>2, <2>3 DEF Compare
<1>6. QED
  BY <1>3, <1>4, <1>5

\* Resetting the branch empties its pull request only after the run saw the
\* head.
LEMMA ResetKeeps ==
  ASSUME CreateInv, NEW r \in Runs, Disturb(r), ResetRef(r)
  PROVE  CreateInv'
<1>1. /\ RunIsInStep(r) /\ task[r] = "reset" /\ UNCHANGED <<wants, sawBranch, sawPr, made>>
      /\ (alone'[r] => alone[r])
  BY DEF CreateInv, ResetRef, At, Disturb
<1>2. CASE Goto(r, "failed") /\ UNCHANGED remote
  BY <1>1, <1>2, FailKeeps
<1>3. CASE Goto(r, "commit") /\ (UNCHANGED remote \/ (~OnScratch(r) /\ MoveBranch(r, BaseSha)))
  <2>1. OnlyRun(r) /\ task'[r] = "commit"
    BY <1>1, <1>3 DEF OnlyRun, Goto, CreateInv
  <2>2. CASE UNCHANGED <<openPr, prs, closers>>
    <3>1. RunIsInStep(r)'
      BY <1>1, <2>1, <2>2 DEF RunIsInStep
    <3>2. EmptiedUnseen'
      BY <1>1, <2>1, <2>2, ClosersStay DEF Before
    <3>3. QED
      BY <1>1, <1>3, <2>1, <2>2, <3>1, <3>2, RunKeeps DEF CreateInv, Places
  <2>3. CASE /\ sawPr[r] = 0 /\ openPr # 0 /\ openPr' = 0 /\ UNCHANGED prs
             /\ closers' = closers \cup {<<r, openPr>>}
    <3>1. alone[r] = FALSE
      BY <1>1, <2>3 DEF RunIsInStep, CreateInv
    <3>2. RunIsInStep(r)'
      BY <1>1, <2>1, <3>1 DEF RunIsInStep
    <3>3. EmptiedUnseen'
      <4> SUFFICES ASSUME NEW c \in closers'
                   PROVE  c[1] \in Runs /\ sawPr[c[1]] = 0 /\ task'[c[1]] \notin Before
        BY <1>1 DEF EmptiedUnseen
      <4>1. CASE c[1] = r
        BY <2>1, <2>3, <4>1 DEF Before
      <4>2. CASE c \in closers /\ c[1] # r
        BY <2>1, <4>2 DEF CreateInv, EmptiedUnseen, OnlyRun
      <4>3. QED
        BY <2>3, <4>1, <4>2
    <3>4. QED
      BY <1>1, <1>3, <2>1, <2>3, <3>2, <3>3, RunKeeps DEF CreateInv, Places
  <2>4. QED
    BY <1>3, <2>2, <2>3 DEF MoveBranch, remote, OnScratch
<1>4. QED
  BY <1>2, <1>3 DEF ResetRef, Exit

\* The branch moves to a commit of the run, which closes no pull request.
LEMMA CommittedKeeps ==
  ASSUME CreateInv, NEW r \in Runs, Disturb(r), NEW place \in {"move", "pr"},
         Goto(r, place), task[r] \in {"commit", "move"},
         UNCHANGED <<wants, sawBranch, sawPr, openPr, prs, closers>>,
         DOMAIN made' = Runs, made'[r] = CommitOf(r, wants[r]),
         \A q \in Runs \ {r} : made'[q] = made[q],
         place = "pr" => branch' = CommitOf(r, wants[r]),
         place = "move" => OnScratch(r)
  PROVE  CreateInv'
<1>1. RunIsInStep(r) /\ (alone'[r] => alone[r]) /\ wants[r] \in Wanted
  BY DEF CreateInv, Disturb, RunIsInStep
<1>2. OnlyRun(r) /\ task'[r] = place
  BY DEF OnlyRun, Goto, CreateInv
<1>3. TreeOf(CommitOf(r, wants[r])) = wants[r]
  BY <1>1, CommitIsNew
<1>4. RunIsInStep(r)'
  BY <1>1, <1>2, <1>3 DEF RunIsInStep, OnScratch
<1>5. EmptiedUnseen'
  BY <1>2, ClosersStay DEF Before
<1>6. QED
  BY <1>2, <1>4, <1>5, RunKeeps DEF CreateInv, Places

\* The commit and the move of the head keep it.
LEMMA CommitKeeps ==
  ASSUME CreateInv, NEW r \in Runs, Disturb(r), CreateCommit(r) \/ MoveHead(r)
  PROVE  CreateInv'
<1>1. /\ RunIsInStep(r) /\ task[r] \in {"commit", "move"} /\ UNCHANGED <<wants, sawBranch, sawPr>>
      /\ wants[r] \in Wanted /\ (alone'[r] => alone[r])
  BY DEF CreateInv, CreateCommit, MoveHead, At, RunIsInStep, Disturb
<1>2. CommitOf(r, wants[r]) # BaseSha
  BY <1>1, CommitIsNew
<1>3. CASE CreateCommit(r)
  <2>1. CASE Goto(r, "failed") /\ UNCHANGED made
    <3>1. UNCHANGED <<openPr, prs, closers>>
      BY <1>2, <1>3 DEF CreateCommit, MoveBranch, remote
    <3>2. OnlyRun(r) /\ task'[r] = "failed"
      BY <1>1, <2>1 DEF OnlyRun, Goto, CreateInv
    <3>3. RunIsInStep(r)'
      BY <1>1, <3>1, <3>2 DEF RunIsInStep
    <3>4. EmptiedUnseen'
      BY <1>1, <3>1, <3>2, ClosersStay DEF Before
    <3>5. QED
      BY <1>1, <2>1, <3>1, <3>2, <3>3, <3>4, RunKeeps DEF CreateInv, Places
  <2>2. CASE /\ made' = [made EXCEPT ![r] = CommitOf(r, wants[r])]
             /\ Goto(r, IF OnScratch(r) THEN "move" ELSE "pr")
             /\ IF OnScratch(r) THEN UNCHANGED remote ELSE MoveBranch(r, CommitOf(r, wants[r]))
    <3>1. /\ DOMAIN made' = Runs /\ made'[r] = CommitOf(r, wants[r])
          /\ \A q \in Runs \ {r} : made'[q] = made[q]
      BY <2>2 DEF CreateInv
    <3>2. CASE OnScratch(r)
      BY <1>1, <2>2, <3>1, <3>2, CommittedKeeps DEF remote
    <3>3. CASE ~OnScratch(r)
      BY <1>1, <1>2, <2>2, <3>1, <3>3, CommittedKeeps DEF MoveBranch
    <3>4. QED
      BY <3>2, <3>3
  <2>3. QED
    BY <1>3, <2>1, <2>2 DEF CreateCommit, Exit
<1>4. CASE MoveHead(r)
  <2>1. CASE Goto(r, "failed") /\ UNCHANGED remote
    BY <1>1, <1>4, <2>1, FailKeeps DEF MoveHead
  <2>2. CASE MoveBranch(r, made[r]) /\ Goto(r, "pr")
    <3>1. made[r] = CommitOf(r, wants[r]) /\ UNCHANGED made
      BY <1>1, <1>4 DEF MoveHead, At, RunIsInStep
    <3>2. branch' = CommitOf(r, wants[r]) /\ UNCHANGED <<openPr, prs, closers>>
      BY <1>2, <2>2, <3>1 DEF MoveBranch
    <3>3. QED
      BY <1>1, <2>2, <3>1, <3>2, CommittedKeeps DEF CreateInv
  <2>3. QED
    BY <1>4, <2>1, <2>2 DEF MoveHead, Exit
<1>5. QED
  BY <1>3, <1>4

\* So do the edit and the creation of the pull request.
LEMMA PublishPrKeeps ==
  ASSUME CreateInv, NEW r \in Runs, Disturb(r), PublishPr(r)
  PROVE  CreateInv'
<1>1. /\ RunIsInStep(r) /\ task[r] = "pr" /\ (alone'[r] => alone[r])
      /\ UNCHANGED <<branch, closers, wants, sawBranch, sawPr, made>>
  BY DEF CreateInv, PublishPr, At, Disturb
<1>2. openPr' = openPr \/ openPr' = prs + 1
  BY DEF PublishPr
<1>3. openPr' \in Nat /\ prs' \in Nat
  BY DEF PublishPr, CreateInv
<1>4. CASE Goto(r, "failed")
  <2>1. OnlyRun(r) /\ task'[r] = "failed"
    BY <1>1, <1>4 DEF OnlyRun, Goto, CreateInv
  <2>2. RunIsInStep(r)'
    BY <1>1, <2>1 DEF RunIsInStep
  <2>3. EmptiedUnseen'
    BY <1>1, <2>1, ClosersStay DEF Before
  <2>4. QED
    BY <1>1, <1>3, <1>4, <2>1, <2>2, <2>3, RunKeeps DEF CreateInv, Places
<1>5. CASE Goto(r, "done") /\ (openPr' = prs + 1 \/ (sawPr[r] # 0 /\ UNCHANGED openPr))
  <2>1. OnlyRun(r) /\ task'[r] = "done"
    BY <1>1, <1>5 DEF OnlyRun, Goto, CreateInv
  <2>2. alone'[r] => openPr' # 0
    BY <1>1, <1>5 DEF RunIsInStep, CreateInv
  <2>3. RunIsInStep(r)'
    BY <1>1, <2>1, <2>2 DEF RunIsInStep
  <2>4. EmptiedUnseen'
    BY <1>1, <2>1, ClosersStay DEF Before
  <2>5. QED
    BY <1>1, <1>3, <1>5, <2>1, <2>3, <2>4, RunKeeps DEF CreateInv, Places
<1>6. QED
  BY <1>4, <1>5 DEF PublishPr, Exit

\* So does a maintainer, who merges or closes the pull request.
LEMMA ClosePrKeeps ==
  ASSUME CreateInv, ClosePr
  PROVE  CreateInv'
<1>1. /\ openPr' = 0 /\ alone' = [s \in Runs |-> FALSE]
      /\ UNCHANGED <<prs, closers, task, wants, sawBranch, sawPr, made>>
  BY DEF ClosePr, runVars
<1>2. alone' \in [Runs -> BOOLEAN]
  BY <1>1
<1>3. ASSUME NEW q \in Runs PROVE RunIsInStep(q)'
  BY <1>1 DEF CreateInv, RunIsInStep
<1>4. EmptiedUnseen'
  BY <1>1 DEF CreateInv, EmptiedUnseen
<1>5. QED
  BY <1>1, <1>2, <1>3, <1>4 DEF CreateInv

\* Every step of create-pull-request keeps its invariant.
LEMMA CreateStepKeeps ==
  ASSUME CreateInv, [CreateNext]_createVars
  PROVE  CreateInv'
<1>1. CASE UNCHANGED createVars
  BY <1>1 DEF createVars, remote, runVars, CreateInv, RunIsInStep, EmptiedUnseen
<1>2. CASE CreateNext
  <2>1. CASE ClosePr
    BY <2>1, ClosePrKeeps
  <2>2. ASSUME NEW r \in Runs, CreateRun(r) PROVE CreateInv'
    <3>1. CASE StartCreate(r)
      BY <3>1, StartKeeps
    <3>2. CASE Disturb(r) /\ CreateStep(r)
      BY <3>2, LookingKeeps, ResetKeeps, CommitKeeps, PublishPrKeeps DEF CreateStep
    <3>3. CASE Disturb(r) /\ StopCreate(r)
      BY <3>3, FailKeeps DEF StopCreate
    <3>4. QED
      BY <2>2, <3>1, <3>2, <3>3 DEF CreateRun
  <2>3. QED
    BY <1>2, <2>1, <2>2 DEF CreateNext
<1>3. QED
  BY <1>1, <1>2

\* actions/create-pull-request and actions/dependency-update: whatever the runs
\* of the one, the coordinator of the other and the maintainers do, and wherever
\* a call fails or a job is stopped, no pull request that was seen is closed, no
\* push is lost, and an undisturbed run leaves what it reports.
THEOREM BranchUpdatesLoseNothing == ActionsSpec => []UpdatesAreKept
<1>1. ActionsInit => CreateInv /\ UpdateInv
  BY ActionsStart, InitCreateInv, InitUpdateInv
<1>2. CreateInv /\ UpdateInv /\ [ActionsNext]_jobVars => CreateInv' /\ UpdateInv'
  BY OneActionSteps, CreateStepKeeps, UpdateStepKeeps
<1>3. CreateInv => PullRequestKept
  BY DEF CreateInv, EmptiedUnseen, RunIsInStep, PullRequestKept
<1>4. CreateInv /\ UpdateInv => UpdatesAreKept
  BY <1>3 DEF UpdateInv, UpdatesAreKept
<1>5. QED
  BY <1>1, <1>2, <1>4, PTL DEF ActionsSpec, ActionsNext

-----------------------------------------------------------------------------
(* Delays: the extremes of two numbers, and the doubled backoff.           *)

\* The greater and the lesser of two numbers.
LEMMA ExtremesOfTwo ==
  ASSUME NEW a \in Int, NEW b \in Int
  PROVE  /\ Max({a, b}) = IF a >= b THEN a ELSE b
         /\ Min({a, b}) = IF a <= b THEN a ELSE b
  BY DEF Max, Min

\* The lesser of two numbers is one of them and exceeds neither.
LEMMA MinOfTwo ==
  ASSUME NEW a \in Int, NEW b \in Int
  PROVE  Min({a, b}) \in {a, b} /\ Min({a, b}) <= a /\ Min({a, b}) <= b
  BY DEF Min

\* The greater of two numbers is one of them and below neither.
LEMMA MaxOfTwo ==
  ASSUME NEW a \in Int, NEW b \in Int
  PROVE  Max({a, b}) \in {a, b} /\ Max({a, b}) >= a /\ Max({a, b}) >= b
  BY DEF Max

\* A power of two counts the subsets of an interval.
LEMMA PowerCountsSubsets ==
  ASSUME NEW n \in Nat
  PROVE  IsFiniteSet(SUBSET (1 .. n)) /\ Cardinality(SUBSET (1 .. n)) = 2 ^ n
<1>1. IsFiniteSet(1 .. n) /\ Cardinality(1 .. n) = n
  BY FS_Interval
<1>2. QED
  BY <1>1, FS_SUBSET

\* Powers of two are natural numbers.
LEMMA PowerIsNat ==
  ASSUME NEW n \in Nat
  PROVE  2 ^ n \in Nat
  BY PowerCountsSubsets, FS_CardinalityType

\* The lowest of them is one.
LEMMA PowerOfZero == 2 ^ 0 = 1
<1>1. SUBSET (1 .. 0) = {{}}
  OBVIOUS
<1>2. Cardinality(SUBSET (1 .. 0)) = 1
  BY <1>1, FS_Singleton
<1>3. QED
  BY <1>2, PowerCountsSubsets

\* They grow with the exponent.
LEMMA PowerGrows ==
  ASSUME NEW m \in Nat, NEW n \in Nat, m <= n
  PROVE  2 ^ m <= 2 ^ n
<1>1. SUBSET (1 .. m) \in SUBSET (SUBSET (1 .. n))
  OBVIOUS
<1>2. Cardinality(SUBSET (1 .. m)) <= Cardinality(SUBSET (1 .. n))
  BY <1>1, PowerCountsSubsets, FS_Subset
<1>3. QED
  BY <1>2, PowerCountsSubsets

\* The next one is the double: half of the subsets have the new element.
LEMMA PowerDoubles ==
  ASSUME NEW n \in Nat
  PROVE  2 ^ (n + 1) = 2 * 2 ^ n
<1> DEFINE without == SUBSET (1 .. n)
           with == {s \cup {n + 1} : s \in without}
           added == [s \in without |-> s \cup {n + 1}]
<1>1. n + 1 \in Nat /\ n + 1 \notin 1 .. n /\ 1 .. (n + 1) = (1 .. n) \cup {n + 1}
  OBVIOUS
<1>2. SUBSET (1 .. (n + 1)) = without \cup with
  <2>1. ASSUME NEW s \in SUBSET (1 .. (n + 1)) PROVE s \in without \cup with
    <3>1. CASE n + 1 \in s
      <4>1. s \ {n + 1} \in without /\ s = (s \ {n + 1}) \cup {n + 1}
        BY <1>1, <3>1
      <4>2. QED
        BY <4>1
    <3>2. CASE n + 1 \notin s
      BY <1>1, <3>2
    <3>3. QED
      BY <3>1, <3>2
  <2>2. ASSUME NEW s \in without \cup with PROVE s \in SUBSET (1 .. (n + 1))
    BY <1>1
  <2>3. QED
    BY <2>1, <2>2
<1>3. without \cap with = {}
  BY <1>1
<1>4. IsFiniteSet(with) /\ Cardinality(with) = Cardinality(without)
  <2>1. added \in [without -> with]
    OBVIOUS
  <2>2. ASSUME NEW s \in without, NEW t \in without, added[s] = added[t] PROVE s = t
    <3>1. s \cup {n + 1} = t \cup {n + 1} /\ n + 1 \notin s /\ n + 1 \notin t
      BY <1>1, <2>2
    <3>2. QED
      BY <3>1
  <2>3. \A t \in with : \E s \in without : added[s] = t
    OBVIOUS
  <2> HIDE DEF without, with, added
  <2>4. added \in Bijection(without, with)
    BY <2>1, <2>2, <2>3 DEF Bijection, Injection, Surjection, IsInjective
  <2>5. ExistsBijection(without, with)
    BY <2>4 DEF ExistsBijection
  <2>6. QED
    BY <2>5, PowerCountsSubsets, FS_Bijection DEF without
<1>5. IsFiniteSet(without) /\ Cardinality(without) = 2 ^ n
  BY PowerCountsSubsets
<1>6. Cardinality(without \cap with) = 0
  BY <1>3, FS_EmptySet
<1>7. Cardinality(SUBSET (1 .. (n + 1))) = 2 ^ (n + 1)
  BY <1>1, PowerCountsSubsets
<1> HIDE DEF without, with
<1>8. Cardinality(without \cup with) =
        Cardinality(without) + Cardinality(with) - Cardinality(without \cap with)
  BY <1>4, <1>5, FS_Union
<1> DEFINE power == 2 ^ n
<1>9. power \in Nat /\ Cardinality(without) = power
  BY <1>5, PowerIsNat
<1> HIDE DEF power
<1>10. Cardinality(without \cup with) = 2 * power
  BY <1>4, <1>6, <1>8, <1>9
<1>11. QED
  BY <1>2, <1>7, <1>10 DEF power

-----------------------------------------------------------------------------
(* cloudflare-deploy-broker: its waits and the operations that it begins.  *)

\* The invariant of the broker's request loop holds at the start.
LEMMA InitBrokerInv == BrokerInit => BrokerInv
<1>1. IsFiniteSet({}) /\ Cardinality({}) = 0
  BY FS_EmptySet
<1>2. QED
  BY <1>1, BrokerConstants DEF BrokerInit, BrokerInv, WaitsAreTimed, BrokerWaitsBounded, KeysAreSpent

\* nextRetryDelay() returns a natural number.
LEMMA DelayIsNat ==
  ASSUME NEW n \in Nat \ {0}, NEW retryAfter \in Nat
  PROVE  NextRetryDelay(n, retryAfter) \in Nat
<1> DEFINE exponential == 2 ^ (n - 1)
<1>1. exponential \in Nat
  BY PowerIsNat
<1>2. NextRetryDelay(n, retryAfter) = IF retryAfter >= exponential THEN retryAfter ELSE exponential
  BY DEF NextRetryDelay
<1> HIDE DEF exponential
<1>3. QED
  BY <1>1, <1>2

\* A wait after a transient failure is added up and refused at its bound.
LEMMA TransientWaitsAreTimed ==
  ASSUME WaitsAreTimed, NEW t \in Nat, t >= time, WaitTransient(t)
  PROVE  WaitsAreTimed'
<1>1. PICK retryAfter \in RetryAfters :
        LET delay == NextRetryDelay(transients + 1, retryAfter)
        IN  IF delayed + delay > MAX_TOTAL_RETRY_DELAY
            THEN Report(t, "failure")
            ELSE /\ transients' = transients + 1 /\ delayed' = delayed + delay
                 /\ step' = "oidc" /\ time' = t + delay
                 /\ UNCHANGED <<pollStarted, polled, reported>>
  BY DEF WaitTransient
<1> DEFINE delay == NextRetryDelay(transients + 1, retryAfter)
<1>2. delay \in Nat
  <2>1. transients + 1 \in Nat \ {0} /\ retryAfter \in Nat
    BY BrokerConstants DEF WaitsAreTimed
  <2>2. QED
    BY <2>1, DelayIsNat
<1> HIDE DEF delay
<1>3. CASE delayed + delay > MAX_TOTAL_RETRY_DELAY
  <2>1. /\ time' = t /\ UNCHANGED <<pollStarted, transients, delayed, polled>>
    BY <1>1, <1>3 DEF delay, Report
  <2>2. QED
    BY <2>1 DEF WaitsAreTimed, BrokerWaitsBounded
<1>4. CASE ~(delayed + delay > MAX_TOTAL_RETRY_DELAY)
  <2>1. /\ transients' = transients + 1 /\ delayed' = delayed + delay
        /\ time' = t + delay /\ UNCHANGED <<pollStarted, polled>>
    BY <1>1, <1>4 DEF delay
  <2>2. QED
    BY <1>2, <1>4, <2>1, BrokerConstants DEF WaitsAreTimed, BrokerWaitsBounded
<1>5. QED
  BY <1>3, <1>4

\* A wait for an operation in progress is refused when its clock ran out.
LEMMA PollsAreTimed ==
  ASSUME WaitsAreTimed, NEW t \in Nat, t >= time, WaitForOperation(t)
  PROVE  WaitsAreTimed'
<1> DEFINE elapsed == t - PollStartedAt(t)
           delay == Min({OPERATION_POLL_INTERVAL, OPERATION_POLL_TIMEOUT - elapsed})
<1>1. PollStartedAt(t) \in Nat /\ PollStartedAt(t) <= t /\ polled <= elapsed
  <2>1. CASE pollStarted = -1
    BY <2>1 DEF PollStartedAt, WaitsAreTimed
  <2>2. CASE pollStarted # -1
    <3>1. pollStarted \in Nat /\ polled <= time - pollStarted /\ time \in Nat /\ polled \in Nat
      BY <2>2 DEF WaitsAreTimed
    <3>2. PollStartedAt(t) = pollStarted
      BY <3>1 DEF PollStartedAt
    <3>3. pollStarted <= t /\ polled <= t - pollStarted
      BY <3>1
    <3>4. QED
      BY <3>1, <3>2, <3>3
  <2>3. QED
    BY <2>1, <2>2
<1>2. CASE elapsed >= OPERATION_POLL_TIMEOUT
  <2>1. time' = t /\ UNCHANGED <<pollStarted, transients, delayed, polled>>
    BY <1>2 DEF WaitForOperation, Report
  <2>2. QED
    BY <2>1 DEF WaitsAreTimed, BrokerWaitsBounded
<1>3. CASE ~(elapsed >= OPERATION_POLL_TIMEOUT)
  <2>1. /\ transients' = 0 /\ pollStarted' = PollStartedAt(t)
        /\ polled' = polled + delay /\ time' = t + delay /\ UNCHANGED delayed
    BY <1>3 DEF WaitForOperation
  <2>2. delay \in Nat /\ delay <= OPERATION_POLL_TIMEOUT - elapsed
    <3>1. OPERATION_POLL_INTERVAL \in Nat /\ OPERATION_POLL_TIMEOUT - elapsed \in Nat
      BY <1>1, <1>3, BrokerConstants
    <3>2. QED
      BY <3>1, ExtremesOfTwo
  <2> HIDE DEF delay
  <2>3. QED
    BY <1>1, <1>3, <2>1, <2>2, BrokerConstants DEF WaitsAreTimed, BrokerWaitsBounded
<1>4. QED
  BY <1>2, <1>3

\* Every step of the loop keeps its waits within the two bounds.
LEMMA BrokerStepIsTimed ==
  ASSUME WaitsAreTimed, BrokerNext
  PROVE  WaitsAreTimed'
<1>1. ASSUME NEW d \in RequestTimes PROVE d \in Nat /\ time + d \in Nat /\ time + d >= time
  BY BrokerConstants DEF RequestTimes, WaitsAreTimed
<1>2. ASSUME NEW t \in Nat, t >= time, NEW outcome, Report(t, outcome) PROVE WaitsAreTimed'
  <2>1. time' = t /\ UNCHANGED <<pollStarted, transients, delayed, polled>>
    BY <1>2 DEF Report
  <2>2. QED
    BY <1>2, <2>1 DEF WaitsAreTimed, BrokerWaitsBounded
<1>3. CASE UNCHANGED loop
  BY <1>3 DEF loop, WaitsAreTimed, BrokerWaitsBounded
<1>4. CASE BrokerOidc
  <2>1. CASE Report(time, "failure")
    BY <1>2, <2>1 DEF WaitsAreTimed
  <2>2. ASSUME NEW d \in RequestTimes, WaitTransient(time + d) PROVE WaitsAreTimed'
    BY <1>1, <2>2, TransientWaitsAreTimed
  <2>3. QED
    BY <1>3, <1>4, <2>1, <2>2 DEF BrokerOidc
<1>5. CASE BrokerRequest
  <2>1. PICK d \in RequestTimes :
          \/ Report(time + d, "success") \/ Report(time + d, "failure")
          \/ WaitTransient(time + d) \/ WaitForOperation(time + d)
    BY <1>5 DEF BrokerRequest
  <2>2. QED
    BY <1>1, <1>2, <2>1, TransientWaitsAreTimed, PollsAreTimed
<1>6. CASE OperationEnds
  BY <1>3, <1>6 DEF OperationEnds
<1>7. CASE Rerun
  BY <1>7, BrokerConstants DEF Rerun, WaitsAreTimed, BrokerWaitsBounded
<1>8. QED
  BY <1>4, <1>5, <1>6, <1>7 DEF BrokerNext, BrokerClient, BrokerWorld

\* Every step of the loop keeps one deployment to a key.
LEMMA BrokerStepSpendsKeys ==
  ASSUME KeysAreSpent, BrokerNext
  PROVE  KeysAreSpent'
<1>1. Cardinality(started) \in Nat
  BY FS_CardinalityType DEF KeysAreSpent
<1>2. CASE UNCHANGED <<operation, runAttempt, started>>
  BY <1>2 DEF KeysAreSpent, IdempotencyKey
<1>3. CASE UNCHANGED <<operation, runAttempt>> /\ started' = started \cup {IdempotencyKey}
  <2>1. IdempotencyKey' = IdempotencyKey
    BY <1>3 DEF IdempotencyKey
  <2>2. /\ IsFiniteSet(started')
        /\ Cardinality(started') = IF IdempotencyKey \in started
                                   THEN Cardinality(started) ELSE Cardinality(started) + 1
    BY <1>3, FS_AddElement DEF KeysAreSpent
  <2>3. QED
    BY <1>1, <1>3, <2>1, <2>2 DEF KeysAreSpent
<1>4. CASE Rerun
  BY <1>1, <1>4 DEF Rerun, KeysAreSpent, broker
<1>5. CASE BrokerOidc
  BY <1>2, <1>5 DEF BrokerOidc, broker
<1>6. CASE BrokerRequest
  BY <1>2, <1>3, <1>6 DEF BrokerRequest
<1>7. CASE OperationEnds
  BY <1>2, <1>7 DEF OperationEnds
<1>8. QED
  BY <1>4, <1>5, <1>6, <1>7 DEF BrokerNext, BrokerClient, BrokerWorld

\* Every step of the loop keeps its invariant.
LEMMA BrokerStepKeeps ==
  ASSUME BrokerInv, [BrokerNext]_brokerVars
  PROVE  BrokerInv'
<1>1. CASE UNCHANGED brokerVars
  BY <1>1 DEF brokerVars, loop, broker, BrokerInv, WaitsAreTimed, BrokerWaitsBounded,
     KeysAreSpent, IdempotencyKey
<1>2. QED
  BY <1>1, BrokerStepIsTimed, BrokerStepSpendsKeys DEF BrokerInv

\* The invariant implies what the runs check of the loop.
LEMMA BrokerInvBounds ==
  ASSUME BrokerInv
  PROVE  BrokerWaitsBounded /\ OneDeploymentPerAttempt
<1>1. Cardinality(started) \in Nat
  BY FS_CardinalityType DEF BrokerInv, KeysAreSpent
<1>2. QED
  BY <1>1 DEF BrokerInv, WaitsAreTimed, KeysAreSpent, OneDeploymentPerAttempt

-----------------------------------------------------------------------------
(* The STS clients: the waits of their loops end before the deadline.      *)

\* A retry waits only when the wait ends before the deadline.
LEMMA RetryWaits ==
  ASSUME NEW n, NEW most, NEW delays \in SUBSET Nat, NEW left \in Int,
         NEW late \in {Give, Expired}, NEW turn \in Retry(n, most, delays, left, late),
         turn.then = "wait"
  PROVE  turn.delay \in Nat /\ turn.delay < left
<1>1. Give.then = "give" /\ Expired.then = "expired"
  BY DEF Give, Expired
<1>2. PICK d \in delays : turn = IF d >= left THEN late ELSE Wait(d)
  BY <1>1 DEF Retry
<1>3. ~(d >= left) /\ turn = Wait(d)
  BY <1>1, <1>2
<1>4. turn.delay = d
  BY <1>3 DEF Wait
<1>5. QED
  BY <1>3, <1>4

\* Backoffs are natural numbers.
LEMMA JitteredIsNat ==
  ASSUME NEW n \in Nat
  PROVE  Jittered(n) \subseteq Nat
<1>1. 2 ^ n \in Nat
  BY PowerIsNat
<1>2. ASSUME NEW b \in 2 ^ n .. (5 * 2 ^ n) \div 4 PROVE b \in Nat
  BY <1>1
<1>3. QED
  BY <1>2 DEF Jittered

\* The same for the retry of Socket's and StepSecurity's requests.
LEMMA HttpRetryWaits ==
  ASSUME attempt \in Nat, NEW left \in Int, NEW turn \in HttpRetry(left), turn.then = "wait"
  PROVE  turn.delay \in Nat /\ turn.delay < left
<1>1. Jittered(attempt) \in SUBSET Nat
  BY JitteredIsNat
<1>2. QED
  BY <1>1, RetryWaits DEF HttpRetry

\* A pause for a rate limit ends at the deadline at the latest.
LEMMA PaceWaits ==
  ASSUME NEW asked \in Asked \cup {NoDelay}, NEW left \in Int, NEW turn \in Pace(asked, left),
         turn.then # "expired"
  PROVE  turn.delay \in Nat /\ turn.delay <= left
<1>1. Expired.then = "expired"
  BY DEF Expired
<1>2. ~(left < MIN_DELAY) /\ ~(asked > left)
  <2>1. CASE left < MIN_DELAY \/ asked > left
    BY <1>1, <2>1 DEF Pace
  <2>2. QED
    BY <2>1
<1> DEFINE waits == IF asked # NoDelay THEN {asked}
                    ELSE {Min({b, left}) : b \in Jittered(Min({outer, 5}))}
<1>3. PICK d \in waits : turn = Wait(Max({MIN_DELAY, d}))
  BY <1>1, <1>2 DEF Pace
<1>4. d \in Int /\ d <= left
  <2>1. CASE asked # NoDelay
    BY <1>2, <2>1, StsConstants
  <2>2. CASE asked = NoDelay
    <3>1. PICK b \in Jittered(Min({outer, 5})) : d = Min({b, left})
      BY <1>3, <2>2
    <3>2. b \in Int
      BY DEF Jittered
    <3>3. QED
      BY <3>1, <3>2, MinOfTwo
  <2>3. QED
    BY <2>1, <2>2
<1>5. Max({MIN_DELAY, d}) \in Nat /\ Max({MIN_DELAY, d}) <= left
  <2>1. MIN_DELAY \in Nat /\ MIN_DELAY <= left
    BY <1>2, SocketConstants
  <2>2. Max({MIN_DELAY, d}) \in {MIN_DELAY, d} /\ Max({MIN_DELAY, d}) >= MIN_DELAY
    <3>1. MIN_DELAY \in Int
      BY <2>1
    <3>2. QED
      BY <1>4, <3>1, MaxOfTwo
  <2>3. QED
    BY <1>4, <2>1, <2>2
<1>6. QED
  BY <1>3, <1>5 DEF Wait

\* The longer ones of two sets of numbers are numbers.
LEMMA LongerOnesAreNats ==
  ASSUME NEW A, NEW B, A \subseteq Nat, B \subseteq Nat
  PROVE  LongerOf(A, B) \subseteq Nat
<1>1. SUFFICES ASSUME NEW x \in LongerOf(A, B) PROVE x \in Nat
  OBVIOUS
<1>2. PICK b \in A, asked \in B : x = Max({b, asked})
  BY DEF LongerOf
<1>3. b \in Nat /\ asked \in Nat /\ b \in Int /\ asked \in Int
  OBVIOUS
<1>4. Max({b, asked}) \in {b, asked}
  BY <1>3, MaxOfTwo
<1>5. QED
  BY <1>2, <1>3, <1>4

\* A retry of the GitHub client waits only when the wait ends before the
\* deadline.
LEMMA GithubRetryWaits ==
  ASSUME NEW n \in Nat, NEW retryable, NEW sight, NEW left \in Int,
         NEW turn \in GithubRetry(n, retryable, sight, left), turn.then = "wait"
  PROVE  turn.delay \in Nat /\ turn.delay < left
<1> DEFINE delays == LongerOf(Jittered(n), RetryAfter(sight))
<1>1. Jittered(n) \subseteq Nat /\ RetryAfter(sight) \subseteq Nat
  BY JitteredIsNat, StsConstants, GithubConstants DEF RetryAfter
<1>2. delays \in SUBSET Nat
  BY <1>1, LongerOnesAreNats
<1>3. Give.then = "give"
  BY DEF Give
<1>4. turn \in Retry(n, GITHUB_RETRIES, delays, left, Expired)
  BY <1>3 DEF GithubRetry
<1>5. QED
  BY <1>2, <1>4, RetryWaits

\* The same for the Cloudflare client.
LEMMA CloudflareRetryWaits ==
  ASSUME attempt \in Nat, NEW sight, NEW left \in Int,
         NEW turn \in CloudflareRetry(sight, left), turn.then = "wait"
  PROVE  turn.delay \in Nat /\ turn.delay < left
<1> DEFINE delays == LongerOf({2 ^ attempt}, CloudflareAfter(sight))
<1>1. {2 ^ attempt} \subseteq Nat /\ CloudflareAfter(sight) \subseteq Nat
  BY PowerIsNat, StsConstants DEF CloudflareAfter
<1>2. delays \in SUBSET Nat
  BY <1>1, LongerOnesAreNats
<1>3. Give.then = "give"
  BY DEF Give
<1>4. turn \in Retry(attempt, CLOUDFLARE_RETRIES, delays, left, Expired)
  BY <1>3 DEF CloudflareRetry
<1>5. QED
  BY <1>2, <1>4, RetryWaits

\* A request takes no longer than what is left of the loop's budget.
LEMMA RequestFits ==
  ASSUME NEW limit \in Nat, now \in Nat, until \in Nat, now <= until,
         NEW d \in Durations(Min({limit, Left}))
  PROVE  now + d \in Nat /\ now + d <= until
<1>1. limit \in Nat /\ Left \in Nat /\ Left = until - now
  BY DEF Left
<1>2. Min({limit, Left}) \in Nat /\ Min({limit, Left}) <= Left
  <2>1. limit \in Int /\ Left \in Int
    BY <1>1
  <2>2. Min({limit, Left}) \in {limit, Left} /\ Min({limit, Left}) <= Left
    BY <2>1, MinOfTwo
  <2>3. QED
    BY <1>1, <2>2
<1>3. d = 0 \/ d = Min({limit, Left})
  BY DEF Durations
<1>4. QED
  BY <1>1, <1>2, <1>3

-----------------------------------------------------------------------------
(* The STS clients: what a step of the main hook may do.                   *)

\* It ends the hook, tries again in the same loop, or begins the next loop with
\* its deadline; in each case in time, and with the token's fate untouched.
MainMove(legs, deadline) ==
  /\ pc \in MainLegs /\ UNCHANGED <<client, live, post>>
  /\ now' \in Nat /\ now' <= until'
  /\ \/ pc' = "closed" /\ result' = "failed" /\ UNCHANGED <<until, attempt>>
     \/ pc # "status" /\ pc' = pc /\ attempt' = attempt + 1 /\ UNCHANGED <<until, result>>
     \/ pc' \in legs /\ until' = deadline /\ attempt' = 0 /\ UNCHANGED result

\* The clock of a step that is in time.
OnTime(t) == t \in Nat /\ t <= until

\* Failing, asking again at once, and starting a leg before its deadline are
\* moves in time.
LEMMA MovesInTime ==
  ASSUME pc \in MainLegs, client' = client, NEW t, OnTime(t), NEW legs, NEW deadline
  PROVE  /\ Fail(t) => MainMove(legs, deadline)
         /\ pc # "status" /\ Again(t) => MainMove(legs, deadline)
         /\ \A leg \in legs : t <= deadline /\ Begin(leg, t, deadline) => MainMove(legs, deadline)
  BY DEF OnTime, loops, Fail, Again, Begin, MainMove

\* A wait that ends by the deadline.
LEMMA WaitInTime ==
  ASSUME until \in Nat, NEW t, OnTime(t), NEW delay \in Nat, delay <= until - t
  PROVE  OnTime(t + delay)
  BY DEF OnTime

\* Asking again after the backoff of an HTTP retry is a move in time.
LEMMA HttpRetryMoves ==
  ASSUME BudgetInv, pc \in MainLegs \ {"status"}, client' = client, NEW t, OnTime(t), NEW legs, NEW deadline,
         NEW turn \in HttpRetry(until - t), turn.then = "wait", Again(t + turn.delay)
  PROVE  MainMove(legs, deadline)
<1>1. t \in Nat /\ until \in Nat /\ until - t \in Int
  BY DEF OnTime, BudgetInv
<1>2. turn.delay \in Nat /\ turn.delay <= until - t
  BY <1>1, HttpRetryWaits DEF BudgetInv
<1>3. OnTime(t + turn.delay)
  BY <1>1, <1>2, WaitInTime
<1>4. QED
  BY <1>3, MovesInTime

\* Going on after the pause for a rate limit is a move in time.
LEMMA PaceMoves ==
  ASSUME BudgetInv, pc \in MainLegs \ {"status"}, client' = client, NEW t, OnTime(t), NEW legs,
         NEW asked \in RateLimitDelays, NEW turn \in Pace(asked, until - t),
         turn.then # "expired", NEW leg \in legs, Begin(leg, t + turn.delay, until)
  PROVE  MainMove(legs, until)
<1>1. t \in Nat /\ until \in Nat /\ until - t \in Int
  BY DEF OnTime, BudgetInv
<1>2. turn.delay \in Nat /\ turn.delay <= until - t
  BY <1>1, PaceWaits DEF RateLimitDelays
<1>3. OnTime(t + turn.delay)
  BY <1>1, <1>2, WaitInTime
<1>4. QED
  BY <1>3, MovesInTime DEF OnTime

SocketLegs == {"assert", "send", "publish"}

\* What Socket's client does with an assertion, or without one, is a move in
\* time.
LEMMA SocketAssertMoves ==
  ASSUME BudgetInv, pc \in MainLegs \ {"status"}, client' = client, NEW t, OnTime(t), NEW sight,
         SocketAsserted(sight, t)
  PROVE  MainMove(SocketLegs, until)
<1>1. t \in Nat /\ until \in Nat /\ t <= until /\ until - t \in Int
  BY DEF OnTime, BudgetInv
<1>2. CASE Fail(t)
  BY <1>2, MovesInTime
<1>3. CASE Begin("send", t, until) \/ FreshAssertion(t)
  BY <1>1, <1>3, MovesInTime DEF FreshAssertion, SocketLegs
<1>4. ASSUME NEW turn \in HttpRetry(until - t), turn.then = "wait", Again(t + turn.delay)
      PROVE  MainMove(SocketLegs, until)
  BY <1>4, HttpRetryMoves
<1>5. QED
  <2>1. CASE sight \in {"ok", "invalid"}
    BY <1>2, <1>3, <2>1 DEF SocketAsserted
  <2>2. CASE sight \notin {"ok", "invalid"}
    <3>1. PICK turn \in HttpRetry(until - t) :
            CASE turn.then = "wait" -> Again(t + turn.delay)
              [] turn.then = "give" ->
                   IF sight = "timeout" THEN FreshAssertion(t) ELSE Fail(t)
      BY <2>2 DEF SocketAsserted
    <3>2. turn.then \in {"wait", "give"}
      BY DEF HttpRetry, Retry, Give, Wait
    <3>3. QED
      BY <1>2, <1>3, <1>4, <3>1, <3>2
  <2>3. QED
    BY <2>1, <2>2

\* What Socket's client does about an answer is a move in time.
LEMMA SocketAnswerMoves ==
  ASSUME BudgetInv, pc \in MainLegs \ {"status"}, client' = client, NEW t, OnTime(t), NEW sight,
         SocketAnswered(sight, t)
  PROVE  MainMove(SocketLegs, until)
<1>1. t \in Nat /\ until \in Nat /\ t <= until /\ until - t \in Int
  BY DEF OnTime, BudgetInv
<1>2. CASE Fail(t)
  BY <1>2, MovesInTime
<1>3. CASE Begin("publish", t, until) \/ FreshAssertion(t)
  BY <1>1, <1>2, <1>3, MovesInTime DEF FreshAssertion, SocketLegs
<1>4. ASSUME NEW turn \in HttpRetry(until - t), turn.then = "wait", Again(t + turn.delay)
      PROVE  MainMove(SocketLegs, until)
  BY <1>4, HttpRetryMoves
<1>5. ASSUME NEW asked \in RateLimitDelays, NEW turn \in Pace(asked, until - t),
             turn.then # "expired", NEW leg \in {"assert", "send"},
             Begin(leg, t + turn.delay, until)
      PROVE  MainMove(SocketLegs, until)
  BY <1>5, PaceMoves DEF SocketLegs
<1>6. CASE sight \in {"429", "pending", "limited"}
  <2>1. PICK asked \in RateLimitDelays :
          \E turn \in Pace(asked, until - t) :
            IF turn.then = "expired" THEN Fail(t)
            ELSE Begin(IF IsProviderRateLimited(sight) THEN "assert" ELSE "send",
                       t + turn.delay, until)
    BY <1>6 DEF SocketAnswered, RequiresFreshAssertion
  <2>2. PICK turn \in Pace(asked, until - t) :
          IF turn.then = "expired" THEN Fail(t)
          ELSE Begin(IF IsProviderRateLimited(sight) THEN "assert" ELSE "send",
                     t + turn.delay, until)
    BY <2>1
  <2>3. QED
    BY <1>2, <1>5, <2>2
<1>7. CASE sight \in {"transient", "denied", "reset"}
  <2>1. PICK turn \in HttpRetry(until - t) :
          IF turn.then = "wait" THEN Again(t + turn.delay) ELSE Fail(t)
    BY <1>7 DEF SocketAnswered, RequiresFreshAssertion
  <2>2. QED
    BY <1>2, <1>4, <2>1
<1>8. CASE sight \notin {"429", "pending", "limited", "transient", "denied", "reset"}
  BY <1>2, <1>3, <1>8 DEF SocketAnswered
<1>9. QED
  BY <1>6, <1>7, <1>8

\* StepSecurity's client waits only as the HTTP retry does.
LEMMA StepRetryIsHttp ==
  ASSUME NEW sight, NEW paced, NEW left, NEW turn \in StepRetry(sight, paced, left),
         turn.then = "wait"
  PROVE  turn \in HttpRetry(left)
<1>1. Give.then = "give"
  BY DEF Give
<1>2. QED
  BY <1>1 DEF StepRetry

\* What StepSecurity's client does with an assertion, or without one, is a move
\* in time.
LEMMA StepAssertMoves ==
  ASSUME BudgetInv, pc \in MainLegs \ {"status"}, client' = client, NEW t, OnTime(t), NEW sight,
         StepAsserted(sight, t)
  PROVE  MainMove(SocketLegs, until)
<1>1. CASE sight = "ok"
  BY <1>1, MovesInTime DEF StepAsserted, SocketLegs, OnTime
<1>2. CASE sight # "ok"
  <2>1. PICK turn \in StepRetry(sight, {}, until - t) :
          IF turn.then = "wait" THEN Again(t + turn.delay) ELSE Fail(t)
    BY <1>2 DEF StepAsserted
  <2>2. CASE turn.then = "wait"
    BY <2>1, <2>2, StepRetryIsHttp, HttpRetryMoves
  <2>3. CASE turn.then # "wait"
    BY <2>1, <2>3, MovesInTime
  <2>4. QED
    BY <2>2, <2>3
<1>3. QED
  BY <1>1, <1>2

\* What StepSecurity's client does about an answer is a move in time.
LEMMA StepAnswerMoves ==
  ASSUME BudgetInv, pc \in MainLegs \ {"status"}, client' = client, NEW t, OnTime(t), NEW sight,
         StepAnswered(sight, t)
  PROVE  MainMove(SocketLegs, until)
<1>1. CASE sight = "ok"
  BY <1>1, MovesInTime DEF StepAnswered, SocketLegs, OnTime
<1>2. CASE sight = "invalid"
  BY <1>2, MovesInTime DEF StepAnswered
<1>3. CASE sight = "429"
  <2>1. PICK turn \in StepPace(until - t) :
          IF turn.then = "expired" THEN Fail(t) ELSE Begin("send", t + turn.delay, until)
    BY <1>3 DEF StepAnswered
  <2>2. PICK asked \in RateLimitDelays : turn \in Pace(asked, until - t)
    BY DEF StepPace, RateLimitDelays
  <2>3. CASE turn.then = "expired"
    BY <2>1, <2>3, MovesInTime
  <2>4. CASE turn.then # "expired"
    BY <2>1, <2>2, <2>4, PaceMoves DEF SocketLegs
  <2>5. QED
    BY <2>3, <2>4
<1>4. CASE sight \notin {"ok", "invalid", "429"}
  <2>1. PICK turn \in StepRetry(sight, {"429"}, until - t) :
          IF turn.then = "wait" THEN Again(t + turn.delay) ELSE Fail(t)
    BY <1>4 DEF StepAnswered
  <2>2. CASE turn.then = "wait"
    BY <2>1, <2>2, StepRetryIsHttp, HttpRetryMoves
  <2>3. CASE turn.then # "wait"
    BY <2>1, <2>3, MovesInTime
  <2>4. QED
    BY <2>2, <2>3
<1>5. QED
  BY <1>1, <1>2, <1>3, <1>4

GithubLegs == {"oidc", "refresh", "send", "publish"}

\* The GitHub client's outer retry is a move in time.
LEMMA RetryExchangeMoves ==
  ASSUME BudgetInv, pc \in MainLegs \ {"status"}, client' = client, NEW t, OnTime(t), NEW sight,
         NEW leg \in GithubLegs, RetryExchange(t, sight, leg)
  PROVE  MainMove(GithubLegs, until)
<1>1. t \in Nat /\ until \in Nat /\ until - t \in Int
  BY DEF OnTime, BudgetInv
<1> DEFINE retried == TRUE
<1>2. PICK turn \in GithubRetry(outer, retried, sight, until - t) :
        IF turn.then = "wait" THEN Begin(leg, t + turn.delay, until) ELSE Fail(t)
  BY DEF RetryExchange
<1> HIDE DEF retried
<1>3. CASE turn.then = "wait"
  <2>1. turn.delay \in Nat /\ turn.delay <= until - t
    BY <1>1, <1>3, GithubRetryWaits DEF BudgetInv
  <2>2. OnTime(t + turn.delay)
    BY <1>1, <2>1, WaitInTime
  <2>3. QED
    BY <1>2, <1>3, <2>2, MovesInTime DEF OnTime
<1>4. CASE turn.then # "wait"
  BY <1>2, <1>4, MovesInTime
<1>5. QED
  BY <1>3, <1>4

\* A retry of the GitHub client waits, has expired, or gives up.
LEMMA GithubRetryKinds ==
  ASSUME NEW n, NEW retryable, NEW sight, NEW left, NEW turn \in GithubRetry(n, retryable, sight, left)
  PROVE  turn.then \in {"wait", "expired", "give"}
<1>1. /\ Give.then = "give" /\ Expired.then = "expired"
      /\ \A d : Wait(d).then = "wait"
  BY DEF Give, Expired, Wait
<1>2. CASE turn = Give
  BY <1>1, <1>2
<1>3. CASE turn # Give
  <2> DEFINE delays == LongerOf(Jittered(n), RetryAfter(sight))
  <2>1. turn \in Retry(n, GITHUB_RETRIES, delays, left, Expired)
    BY <1>3 DEF GithubRetry
  <2> HIDE DEF delays
  <2>2. turn \in {IF d >= left THEN Expired ELSE Wait(d) : d \in delays}
    BY <1>3, <2>1 DEF Retry
  <2>3. QED
    BY <1>1, <2>2
<1>4. QED
  BY <1>2, <1>3

\* What the GitHub client does with an assertion, or without one, is a move in
\* time.
LEMMA GithubAssertMoves ==
  ASSUME BudgetInv, pc \in MainLegs \ {"status"}, client' = client, NEW t, OnTime(t), NEW sight,
         GithubAsserted(sight, t)
  PROVE  MainMove(GithubLegs, until)
<1>1. CASE sight = "ok"
  BY <1>1, MovesInTime DEF GithubAsserted, GithubLegs, OnTime
<1>2. CASE sight # "ok"
  <2>1. PICK turn \in GithubRetry(attempt, Lost(sight) \/ GithubTransient(sight), sight, until - t) :
          CASE turn.then = "wait" -> Again(t + turn.delay)
            [] turn.then = "expired" -> Fail(t)
            [] turn.then = "give" ->
                 IF pc = "oidc" THEN Fail(t) ELSE RetryExchange(t, "reset", "refresh")
    BY <1>2 DEF GithubAsserted
  <2>2. turn.then \in {"wait", "expired", "give"}
    BY GithubRetryKinds
  <2>3. CASE turn.then = "wait"
    <3>1. t \in Nat /\ until \in Nat /\ until - t \in Int
      BY DEF OnTime, BudgetInv
    <3>2. turn.delay \in Nat /\ turn.delay <= until - t
      BY <2>3, <3>1, GithubRetryWaits DEF BudgetInv
    <3>3. OnTime(t + turn.delay)
      BY <3>1, <3>2, WaitInTime
    <3>4. QED
      BY <2>1, <2>3, <3>3, MovesInTime
  <2>4. CASE turn.then # "wait"
    <3>1. Fail(t) \/ RetryExchange(t, "reset", "refresh")
      BY <2>1, <2>2, <2>4
    <3>2. QED
      BY <3>1, MovesInTime, RetryExchangeMoves DEF GithubLegs
  <2>5. QED
    BY <2>3, <2>4
<1>3. QED
  BY <1>1, <1>2

\* What the GitHub client does about an answer is a move in time.
LEMMA GithubAnswerMoves ==
  ASSUME BudgetInv, pc \in MainLegs \ {"status"}, client' = client, NEW t, OnTime(t), NEW sight,
         GithubAnswered(sight, t)
  PROVE  MainMove(GithubLegs, until)
<1>1. CASE Begin("publish", t, until) \/ Fail(t)
  BY <1>1, MovesInTime DEF GithubLegs, OnTime
<1>2. ASSUME NEW leg \in {"refresh", "send"}, RetryExchange(t, sight, leg)
      PROVE  MainMove(GithubLegs, until)
  BY <1>2, RetryExchangeMoves DEF GithubLegs
<1>3. QED
  BY <1>1, <1>2 DEF GithubAnswered

\* What the Cloudflare client does about an answer is a move in time, in each
\* of its loops.
LEMMA CloudflareAnswerMoves ==
  ASSUME BudgetInv, pc \in MainLegs \ {"status"}, client' = client, NEW t, OnTime(t), NEW sight,
         NEW leg, NEW deadline, t <= deadline, CloudflareAnswered(sight, t, leg, deadline)
  PROVE  MainMove({leg}, deadline)
<1>1. CASE sight = "ok"
  BY <1>1, MovesInTime DEF CloudflareAnswered
<1>2. CASE sight # "ok"
  <2>1. PICK turn \in CloudflareRetry(sight, until - t) :
          IF turn.then = "wait" THEN Again(t + turn.delay) ELSE Fail(t)
    BY <1>2 DEF CloudflareAnswered
  <2>2. CASE turn.then = "wait"
    <3>1. t \in Nat /\ until \in Nat /\ until - t \in Int /\ attempt \in Nat
      BY DEF OnTime, BudgetInv
    <3>2. turn.delay \in Nat /\ turn.delay <= until - t
      BY <2>2, <3>1, CloudflareRetryWaits
    <3>3. OnTime(t + turn.delay)
      BY <3>1, <3>2, WaitInTime
    <3>4. QED
      BY <2>1, <2>2, <3>3, MovesInTime
  <2>3. CASE turn.then # "wait"
    BY <2>1, <2>3, MovesInTime
  <2>4. QED
    BY <2>2, <2>3
<1>3. QED
  BY <1>1, <1>2

\* The request before the exchange is within the budget of a loop.
LEMMA StatusInTime ==
  ASSUME BudgetInv, pc = "status", NEW d \in Durations(REQUEST_TIMEOUT)
  PROVE  OnTime(now + d) /\ now + d \in 0 .. REQUEST_TIMEOUT
  BY StsConstants DEF BudgetInv, Durations, OnTime

\* Every request of Socket's main hook is a move in time.
LEMMA SocketMoves ==
  ASSUME BudgetInv, SocketStatus \/ SocketAssert \/ SocketSend
  PROVE  client = "socket" /\ MainMove(SocketLegs, until)
<1>1. client = "socket" /\ client' = client /\ pc \in MainLegs
  BY DEF SocketStatus, SocketAssert, SocketSend, StatusCheck, MainLegs
<1>2. /\ now \in Nat /\ until \in Nat /\ now <= until /\ OnTime(now) /\ REQUEST_TIMEOUT \in Nat
  BY <1>1, StsConstants DEF BudgetInv, HasDeadline, MainLegs, OnTime
<1>3. CASE Fail(now)
  BY <1>1, <1>2, <1>3, MovesInTime
<1>4. ASSUME NEW d \in SocketTime PROVE OnTime(now + d)
  BY <1>2, <1>4, RequestFits DEF SocketTime, OnTime
<1>5. CASE SocketStatus
  <2>1. PICK d \in Durations(REQUEST_TIMEOUT) : Fail(now + d) \/ Begin("assert", now + d, until)
    BY <1>5 DEF SocketStatus, StatusCheck
  <2>2. OnTime(now + d)
    BY <1>5, <2>1, StatusInTime DEF SocketStatus, StatusCheck
  <2>3. QED
    BY <1>1, <2>1, <2>2, MovesInTime DEF OnTime, SocketLegs
<1>6. CASE SocketAssert /\ ~Fail(now)
  <2>1. PICK d \in SocketTime : \E sight \in OidcSights(d) : SocketAsserted(sight, now + d)
    BY <1>6 DEF SocketAssert
  <2>2. pc # "status"
    BY <1>6 DEF SocketAssert
  <2>3. QED
    BY <1>1, <1>4, <2>1, <2>2, SocketAssertMoves
<1>7. CASE SocketSend /\ ~Fail(now)
  <2>1. PICK d \in SocketTime : \E sight : SocketAnswered(sight, now + d)
    BY <1>7 DEF SocketSend
  <2>2. pc # "status"
    BY <1>7 DEF SocketSend
  <2>3. QED
    BY <1>1, <1>4, <2>1, <2>2, SocketAnswerMoves
<1>8. QED
  BY <1>1, <1>3, <1>5, <1>6, <1>7

\* Every request of StepSecurity's main hook is a move in time.
LEMMA StepMoves ==
  ASSUME BudgetInv, StepStatus \/ StepAssert \/ StepSend
  PROVE  client = "stepsecurity" /\ MainMove(SocketLegs, until)
<1>1. client = "stepsecurity" /\ client' = client /\ pc \in MainLegs
  BY DEF StepStatus, StepAssert, StepSend, StatusCheck, MainLegs
<1>2. /\ now \in Nat /\ until \in Nat /\ now <= until /\ OnTime(now) /\ REQUEST_TIMEOUT \in Nat
  BY <1>1, StsConstants DEF BudgetInv, HasDeadline, MainLegs, OnTime
<1>3. CASE Fail(now)
  BY <1>1, <1>2, <1>3, MovesInTime
<1>4. ASSUME NEW d \in SocketTime PROVE OnTime(now + d)
  BY <1>2, <1>4, RequestFits DEF SocketTime, OnTime
<1>5. CASE StepStatus
  <2>1. PICK d \in Durations(REQUEST_TIMEOUT) : Fail(now + d) \/ Begin("assert", now + d, until)
    BY <1>5 DEF StepStatus, StatusCheck
  <2>2. OnTime(now + d)
    BY <1>5, <2>1, StatusInTime DEF StepStatus, StatusCheck
  <2>3. QED
    BY <1>1, <2>1, <2>2, MovesInTime DEF OnTime, SocketLegs
<1>6. CASE StepAssert /\ ~Fail(now)
  <2>1. PICK d \in SocketTime : \E sight \in OidcSights(d) : StepAsserted(sight, now + d)
    BY <1>6 DEF StepAssert
  <2>2. pc # "status"
    BY <1>6 DEF StepAssert
  <2>3. QED
    BY <1>1, <1>4, <2>1, <2>2, StepAssertMoves
<1>7. CASE StepSend /\ ~Fail(now)
  <2>1. PICK d \in SocketTime : \E sight : StepAnswered(sight, now + d)
    BY <1>7 DEF StepSend
  <2>2. pc # "status"
    BY <1>7 DEF StepSend
  <2>3. QED
    BY <1>1, <1>4, <2>1, <2>2, StepAnswerMoves
<1>8. QED
  BY <1>1, <1>3, <1>5, <1>6, <1>7

\* Every request of the GitHub client's main hook is a move in time.
LEMMA GithubMoves ==
  ASSUME BudgetInv, GithubStatus \/ GithubOidc \/ GithubSend
  PROVE  client = "github" /\ MainMove(GithubLegs, until)
<1>1. client = "github" /\ client' = client /\ pc \in MainLegs
  BY DEF GithubStatus, GithubOidc, GithubSend, StatusCheck, MainLegs
<1>2. /\ now \in Nat /\ until \in Nat /\ now <= until /\ OnTime(now) /\ REQUEST_TIMEOUT \in Nat
  BY <1>1, StsConstants DEF BudgetInv, HasDeadline, MainLegs, OnTime
<1>3. CASE Fail(now)
  BY <1>1, <1>2, <1>3, MovesInTime
<1>4. ASSUME NEW d \in GithubTime PROVE OnTime(now + d)
  BY <1>2, <1>4, RequestFits DEF GithubTime, OnTime
<1>5. CASE GithubStatus
  <2>1. PICK d \in Durations(REQUEST_TIMEOUT) : Fail(now + d) \/ Begin("oidc", now + d, until)
    BY <1>5 DEF GithubStatus, StatusCheck
  <2>2. OnTime(now + d)
    BY <1>5, <2>1, StatusInTime DEF GithubStatus, StatusCheck
  <2>3. QED
    BY <1>1, <2>1, <2>2, MovesInTime DEF OnTime, GithubLegs
<1>6. CASE GithubOidc /\ ~Fail(now)
  <2>1. PICK d \in GithubTime : \E sight \in OidcSights(d) : GithubAsserted(sight, now + d)
    BY <1>6 DEF GithubOidc
  <2>2. pc # "status"
    BY <1>6 DEF GithubOidc
  <2>3. QED
    BY <1>1, <1>4, <2>1, <2>2, GithubAssertMoves
<1>7. CASE GithubSend /\ ~Fail(now)
  <2>1. PICK d \in GithubTime : \E sight : GithubAnswered(sight, now + d)
    BY <1>7 DEF GithubSend
  <2>2. pc # "status"
    BY <1>7 DEF GithubSend
  <2>3. QED
    BY <1>1, <1>4, <2>1, <2>2, GithubAnswerMoves
<1>8. QED
  BY <1>1, <1>3, <1>5, <1>6, <1>7

\* Its next loop has a deadline of its own, counted from the end of the last.
CloudflareMove ==
  /\ client = "cloudflare"
  /\ \E leg \in {"oidc", "send", "publish"}, deadline \in Nat :
       /\ MainMove({leg}, deadline)
       /\ deadline <= CASE leg = "oidc" -> RETRY_BUDGET + REQUEST_TIMEOUT
                        [] leg = "send" -> until + RETRY_BUDGET
                        [] leg = "publish" -> until
       /\ pc = CASE leg = "oidc" -> "status" [] leg = "send" -> "oidc" [] leg = "publish" -> "send"

\* Every request of the Cloudflare client's main hook is a move in time of one
\* of its loops.
LEMMA CloudflareMoves ==
  ASSUME BudgetInv, CloudflareStatus \/ CloudflareOidc \/ CloudflareSend
  PROVE  CloudflareMove
<1>1. client = "cloudflare" /\ client' = client /\ pc \in MainLegs
  BY DEF CloudflareStatus, CloudflareOidc, CloudflareSend, StatusCheck, MainLegs
<1>2. /\ now \in Nat /\ until \in Nat /\ now <= until /\ OnTime(now)
      /\ REQUEST_TIMEOUT \in Nat /\ EXCHANGE_TIMEOUT \in Nat /\ RETRY_BUDGET \in Nat
  BY <1>1, StsConstants, CloudflareConstants DEF BudgetInv, HasDeadline, MainLegs, OnTime
<1>3. ASSUME NEW limit \in Nat, NEW d \in CloudflareTime(limit) PROVE OnTime(now + d)
  BY <1>2, <1>3, RequestFits DEF CloudflareTime, OnTime
<1>4. CASE CloudflareStatus
  <2>1. pc = "status"
    BY <1>4 DEF CloudflareStatus
  <2>2. PICK d \in Durations(REQUEST_TIMEOUT) :
          Fail(now) \/ Fail(now + d) \/ Begin("oidc", now + d, now + d + RETRY_BUDGET)
    BY <1>4 DEF CloudflareStatus, StatusCheck, Durations
  <2>3. /\ OnTime(now + d) /\ now + d + RETRY_BUDGET \in Nat /\ now + d <= now + d + RETRY_BUDGET
        /\ now + d + RETRY_BUDGET <= RETRY_BUDGET + REQUEST_TIMEOUT
    BY <1>2, <2>1, StatusInTime DEF OnTime
  <2>4. MainMove({"oidc"}, now + d + RETRY_BUDGET)
    BY <1>1, <1>2, <2>2, <2>3, MovesInTime
  <2>5. QED
    BY <1>1, <2>1, <2>3, <2>4 DEF CloudflareMove
<1>5. CASE CloudflareOidc
  <2>1. pc = "oidc"
    BY <1>5 DEF CloudflareOidc
  <2>2. CASE Fail(now)
    <3>1. MainMove({"send"}, until)
      BY <1>1, <1>2, <2>2, MovesInTime
    <3>2. QED
      BY <1>1, <1>2, <2>1, <3>1 DEF CloudflareMove
  <2>3. CASE ~Fail(now)
    <3>1. PICK d \in CloudflareTime(REQUEST_TIMEOUT) : \E sight \in OidcSights(d) :
            CloudflareAnswered(sight, now + d, "send", now + d + RETRY_BUDGET)
      BY <1>5, <2>3 DEF CloudflareOidc
    <3>2. OnTime(now + d)
      BY <1>2, <1>3
    <3>3. /\ now + d + RETRY_BUDGET \in Nat /\ now + d <= now + d + RETRY_BUDGET
          /\ now + d + RETRY_BUDGET <= until + RETRY_BUDGET
      BY <1>2, <3>2 DEF OnTime
    <3>4. MainMove({"send"}, now + d + RETRY_BUDGET)
      BY <1>1, <2>1, <3>1, <3>2, <3>3, CloudflareAnswerMoves
    <3>5. QED
      BY <1>1, <2>1, <3>3, <3>4 DEF CloudflareMove
  <2>4. QED
    BY <2>2, <2>3
<1>6. CASE CloudflareSend
  <2>1. pc = "send"
    BY <1>6 DEF CloudflareSend
  <2>2. MainMove({"publish"}, until)
    <3>1. CASE Fail(now)
      BY <1>1, <1>2, <3>1, MovesInTime
    <3>2. CASE ~Fail(now)
      <4>1. PICK d \in CloudflareTime(EXCHANGE_TIMEOUT) :
              \E sight : CloudflareAnswered(sight, now + d, "publish", until)
        BY <1>6, <3>2 DEF CloudflareSend
      <4>2. OnTime(now + d)
        BY <1>2, <1>3
      <4>3. QED
        BY <1>1, <2>1, <4>1, <4>2, CloudflareAnswerMoves DEF OnTime
    <3>3. QED
      BY <3>1, <3>2
  <2>3. QED
    BY <1>1, <1>2, <2>1, <2>2 DEF CloudflareMove
<1>7. QED
  BY <1>4, <1>5, <1>6

-----------------------------------------------------------------------------
(* The STS clients: no hook outlasts its budget.                           *)

\* The budget's invariant holds at the start.
LEMMA InitBudgetInv == StsInit => BudgetInv
  BY StsConstants DEF StsInit, BudgetInv, HasDeadline, LastDeadline, MainLegs, PostLegs

\* A move in time keeps the budget of a hook with one deadline.
LEMMA LoopMovesKeepBudget ==
  ASSUME BudgetInv, outer' \in Nat, client # "cloudflare", NEW legs, legs \subseteq MainLegs \ {"status"},
         MainMove(legs, until)
  PROVE  BudgetInv'
<1>1. client' = client /\ until' = until /\ LastDeadline = RETRY_BUDGET /\ LastDeadline' = RETRY_BUDGET
  BY DEF MainMove, LastDeadline
<1>2. now' \in Nat /\ now' <= until' /\ attempt' \in Nat
  BY DEF MainMove, BudgetInv
<1>3. pc' \in MainLegs \/ pc' = "closed"
  BY DEF MainMove
<1>4. pc' \in MainLegs => result' = "none"
  BY DEF MainMove, BudgetInv, MainLegs
<1>5. pc' # "status"
  BY DEF MainMove
<1>6. now' <= RETRY_BUDGET /\ until' <= RETRY_BUDGET
  BY <1>1, <1>2, StsConstants DEF MainMove, BudgetInv, HasDeadline, MainLegs
<1>7. pc' = "closed" => InBudget'
  BY <1>1, <1>6 DEF MainMove, InBudget, Allowance, MainLegs
<1>8. QED
  BY <1>1, <1>2, <1>3, <1>4, <1>5, <1>6, <1>7 DEF BudgetInv, HasDeadline, MainLegs, PostLegs

\* It keeps the budget of the Cloudflare client, whose loops have one deadline
\* each.
LEMMA CloudflareMovesKeepBudget ==
  ASSUME BudgetInv, outer' \in Nat, CloudflareMove
  PROVE  BudgetInv'
<1>1. PICK leg \in {"oidc", "send", "publish"}, deadline \in Nat :
        /\ MainMove({leg}, deadline)
        /\ deadline <= CASE leg = "oidc" -> RETRY_BUDGET + REQUEST_TIMEOUT
                         [] leg = "send" -> until + RETRY_BUDGET
                         [] leg = "publish" -> until
        /\ pc = CASE leg = "oidc" -> "status" [] leg = "send" -> "oidc" [] leg = "publish" -> "send"
  BY DEF CloudflareMove
<1>2. /\ client = "cloudflare" /\ client' = client /\ now' \in Nat /\ now' <= until'
      /\ attempt' \in Nat /\ result = "none"
      /\ RETRY_BUDGET \in Nat /\ REQUEST_TIMEOUT \in Nat /\ until \in Nat
  BY <1>1, StsConstants DEF CloudflareMove, MainMove, BudgetInv
<1>3. CASE pc' = "closed" /\ result' = "failed" /\ until' = until
  BY <1>1, <1>2, <1>3 DEF BudgetInv, HasDeadline, LastDeadline, InBudget, Allowance, MainLegs, PostLegs
<1>4. CASE pc # "status" /\ pc' = pc /\ until' = until /\ result' = result
  BY <1>1, <1>2, <1>4 DEF BudgetInv, HasDeadline, LastDeadline, InBudget, Allowance, MainLegs, PostLegs
<1>5. CASE pc' = leg /\ until' = deadline /\ result' = result
  <2>1. until' <= LastDeadline'
    <3>1. CASE leg = "oidc"
      BY <1>1, <1>2, <1>5, <3>1 DEF LastDeadline
    <3>2. CASE leg = "send"
      BY <1>1, <1>2, <1>5, <3>2 DEF LastDeadline, BudgetInv, HasDeadline, MainLegs, Allowance
    <3>3. CASE leg = "publish"
      BY <1>1, <1>2, <1>5, <3>3 DEF LastDeadline, BudgetInv, HasDeadline, MainLegs, Allowance
    <3>4. QED
      BY <3>1, <3>2, <3>3
  <2>2. QED
    BY <1>1, <1>2, <1>5, <2>1 DEF BudgetInv, MainLegs, PostLegs
<1>6. QED
  BY <1>1, <1>3, <1>4, <1>5 DEF MainMove

PostHooks == SocketRevoke \/ StepRevoke \/ GithubRevoke \/ GithubProvider \/ GithubReconcile

\* A number that is at most a quarter is at most the quarter rounded down.
LEMMA QuarterRoundedDown ==
  ASSUME NEW x \in Int, NEW y \in Int, 4 * x <= y
  PROVE  x <= y \div 4
  OBVIOUS

\* One more attempt takes its timeout and its wait.
LEMMA AttemptTakesItsTime ==
  ASSUME NEW n \in Nat, NEW time0 \in Nat, NEW limit \in Nat, NEW d \in Durations(limit),
         4 * time0 <= 4 * (n * limit) + 5 * (2 ^ n - 1)
  PROVE  /\ time0 + d \in Nat
         /\ 4 * (time0 + d) <= 4 * ((n + 1) * limit) + 5 * (2 ^ n - 1)
         /\ \A w \in Jittered(n) :
              /\ time0 + d + w \in Nat
              /\ 4 * (time0 + d + w) <= 4 * ((n + 1) * limit) + 5 * (2 ^ (n + 1) - 1)
<1> DEFINE power == 2 ^ n
           spent == n * limit
<1>1. power \in Nat /\ 2 ^ (n + 1) = 2 * power
  BY PowerIsNat, PowerDoubles
<1>2. spent \in Nat /\ (n + 1) * limit = spent + limit
  OBVIOUS
<1>3. d \in Nat /\ d <= limit
  BY DEF Durations
<1>4. 4 * time0 <= 4 * spent + 5 * (power - 1)
  OBVIOUS
<1>5. \A w \in Jittered(n) : w \in Nat /\ 4 * w <= 5 * power
  BY <1>1 DEF Jittered
<1> HIDE DEF power, spent
<1>6. time0 + d \in Nat /\ 4 * (time0 + d) <= 4 * (spent + limit) + 5 * (power - 1)
  BY <1>1, <1>2, <1>3, <1>4
<1>7. \A w \in Jittered(n) : /\ time0 + d + w \in Nat
                              /\ 4 * (time0 + d + w) <= 4 * (spent + limit) + 5 * (2 * power - 1)
  BY <1>1, <1>2, <1>3, <1>4, <1>5
<1>8. QED
  BY <1>1, <1>2, <1>6, <1>7 DEF power

\* After the last attempt that is the longest revocation.
LEMMA LastAttemptIsInTime ==
  ASSUME NEW n \in Nat, n <= RETRY_ATTEMPTS - 1, NEW t \in Nat,
         4 * t <= 4 * ((n + 1) * REQUEST_TIMEOUT) + 5 * (2 ^ n - 1)
  PROVE  t <= LongestRevocation
<1> DEFINE last == RETRY_ATTEMPTS - 1
           power == 2 ^ n
           most == 2 ^ last
           spent == (n + 1) * REQUEST_TIMEOUT
           all == RETRY_ATTEMPTS * REQUEST_TIMEOUT
<1>1. last \in Nat /\ REQUEST_TIMEOUT \in Nat /\ RETRY_ATTEMPTS \in Nat
  BY SocketConstants, StsConstants
<1>2. power \in Nat /\ most \in Nat /\ power <= most
  BY <1>1, PowerIsNat, PowerGrows
<1>3. spent \in Nat /\ all \in Nat /\ spent <= all
  <2>1. n + 1 \in Nat /\ n + 1 <= RETRY_ATTEMPTS
    BY <1>1
  <2>2. QED
    BY <1>1, <2>1
<1>4. 4 * t <= 4 * spent + 5 * (power - 1) /\ LongestRevocation = all + (5 * (most - 1)) \div 4
  BY DEF LongestRevocation
<1> HIDE DEF last, power, most, spent, all
<1>5. t - all \in Int /\ 5 * (most - 1) \in Int /\ 4 * (t - all) <= 5 * (most - 1)
  BY <1>2, <1>3, <1>4
<1>6. t - all <= (5 * (most - 1)) \div 4
  BY <1>5, QuarterRoundedDown
<1>7. QED
  BY <1>3, <1>4, <1>5, <1>6

\* The post hooks of Socket and Step Security take the time of their attempts.
LEMMA RevocationsTakeTheirTime ==
  ASSUME BudgetInv, outer' \in Nat, SocketRevoke \/ StepRevoke
  PROVE  BudgetInv'
<1>1. /\ client \in {"socket", "stepsecurity"} /\ pc = "revoke" /\ result = "token"
      /\ UNCHANGED <<client, until, result>>
  BY DEF SocketRevoke, StepRevoke, Close, RevokeAgain, BudgetInv, PostLegs
<1>2. /\ now \in Nat /\ until \in Nat /\ attempt \in Nat /\ attempt <= RETRY_ATTEMPTS - 1
      /\ 4 * now <= 4 * (attempt * REQUEST_TIMEOUT) + 5 * (2 ^ attempt - 1)
      /\ REQUEST_TIMEOUT \in Nat /\ RETRY_ATTEMPTS \in Nat
  BY <1>1, StsConstants, SocketConstants DEF BudgetInv, AttemptsTakeTheirTime
<1>3. PICK d \in Durations(REQUEST_TIMEOUT) :
        \/ pc' = "closed" /\ now' = now + d /\ attempt' = attempt
        \/ /\ attempt # RETRY_ATTEMPTS - 1 /\ pc' = pc /\ attempt' = attempt + 1
           /\ \E w \in Jittered(attempt) : now' = now + d + w
  BY DEF SocketRevoke, StepRevoke, Close, RevokeAgain, loops
<1>4. CASE pc' = "closed" /\ now' = now + d /\ attempt' = attempt
  <2>1. now' \in Nat /\ 4 * now' <= 4 * ((attempt + 1) * REQUEST_TIMEOUT) + 5 * (2 ^ attempt - 1)
    BY <1>2, <1>4, AttemptTakesItsTime
  <2>2. now' <= LongestRevocation
    BY <1>2, <2>1, LastAttemptIsInTime
  <2>3. InBudget'
    BY <1>1, <2>2 DEF InBudget, Allowance, LongestRevocation
  <2>4. QED
    BY <1>1, <1>2, <1>4, <2>1, <2>3 DEF BudgetInv, HasDeadline, MainLegs, PostLegs
<1>5. CASE /\ attempt # RETRY_ATTEMPTS - 1 /\ pc' = pc /\ attempt' = attempt + 1
           /\ \E w \in Jittered(attempt) : now' = now + d + w
  <2>1. PICK w \in Jittered(attempt) : now' = now + d + w
    BY <1>5
  <2>2. now' \in Nat /\ 4 * now' <= 4 * ((attempt + 1) * REQUEST_TIMEOUT) + 5 * (2 ^ (attempt + 1) - 1)
    BY <1>2, <2>1, AttemptTakesItsTime
  <2>3. attempt' \in Nat /\ attempt' <= RETRY_ATTEMPTS - 1
    BY <1>2, <1>5
  <2>4. AttemptsTakeTheirTime'
    BY <1>5, <2>2, <2>3 DEF AttemptsTakeTheirTime
  <2>5. QED
    BY <1>1, <1>2, <1>5, <2>2, <2>3, <2>4 DEF BudgetInv, HasDeadline, MainLegs, PostLegs
<1>6. QED
  BY <1>3, <1>4, <1>5

\* GitHub's post hook takes whatever time the services take.
LEMMA GithubRevocationsKeepBudget ==
  ASSUME BudgetInv, outer' \in Nat, GithubRevoke \/ GithubProvider \/ GithubReconcile
  PROVE  BudgetInv'
<1>1. /\ client = "github" /\ pc \in {"revoke", "provider", "reconcile"} /\ result = "token"
      /\ UNCHANGED <<client, until, result>>
  BY DEF GithubRevoke, GithubProvider, GithubReconcile, Close, RevokeAgain, NextRevocation,
     BudgetInv, PostLegs
<1>2. now \in Nat /\ until \in Nat /\ attempt \in Nat
  BY DEF BudgetInv
<1>3. PICK d \in RevocationTime :
        /\ attempt' \in {attempt, attempt + 1, 0}
        /\ pc' \in {"revoke", "provider", "reconcile", "closed"}
        /\ now' = now + d \/ \E w \in Jittered(attempt) : now' = now + d + w
  BY <1>1 DEF GithubRevoke, GithubProvider, GithubReconcile, Close, RevokeAgain, NextRevocation, loops
<1>4. now' \in Nat /\ attempt' \in Nat
  <2>1. d \in Nat
    BY GithubConstants DEF RevocationTime, Durations
  <2>2. Jittered(attempt) \subseteq Nat
    BY <1>2, JitteredIsNat
  <2>3. QED
    BY <1>2, <1>3, <2>1, <2>2
<1>5. QED
  BY <1>1, <1>2, <1>3, <1>4 DEF BudgetInv, HasDeadline, InBudget, MainLegs, PostLegs

\* Post hooks of the three keep the budget.
LEMMA PostHooksKeepBudget ==
  ASSUME BudgetInv, outer' \in Nat, PostHooks \/ Expire
  PROVE  BudgetInv'
<1>1. CASE Expire
  BY <1>1 DEF Expire, clock, loops, BudgetInv, HasDeadline, LastDeadline, AttemptsTakeTheirTime,
     InBudget, Allowance, LongestRevocation
<1>2. CASE PostHooks
  BY <1>2, RevocationsTakeTheirTime, GithubRevocationsKeepBudget DEF PostHooks
<1>3. QED
  BY <1>1, <1>2

\* Publishing the token takes no time; the post hook starts with a budget of
\* its own.
LEMMA PublishKeepsBudget ==
  ASSUME BudgetInv, outer' \in Nat, SocketPublish \/ StepPublish \/ GithubPublish \/ CloudflarePublish
  PROVE  BudgetInv'
<1>1. /\ pc' = IF client' = "cloudflare" THEN "post_oidc" ELSE "revoke"
      /\ result' = "token" /\ now' = 0 /\ until' = RETRY_BUDGET /\ attempt' = 0
  BY DEF SocketPublish, StepPublish, GithubPublish, CloudflarePublish, Publish
<1>2. AttemptsTakeTheirTime'
  <2>1. RETRY_ATTEMPTS \in Nat \ {0} /\ REQUEST_TIMEOUT \in Nat
    BY SocketConstants, StsConstants
  <2>2. 2 ^ attempt' = 1 /\ attempt' * REQUEST_TIMEOUT = 0
    BY <1>1, <2>1, PowerOfZero
  <2>3. QED
    BY <1>1, <2>1, <2>2 DEF AttemptsTakeTheirTime
<1>3. QED
  BY <1>1, <1>2, StsConstants DEF BudgetInv, HasDeadline, LastDeadline, MainLegs, PostLegs

\* The Cloudflare client's post hook keeps the budgets of its two loops.
LEMMA CloudflarePostKeepsBudget ==
  ASSUME BudgetInv, outer' \in Nat, CloudflarePostOidc \/ CloudflareRevoke
  PROVE  BudgetInv'
<1>1. client = "cloudflare" /\ client' = client /\ pc \in {"post_oidc", "revoke"} /\ result = "token"
  BY DEF CloudflarePostOidc, CloudflareRevoke, BudgetInv, PostLegs
<1>2. /\ now \in Nat /\ until \in Nat /\ now <= until /\ OnTime(now) /\ attempt \in Nat
      /\ REQUEST_TIMEOUT \in Nat /\ RETRY_BUDGET \in Nat
  BY <1>1, StsConstants DEF BudgetInv, HasDeadline, MainLegs, OnTime
<1>3. until <= 2 * RETRY_BUDGET
  BY <1>1, <1>2 DEF BudgetInv, HasDeadline, LastDeadline, Allowance, MainLegs
<1>4. ASSUME NEW t, OnTime(t), now' = t, until' = until, result' = result,
             pc' \in {pc, "closed"}, attempt' \in Nat
      PROVE  BudgetInv'
  BY <1>1, <1>2, <1>3, <1>4 DEF OnTime, BudgetInv, HasDeadline, LastDeadline, InBudget, Allowance, MainLegs, PostLegs
<1>5. ASSUME NEW t, OnTime(t), PostFails(t) PROVE BudgetInv'
  BY <1>2, <1>4, <1>5 DEF PostFails, loops
<1>6. ASSUME NEW d \in CloudflareTime(REQUEST_TIMEOUT) PROVE OnTime(now + d)
  BY <1>2, <1>6, RequestFits DEF CloudflareTime, OnTime
<1>7. ASSUME NEW t, OnTime(t), NEW sight, NEW turn \in CloudflareRetry(sight, until - t),
             IF turn.then = "wait" THEN PostAgain(t + turn.delay) ELSE PostFails(t)
      PROVE  BudgetInv'
  <2>1. t \in Nat /\ until - t \in Int
    BY <1>2, <1>7 DEF OnTime
  <2>2. CASE turn.then = "wait"
    <3>1. turn.delay \in Nat /\ turn.delay <= until - t
      BY <1>2, <2>1, <2>2, CloudflareRetryWaits
    <3>2. OnTime(t + turn.delay)
      BY <1>2, <1>7, <3>1, WaitInTime
    <3>3. QED
      BY <1>2, <1>4, <1>7, <2>2, <3>2 DEF PostAgain
  <2>3. CASE turn.then # "wait"
    BY <1>5, <1>7, <2>3
  <2>4. QED
    BY <2>2, <2>3
<1>8. CASE PostFails(now)
  BY <1>2, <1>5, <1>8
<1>9. CASE CloudflarePostOidc /\ ~PostFails(now)
  <2>1. PICK d \in CloudflareTime(REQUEST_TIMEOUT), sight \in {"ok", "reset", "timeout", "invalid", "denied", "transient", "429"} :
          LET t == now + d
          IN  \/ /\ pc' = "revoke" /\ now' = t /\ until' = t + RETRY_BUDGET
                 /\ attempt' = 0 /\ result' = result
              \/ \E turn \in CloudflareRetry(sight, until - t) :
                   IF turn.then = "wait" THEN PostAgain(t + turn.delay) ELSE PostFails(t)
    BY <1>9 DEF CloudflarePostOidc, OidcSights, Sights
  <2>2. OnTime(now + d)
    BY <1>6
  <2>3. CASE /\ pc' = "revoke" /\ now' = now + d /\ until' = now + d + RETRY_BUDGET
             /\ attempt' = 0 /\ result' = result
    <3>1. until <= RETRY_BUDGET
      BY <1>1, <1>9 DEF CloudflarePostOidc, BudgetInv, HasDeadline, LastDeadline
    <3>2. QED
      BY <1>1, <1>2, <2>2, <2>3, <3>1 DEF OnTime, BudgetInv, HasDeadline, LastDeadline, InBudget, Allowance, MainLegs, PostLegs
  <2>4. QED
    BY <1>7, <2>1, <2>2, <2>3
<1>10. CASE CloudflareRevoke /\ ~PostFails(now)
  <2>1. PICK d \in CloudflareTime(REQUEST_TIMEOUT), sight \in Revocations :
          LET t == now + d
          IN  \/ pc' = "closed" /\ now' = t /\ UNCHANGED <<until, loops, result>>
              \/ \E turn \in CloudflareRetry(sight, until - t) :
                   IF turn.then = "wait" THEN PostAgain(t + turn.delay) ELSE PostFails(t)
    BY <1>10 DEF CloudflareRevoke
  <2>2. OnTime(now + d)
    BY <1>6
  <2>3. CASE pc' = "closed" /\ now' = now + d /\ UNCHANGED <<until, loops, result>>
    BY <1>2, <1>4, <2>2, <2>3 DEF loops
  <2>4. QED
    BY <1>7, <2>1, <2>2, <2>3
<1>11. QED
  BY <1>8, <1>9, <1>10

\* Waits for rate limits and retries of the exchange are counted up, from
\* nothing after every fresh assertion; so are the assertions.
Counted == outer' \in {outer, outer + 1, 0} /\ tries' \in {tries, tries + 1}

\* Every step of the STS clients counts so.
LEMMA LoopsAreCounted ==
  ASSUME [StsNext]_stsVars
  PROVE  Counted
<1> USE DEF Counted
<1>1. CASE UNCHANGED stsVars \/ Expire \/ PostHooks
  BY <1>1 DEF stsVars, loops, Expire, PostHooks, SocketRevoke, StepRevoke, GithubRevoke,
     GithubProvider, GithubReconcile, Close, RevokeAgain, NextRevocation
<1>2. CASE SocketStatus \/ StepStatus \/ GithubStatus \/ CloudflareStatus
  BY <1>2 DEF SocketStatus, StepStatus, GithubStatus, CloudflareStatus, StatusCheck, Fail, loops
<1>3. CASE SocketPublish \/ StepPublish \/ GithubPublish \/ CloudflarePublish
  BY <1>3 DEF SocketPublish, StepPublish, GithubPublish, CloudflarePublish, Publish
<1>4. CASE SocketAssert
  <2>1. ASSUME NEW t, Fail(t) \/ Again(t) \/ FreshAssertion(t) PROVE Counted
    BY <2>1 DEF Fail, Again, FreshAssertion, loops
  <2>2. ASSUME NEW t, NEW sight, SocketAsserted(sight, t) PROVE Counted
    <3>1. CASE sight \in {"ok", "invalid"}
      BY <2>1, <2>2, <3>1 DEF SocketAsserted
    <3>2. CASE sight \notin {"ok", "invalid"}
      <4>1. PICK turn \in HttpRetry(until - t) :
              CASE turn.then = "wait" -> Again(t + turn.delay)
                [] turn.then = "give" ->
                     IF sight = "timeout" THEN FreshAssertion(t) ELSE Fail(t)
        BY <2>2, <3>2 DEF SocketAsserted
      <4>2. turn.then \in {"wait", "give"}
        BY DEF HttpRetry, Retry, Give, Wait
      <4>3. QED
        BY <2>1, <4>1, <4>2
    <3>3. QED
      BY <3>1, <3>2
  <2>3. QED
    BY <1>4, <2>1, <2>2 DEF SocketAssert
<1>5. CASE SocketSend
  BY <1>5 DEF SocketSend, SocketAnswered, FreshAssertion, Fail, Again, loops
<1>6. CASE StepAssert \/ StepSend
  BY <1>6 DEF StepAssert, StepAsserted, StepSend, StepAnswered, Fail, Again, loops
<1>7. CASE GithubOidc \/ GithubSend
  <2>1. ASSUME NEW t, NEW sight, NEW leg, RetryExchange(t, sight, leg) PROVE Counted
    BY <2>1 DEF RetryExchange, Fail, loops
  <2>2. ASSUME NEW t, NEW sight, GithubAsserted(sight, t) PROVE Counted
    <3>1. CASE sight = "ok"
      BY <2>2, <3>1 DEF GithubAsserted
    <3>2. CASE sight # "ok"
      <4>1. PICK turn \in GithubRetry(attempt, Lost(sight) \/ GithubTransient(sight), sight, until - t) :
              CASE turn.then = "wait" -> Again(t + turn.delay)
                [] turn.then = "expired" -> Fail(t)
                [] turn.then = "give" ->
                     IF pc = "oidc" THEN Fail(t) ELSE RetryExchange(t, "reset", "refresh")
        BY <2>2, <3>2 DEF GithubAsserted
      <4>2. turn.then \in {"wait", "expired", "give"}
        BY GithubRetryKinds
      <4>3. ASSUME NEW u, Fail(u) \/ Again(u) PROVE Counted
        BY <4>3 DEF Fail, Again, loops
      <4>4. QED
        BY <2>1, <4>1, <4>2, <4>3
    <3>3. QED
      BY <3>1, <3>2
  <2>3. ASSUME NEW t, NEW sight, GithubAnswered(sight, t) PROVE Counted
    BY <2>1, <2>3 DEF GithubAnswered, Fail, loops
  <2>4. QED
    BY <1>7, <2>2, <2>3 DEF GithubOidc, GithubSend, Fail, loops
<1>8. CASE CloudflareOidc \/ CloudflareSend
  BY <1>8 DEF CloudflareOidc, CloudflareSend, CloudflareAnswered, Fail, Again, loops
<1>9. CASE CloudflarePostOidc \/ CloudflareRevoke
  BY <1>9 DEF CloudflarePostOidc, CloudflareRevoke, PostFails, PostAgain, loops
<1>10. QED
  BY <1>1, <1>2, <1>3, <1>4, <1>5, <1>6, <1>7, <1>8, <1>9
     DEF StsNext, StsWork, SocketNext, StepNext, GithubNext, CloudflareNext, PostHooks

\* Every step of the STS clients keeps the budget's invariant.
LEMMA StsStepKeepsBudget ==
  ASSUME BudgetInv, [StsNext]_stsVars
  PROVE  BudgetInv'
<1>0. outer' \in Nat
  BY LoopsAreCounted DEF Counted, BudgetInv
<1>1. CASE UNCHANGED stsVars
  BY <1>1 DEF stsVars, clock, loops, BudgetInv, HasDeadline, LastDeadline, AttemptsTakeTheirTime,
     InBudget, Allowance, LongestRevocation
<1>2. CASE SocketStatus \/ SocketAssert \/ SocketSend \/ StepStatus \/ StepAssert \/ StepSend
  <2>1. client # "cloudflare" /\ MainMove(SocketLegs, until)
    BY <1>2, SocketMoves, StepMoves
  <2>2. SocketLegs \subseteq MainLegs \ {"status"}
    BY DEF SocketLegs, MainLegs
  <2>3. QED
    BY <1>0, <2>1, <2>2, LoopMovesKeepBudget
<1>3. CASE GithubStatus \/ GithubOidc \/ GithubSend
  <2>1. client # "cloudflare" /\ MainMove(GithubLegs, until)
    BY <1>3, GithubMoves
  <2>2. GithubLegs \subseteq MainLegs \ {"status"}
    BY DEF GithubLegs, MainLegs
  <2>3. QED
    BY <1>0, <2>1, <2>2, LoopMovesKeepBudget
<1>4. CASE CloudflareStatus \/ CloudflareOidc \/ CloudflareSend
  BY <1>0, <1>4, CloudflareMoves, CloudflareMovesKeepBudget
<1>5. CASE SocketPublish \/ StepPublish \/ GithubPublish \/ CloudflarePublish
  BY <1>0, <1>5, PublishKeepsBudget
<1>6. CASE CloudflarePostOidc \/ CloudflareRevoke
  BY <1>0, <1>6, CloudflarePostKeepsBudget
<1>7. CASE PostHooks \/ Expire
  BY <1>0, <1>7, PostHooksKeepBudget
<1>8. QED
  BY <1>1, <1>2, <1>3, <1>4, <1>5, <1>6, <1>7
     DEF StsNext, StsWork, SocketNext, StepNext, GithubNext, CloudflareNext, PostHooks

\* The invariant implies what the runs check of the hooks.
LEMMA BudgetInvBounds ==
  ASSUME BudgetInv
  PROVE  InBudget
<1>1. RETRY_BUDGET \in Nat /\ REQUEST_TIMEOUT \in Nat /\ now \in Nat /\ until \in Nat
  BY StsConstants DEF BudgetInv
<1>2. CASE HasDeadline
  <2>1. LastDeadline \in Int /\ LastDeadline <= Allowance /\ Allowance \in Int
    <3>1. CASE client # "cloudflare"
      BY <1>1, <1>2, <3>1 DEF LastDeadline, Allowance, HasDeadline, BudgetInv, MainLegs, PostLegs
    <3>2. CASE client = "cloudflare"
      BY <1>1, <1>2, <3>2 DEF LastDeadline, Allowance, HasDeadline, BudgetInv, MainLegs, PostLegs
    <3>3. QED
      BY <3>1, <3>2
  <2>2. QED
    BY <1>1, <1>2, <2>1 DEF BudgetInv, InBudget
<1>3. CASE pc = "revoke" /\ client \notin {"github", "cloudflare"}
  <2>1. /\ attempt \in Nat /\ attempt <= RETRY_ATTEMPTS - 1 /\ result = "token"
        /\ 4 * now <= 4 * (attempt * REQUEST_TIMEOUT) + 5 * (2 ^ attempt - 1)
    BY <1>3 DEF BudgetInv, AttemptsTakeTheirTime, PostLegs
  <2>2. 0 \in Durations(REQUEST_TIMEOUT)
    BY DEF Durations
  <2>3. 4 * now <= 4 * ((attempt + 1) * REQUEST_TIMEOUT) + 5 * (2 ^ attempt - 1)
    <3>1. 4 * (now + 0) <= 4 * ((attempt + 1) * REQUEST_TIMEOUT) + 5 * (2 ^ attempt - 1)
      BY <1>1, <2>1, <2>2, AttemptTakesItsTime
    <3>2. now + 0 = now
      BY <1>1
    <3>3. QED
      BY <3>1, <3>2
  <2>4. now <= LongestRevocation
    BY <1>1, <2>1, <2>3, LastAttemptIsInTime
  <2>5. QED
    BY <1>3, <2>1, <2>4 DEF InBudget, Allowance
<1>4. CASE pc = "closed"
  BY <1>4 DEF BudgetInv
<1>5. QED
  BY <1>2, <1>3, <1>4 DEF HasDeadline, InBudget, BudgetInv, PostLegs

\* actions/*-sts and cloudflare-deploy-broker: however failures, polls and rate
\* limits alternate, no exchange outlasts its budget, no revocation outlasts the
\* timeouts and the longest waits of its attempts (that of github-sts excepted,
\* whose requests have no timeout), and the loop around the broker waits no
\* longer than its two limits.
THEOREM HooksStayInBudget == ActionsSpec => []BudgetsHold
<1>1. ActionsInit => BudgetInv /\ BrokerInv
  BY ActionsStart, InitBudgetInv, InitBrokerInv
<1>2. BudgetInv /\ BrokerInv /\ [ActionsNext]_jobVars => BudgetInv' /\ BrokerInv'
  BY OneActionSteps, StsStepKeepsBudget, BrokerStepKeeps
<1>3. BudgetInv /\ BrokerInv => BudgetsHold
  BY BudgetInvBounds, BrokerInvBounds DEF BudgetsHold
<1>4. QED
  BY <1>1, <1>2, <1>3, PTL DEF ActionsSpec, ActionsNext

-----------------------------------------------------------------------------
(* The STS clients: the token that was taken back is not accepted.         *)

\* The revocation's invariant holds at the start.
LEMMA InitRevocationInv == StsInit => RevocationInv
  BY DEF StsInit, RevocationInv, RevokedIsDead

\* Until a hook has ended its outcome is open.
LEMMA OpenKeepsRevocation ==
  ASSUME RevocationInv, pc # "closed", UNCHANGED post, pc' # "reconcile", live' \in BOOLEAN
  PROVE  RevocationInv'
  BY DEF RevocationInv, RevokedIsDead

\* The main hook reports no revocation.
LEMMA MainHookKeepsRevocation ==
  ASSUME RevocationInv, BudgetInv,
         \/ SocketStatus \/ SocketAssert \/ SocketSend \/ StepStatus \/ StepAssert \/ StepSend
         \/ GithubStatus \/ GithubOidc \/ GithubSend
         \/ CloudflareStatus \/ CloudflareOidc \/ CloudflareSend
  PROVE  RevocationInv'
<1>1. ASSUME NEW legs, legs \subseteq MainLegs, NEW deadline, MainMove(legs, deadline)
      PROVE  RevocationInv'
  BY <1>1, OpenKeepsRevocation DEF MainMove, MainLegs, RevocationInv
<1>2. SocketLegs \subseteq MainLegs /\ GithubLegs \subseteq MainLegs
  BY DEF SocketLegs, GithubLegs, MainLegs
<1>3. CASE CloudflareStatus \/ CloudflareOidc \/ CloudflareSend
  <2>1. PICK leg \in {"oidc", "send", "publish"}, deadline \in Nat : MainMove({leg}, deadline)
    BY <1>3, CloudflareMoves DEF CloudflareMove
  <2>2. {leg} \subseteq MainLegs
    BY DEF MainLegs
  <2>3. QED
    BY <1>1, <2>1, <2>2
<1>4. QED
  BY <1>1, <1>2, <1>3, SocketMoves, StepMoves, GithubMoves

\* A revocation that is answered with 204 leaves a dead credential; none
\* revives one.
LEMMA RevokedIsBoolean ==
  ASSUME live \in BOOLEAN, NEW sight, Revoked(sight)
  PROVE  live' \in BOOLEAN /\ (sight = "204" => live' = FALSE) /\ (live = FALSE => live' = FALSE)
  BY DEF Revoked

\* A post hook reports a revocation after the answer that says so.
LEMMA PostHookKeepsRevocation ==
  ASSUME RevocationInv, PostHooks \/ CloudflarePostOidc \/ CloudflareRevoke \/ Expire
  PROVE  RevocationInv'
<1>1. live \in BOOLEAN /\ (pc # "closed" => post = "none")
  BY DEF RevocationInv
<1>2. CASE SocketRevoke \/ StepRevoke
  <2>1. PICK sight \in Revocations :
          \E t : /\ Revoked(sight)
                 /\ \/ sight = "204" /\ Close("clean", t)
                    \/ Close("warned", t) \/ RevokeAgain(t)
    BY <1>2 DEF SocketRevoke, StepRevoke
  <2>2. pc = "revoke"
    BY <1>2 DEF SocketRevoke, StepRevoke
  <2>3. QED
    BY <1>1, <2>1, <2>2, RevokedIsBoolean DEF Close, RevokeAgain, RevocationInv, RevokedIsDead
<1>3. CASE GithubRevoke
  <2>1. PICK sight \in Revocations :
          \E t : /\ Revoked(sight)
                 /\ \/ sight = "204" /\ Close("clean", t)
                    \/ RevokeAgain(t) \/ NextRevocation("provider", t)
    BY <1>3 DEF GithubRevoke
  <2>2. pc = "revoke"
    BY <1>3 DEF GithubRevoke
  <2>3. QED
    BY <1>1, <2>1, <2>2, RevokedIsBoolean
       DEF Close, RevokeAgain, NextRevocation, RevocationInv, RevokedIsDead
<1>4. CASE GithubProvider
  <2>1. PICK sight \in Revocations \cup {"401"} :
          /\ IF sight = "401" THEN ~live /\ UNCHANGED live ELSE Revoked(sight)
          /\ \E t : \/ sight \in {"204", "401"} /\ NextRevocation("reconcile", t)
                    \/ RevokeAgain(t) \/ Close("warned", t)
    BY <1>4 DEF GithubProvider, ProviderRevoked
  <2>2. pc = "provider"
    BY <1>4 DEF GithubProvider
  <2>3. live' \in BOOLEAN /\ (sight \in {"204", "401"} => live' = FALSE)
    BY <1>1, <2>1, RevokedIsBoolean
  <2>4. QED
    BY <1>1, <2>1, <2>2, <2>3 DEF Close, RevokeAgain, NextRevocation, RevocationInv, RevokedIsDead
<1>5. CASE GithubReconcile
  <2>1. live = FALSE
    BY <1>5 DEF GithubReconcile, RevocationInv
  <2>2. live' = FALSE /\ pc' = "closed"
    BY <1>1, <1>5, <2>1, RevokedIsBoolean DEF GithubReconcile, Close
  <2>3. QED
    BY <2>2 DEF RevocationInv, RevokedIsDead
<1>6. CASE CloudflarePostOidc
  <2>1. pc = "post_oidc" /\ UNCHANGED live /\ pc' # "reconcile" /\ post' \in {post, "failed"}
        /\ (post' = post \/ pc' = "closed")
    BY <1>6 DEF CloudflarePostOidc, PostFails, PostAgain
  <2>2. QED
    BY <1>1, <2>1 DEF RevocationInv, RevokedIsDead
<1>7. CASE CloudflareRevoke
  <2>1. pc = "revoke"
    BY <1>7 DEF CloudflareRevoke
  <2>2. CASE PostFails(now) /\ UNCHANGED live
    BY <1>1, <2>2 DEF PostFails, RevocationInv, RevokedIsDead
  <2>3. ASSUME NEW sight, NEW t, Revoked(sight),
               \/ sight = "204" /\ pc' = "closed" /\ post' = "clean"
               \/ PostAgain(t) \/ PostFails(t)
        PROVE  RevocationInv'
    BY <1>1, <2>1, <2>3, RevokedIsBoolean DEF PostAgain, PostFails, RevocationInv, RevokedIsDead
  <2>4. QED
    BY <1>7, <2>2, <2>3 DEF CloudflareRevoke
<1>8. CASE Expire
  BY <1>1, <1>8 DEF Expire, RevocationInv, RevokedIsDead
<1>9. QED
  BY <1>2, <1>3, <1>4, <1>5, <1>6, <1>7, <1>8 DEF PostHooks

\* Every step of the STS clients keeps the revocation's invariant.
LEMMA StsStepKeepsRevocation ==
  ASSUME RevocationInv, BudgetInv, [StsNext]_stsVars
  PROVE  RevocationInv'
<1>1. CASE UNCHANGED stsVars
  BY <1>1 DEF stsVars, RevocationInv, RevokedIsDead
<1>2. CASE SocketPublish \/ StepPublish \/ GithubPublish \/ CloudflarePublish
  <2>1. pc = "publish" /\ pc' # "reconcile" /\ live' = TRUE /\ UNCHANGED post
    BY <1>2 DEF SocketPublish, StepPublish, GithubPublish, CloudflarePublish, Publish
  <2>2. QED
    BY <2>1, OpenKeepsRevocation
<1>3. QED
  BY <1>1, <1>2, MainHookKeepsRevocation, PostHookKeepsRevocation
     DEF StsNext, StsWork, SocketNext, StepNext, GithubNext, CloudflareNext, PostHooks

\* post.cjs of the four STS actions: a hook that says that the token is revoked
\* is right, whatever answers were lost, of the STS or of GitHub, and also if it
\* could not settle the ledger of the STS.
THEOREM RevokedTokensAreDead == ActionsSpec => []RevokedIsDead
<1>1. ActionsInit => BudgetInv /\ RevocationInv
  BY ActionsStart, InitBudgetInv, InitRevocationInv
<1>2. BudgetInv /\ RevocationInv /\ [ActionsNext]_jobVars => BudgetInv' /\ RevocationInv'
  BY OneActionSteps, StsStepKeepsBudget, StsStepKeepsRevocation
<1>3. RevocationInv => RevokedIsDead
  BY DEF RevocationInv
<1>4. QED
  BY <1>1, <1>2, <1>3, PTL DEF ActionsSpec, ActionsNext

-----------------------------------------------------------------------------
(* The STS clients: how many credentials an exchange costs.                *)

\* The invariant of the credentials' count holds at the start.
LEMMA InitMintInv == StsInit => MintInv
<1> SUFFICES ASSUME StsInit PROVE MintInv
  OBVIOUS
<1>1. /\ pc = "status" /\ tries = 0 /\ claim = "new" /\ unsure = FALSE
      /\ mints = 0 /\ lateLimits = 0
  BY DEF StsInit
<1>2. CredentialsBounded
  BY <1>1, SocketConstants DEF CredentialsBounded
<1>3. SocketMints
  <2>1. tries \in 0 .. ASSERTION_ATTEMPTS - 1
    BY <1>1, SocketConstants
  <2>2. (IF claim = "pending" THEN 1 ELSE 0) = 0
    BY <1>1
  <2>3. mints + (IF claim = "pending" THEN 1 ELSE 0) <= tries
    BY <1>1, <2>2
  <2>4. claim \in Claims /\ pc # "send"
    BY <1>1 DEF Claims
  <2>5. QED
    BY <2>1, <2>3, <2>4 DEF SocketMints
<1>4. StepMints
  BY <1>1 DEF StepMints
<1>5. GithubMints
  <2>1. pc # "send" /\ claim \in {"new", "minted"} /\ lateLimits \in Nat /\ mints <= lateLimits
    BY <1>1
  <2>2. unsure \in BOOLEAN
    BY <1>1
  <2>3. QED
    BY <2>1, <2>2 DEF GithubMints
<1>6. QED
  BY <1>1, <1>2, <1>3, <1>4, <1>5 DEF MintInv

\* A step that sends nothing to the STS, and does not go back to the exchange.
LEMMA HeldKeepsMints ==
  ASSUME MintInv, UNCHANGED <<client, held, tries>>,
         \/ pc' \notin MainLegs \/ pc' = pc
         \/ pc = "status" /\ pc' \in {"assert", "oidc"}
  PROVE  MintInv'
<1>1. UNCHANGED <<client, tries, claim, unsure, mints, lateLimits>>
  BY DEF held
<1>2. CredentialsBounded'
  BY <1>1 DEF MintInv, CredentialsBounded
<1>3. client = "socket" => SocketMints'
  BY <1>1 DEF MintInv, SocketMints, MainLegs
<1>4. client = "stepsecurity" => StepMints'
  BY <1>1 DEF MintInv, StepMints, MainLegs
<1>5. client = "github" => GithubMints'
  BY <1>1 DEF MintInv, GithubMints, MainLegs
<1>6. QED
  BY <1>1, <1>2, <1>3, <1>4, <1>5 DEF MintInv

\* The status checks make no credential.
LEMMA StatusKeepsMints ==
  ASSUME MintInv, SocketStatus \/ StepStatus \/ GithubStatus
  PROVE  MintInv'
<1>1. UNCHANGED <<client, held>> /\ pc = "status"
  BY DEF SocketStatus, StepStatus, GithubStatus, StatusCheck
<1>2. UNCHANGED tries /\ pc' \in {"assert", "oidc", "closed"}
  BY DEF SocketStatus, StepStatus, GithubStatus, StatusCheck, Fail, Begin, loops
<1>3. QED
  BY <1>1, <1>2, HeldKeepsMints DEF MainLegs

\* Publishing and the post hooks make no credential.
LEMMA PostKeepsMints ==
  ASSUME MintInv,
         \/ SocketPublish \/ StepPublish \/ GithubPublish \/ CloudflarePublish
         \/ PostHooks \/ CloudflarePostOidc \/ CloudflareRevoke \/ Expire
  PROVE  MintInv'
<1>1. CASE SocketPublish \/ StepPublish \/ GithubPublish \/ CloudflarePublish
  BY <1>1, HeldKeepsMints
     DEF SocketPublish, StepPublish, GithubPublish, CloudflarePublish, Publish, MainLegs
<1>2. CASE PostHooks
  <2>1. UNCHANGED <<client, held, tries>>
    BY <1>2 DEF PostHooks, SocketRevoke, StepRevoke, GithubRevoke, GithubProvider, GithubReconcile,
       Close, RevokeAgain, NextRevocation, loops
  <2>2. pc' = pc \/ pc' \in {"provider", "reconcile", "closed"}
    BY <1>2 DEF PostHooks, SocketRevoke, StepRevoke, GithubRevoke, GithubProvider, GithubReconcile,
       Close, RevokeAgain, NextRevocation
  <2>3. QED
    BY <2>1, <2>2, HeldKeepsMints DEF MainLegs
<1>3. CASE CloudflarePostOidc \/ CloudflareRevoke
  <2>1. UNCHANGED <<client, held>> /\ UNCHANGED tries
    BY <1>3 DEF CloudflarePostOidc, CloudflareRevoke, PostFails, PostAgain, loops
  <2>2. pc' = pc \/ pc' \in {"revoke", "closed"}
    BY <1>3 DEF CloudflarePostOidc, CloudflareRevoke, PostFails, PostAgain
  <2>3. QED
    BY <2>1, <2>2, HeldKeepsMints DEF MainLegs
<1>4. CASE Expire
  BY <1>4, HeldKeepsMints DEF Expire, loops
<1>5. QED
  BY <1>1, <1>2, <1>3, <1>4

\* Cloudflare's actions promise nothing about it.
LEMMA CloudflareKeepsMints ==
  ASSUME MintInv, CloudflareStatus \/ CloudflareOidc \/ CloudflareSend
  PROVE  MintInv'
<1>1. client = "cloudflare" /\ client' = client
  <2>1. CASE CloudflareStatus
    <3>1. client = "cloudflare" /\ (UNCHANGED <<client, held>> \/ StatusCheck("oidc", FALSE))
      BY <2>1 DEF CloudflareStatus
    <3>2. QED
      BY <3>1 DEF StatusCheck
  <2>2. CASE CloudflareOidc \/ CloudflareSend
    BY <2>2 DEF CloudflareOidc, CloudflareSend
  <2>3. QED
    BY <2>1, <2>2
<1>2. mints \in Nat
  BY DEF MintInv
<1>3. CASE UNCHANGED held
  BY <1>1, <1>2, <1>3 DEF held, MintInv, CredentialsBounded
<1>4. CASE NewAssertion
  <2>1. mints' \in {mints, mints + 1}
    BY <1>4 DEF NewAssertion
  <2>2. QED
    BY <1>1, <1>2, <2>1 DEF MintInv, CredentialsBounded
<1>5. ASSUME NEW effect, NEW sight, Exchanged(effect, sight) PROVE MintInv'
  <2>1. mints' \in {mints, mints + 1}
    BY <1>5 DEF Exchanged
  <2>2. QED
    BY <1>1, <1>2, <2>1 DEF MintInv, CredentialsBounded
<1>6. QED
  BY <1>3, <1>4, <1>5 DEF CloudflareStatus, CloudflareOidc, CloudflareSend, StatusCheck, OidcAnswered

\* What an answer does to the claim and to the count, as the STS has it.
LEMMA ExchangeCounts ==
  ASSUME mints \in Nat, NEW effect, NEW sight, Exchanged(effect, sight)
  PROVE  /\ claim' = effect.claim
         /\ mints' = IF claim' = "minted" /\ claim # "minted" THEN mints + 1 ELSE mints
         /\ mints' \in Nat
  BY DEF Exchanged

\* A used-up assertion stays used up at Socket's STS, and a rate limit uses up
\* a new one.
LEMMA SocketServiceAnswers ==
  ASSUME claim \in Claims, NEW effect \in SocketService
  PROVE  /\ claim \in {"minted", "spent"} => effect.claim = claim
         /\ effect.answer = "limited" => claim = "new" /\ effect.claim = "spent"
         /\ effect.claim \in Claims
<1>1. CASE effect \in [answer : {"transient", "429"}, claim : {claim}]
  BY <1>1
<1>2. CASE claim \in {"minted", "spent"} /\ effect \in [answer : {"409"}, claim : {claim}]
  BY <1>2
<1>3. CASE /\ claim \in {"new", "pending"}
           /\ effect \in [answer : {"ok", "invalid", "transient"}, claim : {"minted"}]
                \cup [answer : {"502"}, claim : {"spent"}]
                \cup [answer : {"pending"}, claim : {"pending"}]
                \cup [answer : {"503"}, claim : {"pending"}]
  BY <1>3 DEF Claims
<1>4. CASE claim = "new" /\ effect \in [answer : {"denied"}, claim : {"new"}]
  BY <1>4
<1>5. CASE claim = "new" /\ effect \in [answer : {"limited"}, claim : {"spent"}]
  BY <1>5 DEF Claims
<1>6. QED
  BY <1>1, <1>2, <1>3, <1>4, <1>5 DEF SocketService, Claims

\* What is seen of a reply is the reply, or nothing.
LEMMA SightsAreOf ==
  ASSUME NEW reply, NEW d, NEW sight \in Sights(reply, d)
  PROVE  sight = reply \/ Lost(sight)
  BY DEF Sights, Lost

\* Where Socket's client goes after an answer, and when it counts an attempt.
LEMMA SocketAnswerLegs ==
  ASSUME pc = "send", NEW sight, NEW t, SocketAnswered(sight, t)
  PROVE  \/ pc' \in {"send", "publish", "closed"} /\ tries' = tries
         \/ pc' = "assert" /\ tries' = tries + 1 /\ tries # ASSERTION_ATTEMPTS - 1
         \/ pc' = "assert" /\ tries' = tries /\ sight = "limited"
<1>1. ASSUME FreshAssertion(t)
      PROVE  \/ pc' = "closed" /\ tries' = tries
             \/ pc' = "assert" /\ tries' = tries + 1 /\ tries # ASSERTION_ATTEMPTS - 1
  BY <1>1 DEF FreshAssertion, Fail, Begin, loops
<1>2. ASSUME NEW u, Fail(u) PROVE pc' = "closed" /\ tries' = tries
  BY <1>2 DEF Fail, loops
<1>3. ASSUME NEW u, Again(u) PROVE pc' = "send" /\ tries' = tries
  BY <1>3 DEF Again
<1>4. ASSUME NEW u, tries' = tries, Begin(IF IsProviderRateLimited(sight) THEN "assert" ELSE "send", u, until)
      PROVE  tries' = tries /\ (pc' = "send" \/ (pc' = "assert" /\ sight = "limited"))
  BY <1>4 DEF Begin, IsProviderRateLimited
<1>5. CASE Begin("publish", t, until) /\ tries' = tries
  BY <1>5 DEF Begin
<1>6. QED
  BY <1>1, <1>2, <1>3, <1>4, <1>5 DEF SocketAnswered

\* Where it goes after asking for an assertion.
LEMMA SocketAssertLegs ==
  ASSUME pc = "assert", NEW sight, NEW t, SocketAsserted(sight, t)
  PROVE  \/ sight = "ok" /\ pc' = "send" /\ tries' = tries
         \/ sight # "ok" /\ pc' = "closed" /\ tries' = tries
         \/ sight # "ok" /\ pc' = "assert" /\ tries' = tries
         \/ sight # "ok" /\ pc' = "assert" /\ tries' = tries + 1 /\ tries # ASSERTION_ATTEMPTS - 1
<1>1. ASSUME FreshAssertion(t)
      PROVE  \/ pc' = "closed" /\ tries' = tries
             \/ pc' = "assert" /\ tries' = tries + 1 /\ tries # ASSERTION_ATTEMPTS - 1
  BY <1>1 DEF FreshAssertion, Fail, Begin, loops
<1>2. ASSUME NEW u, Fail(u) PROVE pc' = "closed" /\ tries' = tries
  BY <1>2 DEF Fail, loops
<1>3. ASSUME NEW u, Again(u) PROVE pc' = "assert" /\ tries' = tries
  BY <1>3 DEF Again
<1>4. CASE sight = "ok"
  BY <1>4 DEF SocketAsserted, Begin
<1>5. CASE sight = "invalid"
  BY <1>2, <1>5 DEF SocketAsserted
<1>6. CASE sight \notin {"ok", "invalid"}
  <2>1. PICK turn \in HttpRetry(until - t) :
          CASE turn.then = "wait" -> Again(t + turn.delay)
            [] turn.then = "give" ->
                 IF sight = "timeout" THEN FreshAssertion(t) ELSE Fail(t)
    BY <1>6 DEF SocketAsserted
  <2>2. turn.then \in {"wait", "give"}
    BY DEF HttpRetry, Retry, Give, Wait
  <2>3. QED
    BY <1>1, <1>2, <1>3, <1>6, <2>1, <2>2
<1>7. QED
  BY <1>4, <1>5, <1>6

\* Socket's exchange makes at most one credential for each of its attempts.
LEMMA SocketKeepsMints ==
  ASSUME MintInv, SocketAssert \/ SocketSend
  PROVE  MintInv'
<1>1. client = "socket" /\ client' = client /\ SocketMints /\ mints \in Nat
  BY DEF SocketAssert, SocketSend, MintInv
<1>2. tries \in 0 .. ASSERTION_ATTEMPTS - 1 /\ claim \in Claims /\ ASSERTION_ATTEMPTS \in Nat
  BY <1>1, SocketConstants DEF SocketMints
<1> SUFFICES SocketMints' /\ CredentialsBounded' /\ mints' \in Nat
  BY <1>1 DEF MintInv
<1>3. CASE Fail(now) /\ UNCHANGED held
  <2>1. pc' = "closed" /\ UNCHANGED <<client, held, tries>>
    BY <1>1, <1>3 DEF Fail, loops
  <2>2. MintInv'
    BY <2>1, HeldKeepsMints DEF MainLegs
  <2>3. QED
    BY <1>1, <2>2 DEF MintInv
<1>4. CASE SocketAssert /\ ~(Fail(now) /\ UNCHANGED held)
  <2>0. PICK d \in SocketTime :
          \E sight \in OidcSights(d) : OidcAnswered(sight) /\ SocketAsserted(sight, now + d)
    BY <1>4 DEF SocketAssert
  <2>1. PICK sight \in OidcSights(d) : OidcAnswered(sight) /\ SocketAsserted(sight, now + d)
    BY <2>0
  <2>2. pc = "assert" /\ mints + (IF claim = "pending" THEN 1 ELSE 0) <= tries
    BY <1>1, <1>4 DEF SocketAssert, SocketMints
  <2>3. CASE sight = "ok"
    <3>1. /\ claim' = "new" /\ mints' \in {mints} \cup IF claim = "pending" THEN {mints + 1} ELSE {}
          /\ pc' = "send" /\ tries' = tries
      BY <2>1, <2>2, <2>3, SocketAssertLegs DEF OidcAnswered, NewAssertion
    <3>2. mints' \in Nat /\ mints' <= tries
      <4>1. CASE claim = "pending"
        <5>1. mints + 1 <= tries /\ mints' \in {mints, mints + 1}
          BY <2>2, <3>1, <4>1
        <5>2. QED
          BY <1>1, <1>2, <5>1
      <4>2. CASE claim # "pending"
        BY <1>1, <1>2, <2>2, <3>1, <4>2
      <4>3. QED
        BY <4>1, <4>2
    <3>3. QED
      BY <1>1, <1>2, <3>1, <3>2 DEF SocketMints, CredentialsBounded, Claims
  <2>4. CASE sight # "ok"
    <3>1. UNCHANGED <<claim, mints>>
      BY <2>1, <2>4 DEF OidcAnswered, held
    <3>2. /\ pc' \in {"assert", "closed"}
          /\ tries' = tries \/ (tries' = tries + 1 /\ tries # ASSERTION_ATTEMPTS - 1)
      BY <2>1, <2>2, <2>4, SocketAssertLegs
    <3>3. tries' \in 0 .. ASSERTION_ATTEMPTS - 1 /\ tries <= tries'
      BY <1>2, <3>2
    <3>4. mints' + (IF claim' = "pending" THEN 1 ELSE 0) <= tries' /\ mints' <= ASSERTION_ATTEMPTS
      <4>1. CASE claim = "pending"
        BY <1>1, <1>2, <2>2, <3>1, <3>3, <4>1
      <4>2. CASE claim # "pending"
        BY <1>1, <1>2, <2>2, <3>1, <3>3, <4>2
      <4>3. QED
        BY <4>1, <4>2
    <3>5. SocketMints'
      BY <1>2, <3>1, <3>2, <3>3, <3>4 DEF SocketMints
    <3>6. QED
      BY <1>1, <3>1, <3>4, <3>5 DEF CredentialsBounded
  <2>5. QED
    BY <2>3, <2>4
<1>5. CASE SocketSend /\ ~(Fail(now) /\ UNCHANGED held)
  <2>1. PICK d \in SocketTime, effect \in SocketService :
          \E sight \in Sights(effect.answer, d) :
            Exchanged(effect, sight) /\ SocketAnswered(sight, now + d)
    BY <1>5 DEF SocketSend
  <2>2. PICK sight \in Sights(effect.answer, d) :
          Exchanged(effect, sight) /\ SocketAnswered(sight, now + d)
    BY <2>1
  <2>3. pc = "send" /\ mints <= IF claim = "minted" THEN tries + 1 ELSE tries
    BY <1>1, <1>5 DEF SocketSend, SocketMints
  <2>4. /\ claim' = effect.claim /\ mints' \in Nat
        /\ mints' = IF claim' = "minted" /\ claim # "minted" THEN mints + 1 ELSE mints
    BY <1>1, <2>2, ExchangeCounts
  <2>5. /\ claim \in {"minted", "spent"} => claim' = claim
        /\ effect.answer = "limited" => claim = "new" /\ claim' = "spent"
        /\ claim' \in Claims
    BY <1>2, <2>4, SocketServiceAnswers
  <2>6. mints' <= IF claim' = "minted" THEN tries + 1 ELSE tries
    <3>1. CASE claim = "minted"
      BY <2>3, <2>4, <2>5, <3>1
    <3>2. CASE claim # "minted"
      BY <1>1, <1>2, <2>3, <2>4, <3>2
    <3>3. QED
      BY <3>1, <3>2
  <2>7. sight = "limited" => claim' = "spent"
    BY <2>2, <2>5, SightsAreOf DEF Lost
  <2>8. \/ pc' \in {"send", "publish", "closed"} /\ tries' = tries
        \/ pc' = "assert" /\ tries' = tries + 1 /\ tries # ASSERTION_ATTEMPTS - 1
        \/ pc' = "assert" /\ tries' = tries /\ claim' = "spent"
    BY <2>2, <2>3, <2>7, SocketAnswerLegs
  <2>9. tries' \in 0 .. ASSERTION_ATTEMPTS - 1
    BY <1>2, <2>8
  <2>10. CredentialsBounded'
    BY <1>1, <1>2, <2>4, <2>6 DEF CredentialsBounded
  <2>11. pc' \in {"status", "assert"} => mints' + (IF claim' = "pending" THEN 1 ELSE 0) <= tries'
    BY <1>2, <2>4, <2>6, <2>8
  <2>12. pc' = "send" => mints' <= IF claim' = "minted" THEN tries' + 1 ELSE tries'
    BY <2>6, <2>8
  <2>13. QED
    BY <2>4, <2>5, <2>9, <2>10, <2>11, <2>12 DEF SocketMints
<1>6. QED
  BY <1>3, <1>4, <1>5

\* StepSecurity's exchange makes one credential at most.
LEMMA StepKeepsMints ==
  ASSUME MintInv, StepAssert \/ StepSend
  PROVE  MintInv'
<1>1. client = "stepsecurity" /\ client' = client /\ StepMints /\ mints \in Nat
  BY DEF StepAssert, StepSend, MintInv
<1>2. claim \in {"new", "minted"} /\ mints = IF claim = "minted" THEN 1 ELSE 0
  BY <1>1 DEF StepMints
<1> SUFFICES StepMints'
  <2>1. StepMints' => mints' \in Nat /\ mints' <= 1
    BY DEF StepMints
  <2>2. QED
    BY <1>1, <2>1 DEF MintInv, CredentialsBounded
<1>3. CASE UNCHANGED held /\ pc' \in {pc, "closed"}
  BY <1>1, <1>2, <1>3 DEF held, StepMints
<1>4. CASE StepAssert
  <2>1. pc = "assert" /\ claim = "new"
    BY <1>1, <1>4 DEF StepAssert, StepMints
  <2>2. CASE Fail(now) /\ UNCHANGED held
    BY <1>3, <2>2 DEF Fail
  <2>3. CASE ~(Fail(now) /\ UNCHANGED held)
    <3>0. PICK d \in SocketTime :
            \E sight \in OidcSights(d) : OidcAnswered(sight) /\ StepAsserted(sight, now + d)
      BY <1>4, <2>3 DEF StepAssert
    <3>1. PICK sight \in OidcSights(d) : OidcAnswered(sight) /\ StepAsserted(sight, now + d)
      BY <3>0
    <3>2. CASE sight = "ok"
      <4>1. pc' = "send" /\ claim' = "new" /\ mints' = mints
        BY <2>1, <3>1, <3>2 DEF StepAsserted, Begin, OidcAnswered, NewAssertion
      <4>2. QED
        BY <1>2, <2>1, <4>1 DEF StepMints
    <3>3. CASE sight # "ok"
      <4>1. UNCHANGED held
        BY <3>1, <3>3 DEF OidcAnswered
      <4>2. pc' \in {pc, "closed"}
        BY <3>1, <3>3 DEF StepAsserted, Again, Fail
      <4>3. QED
        BY <1>3, <4>1, <4>2
    <3>4. QED
      BY <3>2, <3>3
  <2>4. QED
    BY <2>2, <2>3
<1>5. CASE StepSend
  <2>1. pc = "send"
    BY <1>5 DEF StepSend
  <2>2. CASE Fail(now) /\ UNCHANGED held
    BY <1>3, <2>2 DEF Fail
  <2>3. CASE ~(Fail(now) /\ UNCHANGED held)
    <3>1. PICK d \in SocketTime, effect \in StepSecurityService :
            \E sight : Exchanged(effect, sight) /\ StepAnswered(sight, now + d)
      BY <1>5, <2>3 DEF StepSend
    <3>2. PICK sight : Exchanged(effect, sight) /\ StepAnswered(sight, now + d)
      BY <3>1
    <3>3. effect.claim \in {claim, "minted"}
      BY DEF StepSecurityService
    <3>4. /\ claim' = effect.claim
          /\ mints' = IF claim' = "minted" /\ claim # "minted" THEN mints + 1 ELSE mints
      BY <1>1, <3>2, ExchangeCounts
    <3>5. pc' \in {"send", "publish", "closed"}
      BY <2>1, <3>2 DEF StepAnswered, Begin, Fail, Again
    <3>6. QED
      BY <1>2, <3>3, <3>4, <3>5 DEF StepMints
  <2>4. QED
    BY <2>2, <2>3
<1>6. QED
  BY <1>4, <1>5

\* The GitHub client's outer retry asks again or fails.
LEMMA RetryExchangeLegs ==
  ASSUME NEW sight, NEW leg, NEW t, RetryExchange(t, sight, leg)
  PROVE  pc' = leg \/ pc' = "closed"
  BY DEF RetryExchange, Begin, Fail

\* A count within a bound is within a greater one.
LEMMA BoundGrows ==
  ASSUME NEW count \in Nat, NEW bound \in Nat, NEW later \in Nat, bound <= later
  PROVE  /\ count <= 1 + bound => count <= 1 + later
         /\ count <= bound => count <= later /\ count <= 1 + later /\ count + 1 <= 1 + later
  OBVIOUS

\* GitHub's exchange makes at most one more than there are late rate limits.
LEMMA GithubKeepsMints ==
  ASSUME MintInv, GithubOidc \/ GithubSend
  PROVE  MintInv'
<1>1. client = "github" /\ client' = client /\ GithubMints /\ CredentialsBounded /\ mints \in Nat
  BY DEF GithubOidc, GithubSend, MintInv
<1>2. /\ claim \in {"new", "minted"} /\ lateLimits \in Nat /\ unsure \in BOOLEAN
      /\ mints <= 1 + lateLimits
  BY <1>1 DEF GithubMints, CredentialsBounded
<1> SUFFICES GithubMints' /\ CredentialsBounded' /\ mints' \in Nat
  BY <1>1 DEF MintInv
<1>3. CASE UNCHANGED held /\ pc' = "closed"
  <2>1. UNCHANGED <<claim, unsure, mints, lateLimits>>
    BY <1>3 DEF held
  <2>2. QED
    BY <1>1, <1>2, <1>3, <2>1 DEF GithubMints, CredentialsBounded
<1>4. CASE GithubOidc
  <2>1. pc \in {"oidc", "refresh"} /\ mints <= lateLimits
    BY <1>1, <1>4 DEF GithubOidc, GithubMints
  <2>2. CASE Fail(now) /\ UNCHANGED held
    BY <1>3, <2>2 DEF Fail
  <2>3. CASE ~(Fail(now) /\ UNCHANGED held)
    <3>0. PICK d \in GithubTime :
            \E sight \in OidcSights(d) : OidcAnswered(sight) /\ GithubAsserted(sight, now + d)
      BY <1>4, <2>3 DEF GithubOidc
    <3>1. PICK sight \in OidcSights(d) : OidcAnswered(sight) /\ GithubAsserted(sight, now + d)
      BY <3>0
    <3>2. CASE sight = "ok"
      <4>1. /\ pc' = "send" /\ claim' = "new" /\ unsure' = FALSE
            /\ mints' = mints /\ lateLimits' = lateLimits
        BY <1>2, <3>1, <3>2 DEF GithubAsserted, Begin, OidcAnswered, NewAssertion
      <4>2. GithubMints'
        BY <1>2, <2>1, <4>1 DEF GithubMints
      <4>3. QED
        BY <1>1, <1>2, <4>1, <4>2 DEF CredentialsBounded
    <3>3. CASE sight # "ok"
      <4>1. UNCHANGED <<claim, unsure, mints, lateLimits>>
        BY <3>1, <3>3 DEF OidcAnswered, held
      <4>2. pc' \in {"oidc", "refresh", "closed"}
        <5>1. PICK turn \in GithubRetry(attempt, Lost(sight) \/ GithubTransient(sight), sight, until - (now + d)) :
                CASE turn.then = "wait" -> Again(now + d + turn.delay)
                  [] turn.then = "expired" -> Fail(now + d)
                  [] turn.then = "give" ->
                       IF pc = "oidc" THEN Fail(now + d) ELSE RetryExchange(now + d, "reset", "refresh")
          BY <3>1, <3>3 DEF GithubAsserted
        <5>2. turn.then \in {"wait", "expired", "give"}
          BY GithubRetryKinds
        <5>3. ASSUME NEW u, Again(u) PROVE pc' = pc
          BY <5>3 DEF Again
        <5>4. ASSUME NEW u, Fail(u) PROVE pc' = "closed"
          BY <5>4 DEF Fail
        <5>5. QED
          BY <2>1, <5>1, <5>2, <5>3, <5>4, RetryExchangeLegs
      <4>3. GithubMints'
        BY <1>2, <2>1, <4>1, <4>2 DEF GithubMints
      <4>4. QED
        BY <1>1, <1>2, <4>1, <4>3 DEF CredentialsBounded
    <3>4. QED
      BY <3>2, <3>3
  <2>4. QED
    BY <2>2, <2>3
<1>5. CASE GithubSend
  <2>1. /\ pc = "send" /\ (claim = "minted" => unsure)
        /\ (claim # "minted" => mints <= lateLimits)
    BY <1>1, <1>5 DEF GithubSend, GithubMints
  <2>2. CASE Fail(now) /\ UNCHANGED held
    BY <1>3, <2>2 DEF Fail
  <2>3. CASE ~(Fail(now) /\ UNCHANGED held)
    <3>1. PICK d \in GithubTime, effect \in GithubService :
            \E sight \in Sights(effect.answer, d) :
              Exchanged(effect, sight) /\ GithubAnswered(sight, now + d)
      BY <1>5, <2>3 DEF GithubSend
    <3>2. PICK sight \in Sights(effect.answer, d) :
            Exchanged(effect, sight) /\ GithubAnswered(sight, now + d)
      BY <3>1
    <3>3. effect.claim \in {claim, "minted"} /\ (effect.answer = "429" => effect.claim = claim)
      BY DEF GithubService
    <3>4. /\ claim' = effect.claim /\ mints' \in Nat
          /\ mints' = IF claim' = "minted" /\ claim # "minted" THEN mints + 1 ELSE mints
      BY <1>1, <3>2, ExchangeCounts
    <3>5. sight = "429" => claim' = claim
      BY <3>2, <3>3, <3>4, SightsAreOf DEF Lost
    <3>6. /\ lateLimits' \in {lateLimits, lateLimits + 1}
          /\ unsure /\ sight = "429" => lateLimits' = lateLimits + 1
      BY <3>2 DEF Exchanged
    <3>7. unsure' \in BOOLEAN /\ (unsure \/ Lost(sight) \/ sight = "transient" => unsure' = TRUE)
      BY <3>2 DEF Exchanged
    <3>8. /\ mints' <= 1 + lateLimits'
          /\ claim' # "minted" => mints' <= lateLimits'
      <4>1. /\ lateLimits \in Nat /\ lateLimits' \in Nat /\ lateLimits <= lateLimits'
            /\ mints \in Nat /\ mints <= 1 + lateLimits
        BY <1>1, <1>2, <3>6
      <4>2. CASE claim = "minted"
        <5>1. mints' = mints /\ claim' = "minted"
          BY <3>3, <3>4, <4>2
        <5>2. QED
          BY <4>1, <5>1, BoundGrows
      <4>3. CASE claim # "minted"
        <5>1. mints <= lateLimits
          BY <2>1, <4>3
        <5>2. CASE claim' = "minted"
          <6>1. mints' = mints + 1
            BY <3>4, <4>3, <5>2
          <6>2. QED
            BY <4>1, <5>1, <5>2, <6>1, BoundGrows
        <5>3. CASE claim' # "minted"
          <6>1. mints' = mints
            BY <3>4, <5>3
          <6>2. QED
            BY <4>1, <5>1, <6>1, BoundGrows
        <5>4. QED
          BY <5>2, <5>3
      <4>4. QED
        BY <4>2, <4>3
    <3>9. /\ pc' \in {"send", "refresh", "publish", "closed"}
          /\ pc' = "send" => Lost(sight) \/ sight = "transient"
          /\ pc' = "refresh" => sight = "429"
      <4>1. CASE Begin("publish", now + d, until) \/ Fail(now + d)
        BY <4>1 DEF Begin, Fail
      <4>2. CASE /\ Lost(sight) \/ GithubTransient(sight)
                 /\ RetryExchange(now + d, sight, IF sight = "429" THEN "refresh" ELSE "send")
        BY <4>2, RetryExchangeLegs DEF GithubTransient
      <4>3. QED
        BY <3>2, <4>1, <4>2 DEF GithubAnswered
    <3>10. pc' = "refresh" => mints' <= lateLimits'
      BY <1>1, <1>2, <2>1, <3>4, <3>5, <3>6, <3>9
    <3>11. /\ claim' \in {"new", "minted"} /\ lateLimits' \in Nat
           /\ pc' \notin {"status", "oidc"}
      BY <1>2, <3>3, <3>4, <3>6, <3>9
    <3>12. GithubMints'
      <4>1. pc' \in {"status", "oidc", "refresh"} => mints' <= lateLimits'
        BY <3>10, <3>11
      <4>2. pc' = "send" => IF claim' = "minted" THEN unsure' /\ mints' <= 1 + lateLimits'
                            ELSE mints' <= lateLimits'
        <5>1. CASE pc' = "send"
          <6>1. unsure' = TRUE
            BY <3>7, <3>9, <5>1
          <6>2. QED
            BY <3>8, <6>1
        <5>2. QED
          BY <5>1
      <4>3. QED
        BY <3>7, <3>11, <4>1, <4>2 DEF GithubMints
    <3>13. QED
      BY <1>1, <3>4, <3>8, <3>12 DEF CredentialsBounded
  <2>4. QED
    BY <2>2, <2>3
<1>6. QED
  BY <1>4, <1>5

\* Every step of the STS clients keeps the invariant of the count.
LEMMA StsStepKeepsMints ==
  ASSUME MintInv, [StsNext]_stsVars
  PROVE  MintInv'
<1>1. CASE UNCHANGED stsVars
  <2>1. UNCHANGED <<client, held, tries>> /\ pc' = pc
    BY <1>1 DEF stsVars, loops
  <2>2. QED
    BY <2>1, HeldKeepsMints
<1>2. QED
  BY <1>1, StatusKeepsMints, SocketKeepsMints, StepKeepsMints, GithubKeepsMints,
     CloudflareKeepsMints, PostKeepsMints
     DEF StsNext, StsWork, SocketNext, StepNext, GithubNext, CloudflareNext, PostHooks

\* exchangeWithFreshAssertion(), retryExchange(), exchangeWithRetry() of the STS
\* actions and requestDeployment() of the broker's: whatever answers are lost, an
\* exchange leaves no more credentials behind than its assertions, and a run
\* attempt begins one deployment.
THEOREM RequestsAreNotRepeated == ActionsSpec => []RequestsCountOnce
<1>1. ActionsInit => MintInv /\ BrokerInv
  BY ActionsStart, InitMintInv, InitBrokerInv
<1>2. MintInv /\ BrokerInv /\ [ActionsNext]_jobVars => MintInv' /\ BrokerInv'
  BY OneActionSteps, StsStepKeepsMints, BrokerStepKeeps
<1>3. MintInv /\ BrokerInv => RequestsCountOnce
  BY BrokerInvBounds DEF MintInv, RequestsCountOnce
<1>4. QED
  BY <1>1, <1>2, <1>3, PTL DEF ActionsSpec, ActionsNext

-----------------------------------------------------------------------------
(* The STS clients: an assertion that is used up is replaced, no other.   *)

\* What a step may do to the assertion: keep what is known of it, replace it when
\* it is used up, or send it and learn of its answer.
KeepsAssertion ==
  /\ UNCHANGED <<client, assertion, told>>
  /\ pc' \in {"publish", "revoke", "provider", "reconcile", "post_oidc", "closed"} \/ pc' = pc
     \/ (pc = "status" /\ pc' \in {"assert", "oidc"})
TakesAssertion ==
  /\ UNCHANGED client /\ pc \in {"assert", "oidc", "refresh"} /\ pc' = "send"
  /\ told' = "nothing"
SendsAssertion ==
  /\ UNCHANGED <<client, assertion>> /\ pc = "send"
  /\ pc' = "send" => told' \notin UsedUp
  /\ pc' \in {"publish", "closed", "send"} \/ told' \in UsedUp

\* A failed request of an assertion leaves the assertion alone; a new one is
\* untold of.
LEMMA OidcHolds ==
  ASSUME NEW sight, OidcAnswered(sight), UNCHANGED client
  PROVE  /\ sight # "ok" => UNCHANGED <<client, assertion, told>>
         /\ sight = "ok" => told' = "nothing"
  BY DEF OidcAnswered, NewAssertion, held

\* Socket's client keeps, takes or sends its assertion.
LEMMA SocketHandlesAssertion ==
  ASSUME SocketAssert \/ SocketSend
  PROVE  KeepsAssertion \/ TakesAssertion \/ SendsAssertion
<1>1. client = "socket" /\ client' = client /\ UsedUp = {"503", "502", "409", "limited", "timeout"}
  BY DEF SocketAssert, SocketSend, UsedUp
<1>2. CASE Fail(now) /\ UNCHANGED held
  BY <1>1, <1>2 DEF Fail, held, KeepsAssertion
<1>3. ASSUME NEW u, FreshAssertion(u) PROVE pc' \in {"closed", "assert"}
  BY <1>3 DEF FreshAssertion, Fail, Begin
<1>4. CASE SocketAssert /\ ~(Fail(now) /\ UNCHANGED held)
  <2>1. PICK d \in SocketTime :
          \E sight \in OidcSights(d) : OidcAnswered(sight) /\ SocketAsserted(sight, now + d)
    BY <1>4 DEF SocketAssert
  <2>2. PICK sight \in OidcSights(d) : OidcAnswered(sight) /\ SocketAsserted(sight, now + d)
    BY <2>1
  <2>3. IF sight = "ok" THEN pc' = "send" ELSE pc' \in {"closed", "assert"}
    <3>1. CASE sight = "ok"
      BY <2>2, <3>1 DEF SocketAsserted, Begin
    <3>2. CASE sight = "invalid"
      BY <2>2, <3>2 DEF SocketAsserted, Fail
    <3>3. CASE sight \notin {"ok", "invalid"}
      <4>1. PICK turn \in HttpRetry(until - (now + d)) :
              CASE turn.then = "wait" -> Again(now + d + turn.delay)
                [] turn.then = "give" ->
                     IF sight = "timeout" THEN FreshAssertion(now + d) ELSE Fail(now + d)
        BY <2>2, <3>3 DEF SocketAsserted
      <4>2. turn.then \in {"wait", "give"}
        BY DEF HttpRetry, Retry, Give, Wait
      <4>3. QED
        BY <1>3, <1>4, <3>3, <4>1, <4>2 DEF SocketAssert, Again, Fail
    <3>4. QED
      BY <3>1, <3>2, <3>3
  <2>4. QED
    BY <1>1, <1>4, <2>2, <2>3, OidcHolds DEF SocketAssert, KeepsAssertion, TakesAssertion
<1>5. CASE SocketSend /\ ~(Fail(now) /\ UNCHANGED held)
  <2>1. PICK d \in SocketTime, effect \in SocketService :
          \E sight : Exchanged(effect, sight) /\ SocketAnswered(sight, now + d)
    BY <1>5 DEF SocketSend
  <2>2. PICK sight : Exchanged(effect, sight) /\ SocketAnswered(sight, now + d)
    BY <2>1
  <2>3. told' = sight /\ assertion' = assertion /\ pc = "send"
    BY <1>5, <2>2 DEF Exchanged, SocketSend
  <2>4. CASE sight \in {"ok", "invalid"}
    BY <1>1, <2>2, <2>3, <2>4 DEF SocketAnswered, RequiresFreshAssertion, Begin, Fail, SendsAssertion
  <2>5. CASE RequiresFreshAssertion(sight) \/ sight = "timeout"
    <3>1. pc' \in {"closed", "assert"} /\ sight \in UsedUp
      BY <1>1, <1>3, <2>2, <2>5 DEF SocketAnswered, RequiresFreshAssertion
    <3>2. QED
      BY <1>1, <2>3, <3>1 DEF SendsAssertion
  <2>6. CASE sight \in {"429", "pending", "limited"}
    <3>1. pc' = "closed" \/ pc' = IF sight = "limited" THEN "assert" ELSE "send"
      BY <2>2, <2>6 DEF SocketAnswered, RequiresFreshAssertion, IsProviderRateLimited, Begin, Fail
    <3>2. QED
      BY <1>1, <2>3, <2>6, <3>1 DEF SendsAssertion
  <2>7. CASE sight \in {"transient", "denied", "reset"}
    <3>1. pc' \in {"closed", "send"}
      BY <2>2, <2>3, <2>7 DEF SocketAnswered, RequiresFreshAssertion, Again, Fail
    <3>2. QED
      BY <1>1, <2>3, <2>7, <3>1 DEF SendsAssertion
  <2>8. QED
    BY <2>2, <2>4, <2>5, <2>6, <2>7 DEF SocketAnswered
<1>6. QED
  BY <1>2, <1>4, <1>5

\* The GitHub client keeps, takes or sends its assertion.
LEMMA GithubHandlesAssertion ==
  ASSUME GithubOidc \/ GithubSend
  PROVE  KeepsAssertion \/ TakesAssertion \/ SendsAssertion

<1>1. client = "github" /\ client' = client /\ UsedUp = {"429"}
  BY DEF GithubOidc, GithubSend, UsedUp
<1>2. CASE Fail(now) /\ UNCHANGED held
  BY <1>1, <1>2 DEF Fail, held, KeepsAssertion
<1>3. ASSUME NEW u, NEW sight, NEW leg, RetryExchange(u, sight, leg) PROVE pc' \in {"closed", leg}
  BY <1>3 DEF RetryExchange, Fail, Begin
<1>4. CASE GithubOidc /\ ~(Fail(now) /\ UNCHANGED held)
  <2>1. PICK d \in GithubTime :
          \E sight \in OidcSights(d) : OidcAnswered(sight) /\ GithubAsserted(sight, now + d)
    BY <1>4 DEF GithubOidc
  <2>2. PICK sight \in OidcSights(d) : OidcAnswered(sight) /\ GithubAsserted(sight, now + d)
    BY <2>1
  <2>3. IF sight = "ok" THEN pc' = "send" ELSE pc' \in {"closed", pc}
    <3>1. CASE sight = "ok"
      BY <2>2, <3>1 DEF GithubAsserted, Begin
    <3>2. CASE sight # "ok"
      <4>1. PICK turn \in GithubRetry(attempt, Lost(sight) \/ GithubTransient(sight), sight, until - (now + d)) :
              CASE turn.then = "wait" -> Again(now + d + turn.delay)
                [] turn.then = "expired" -> Fail(now + d)
                [] turn.then = "give" ->
                     IF pc = "oidc" THEN Fail(now + d) ELSE RetryExchange(now + d, "reset", "refresh")
        BY <2>2, <3>2 DEF GithubAsserted
      <4>2. turn.then \in {"wait", "expired", "give"}
        BY GithubRetryKinds
      <4>3. ASSUME NEW u, Again(u) PROVE pc' = pc
        BY <4>3 DEF Again
      <4>4. ASSUME NEW u, Fail(u) PROVE pc' = "closed"
        BY <4>4 DEF Fail
      <4>5. pc \in {"oidc", "refresh"}
        BY <1>4 DEF GithubOidc
      <4>6. QED
        BY <1>3, <3>2, <4>1, <4>2, <4>3, <4>4, <4>5
    <3>3. QED
      BY <3>1, <3>2
  <2>4. QED
    BY <1>1, <1>4, <2>2, <2>3, OidcHolds DEF GithubOidc, KeepsAssertion, TakesAssertion
<1>5. CASE GithubSend /\ ~(Fail(now) /\ UNCHANGED held)
  <2>1. PICK d \in GithubTime, effect \in GithubService :
          \E sight : Exchanged(effect, sight) /\ GithubAnswered(sight, now + d)
    BY <1>5 DEF GithubSend
  <2>2. PICK sight : Exchanged(effect, sight) /\ GithubAnswered(sight, now + d)
    BY <2>1
  <2>3. told' = sight /\ assertion' = assertion /\ pc = "send"
    BY <1>5, <2>2 DEF Exchanged, GithubSend
  <2>4. \/ pc' \in {"publish", "closed"}
        \/ pc' = IF sight = "429" THEN "refresh" ELSE "send"
    BY <1>3, <2>2 DEF GithubAnswered, Begin, Fail
  <2>5. QED
    BY <1>1, <2>3, <2>4 DEF SendsAssertion
<1>6. QED
  BY <1>2, <1>4, <1>5

\* StepSecurity's client keeps, takes or sends its assertion.
LEMMA StepHandlesAssertion ==
  ASSUME StepAssert \/ StepSend
  PROVE  KeepsAssertion \/ TakesAssertion \/ SendsAssertion
<1>1. client = "stepsecurity" /\ client' = client /\ UsedUp = {}
  BY DEF StepAssert, StepSend, UsedUp
<1>2. CASE Fail(now) /\ UNCHANGED held
  BY <1>1, <1>2 DEF Fail, held, KeepsAssertion
<1>3. CASE StepAssert /\ ~(Fail(now) /\ UNCHANGED held)
  <2>1. PICK d \in SocketTime :
          \E sight \in OidcSights(d) : OidcAnswered(sight) /\ StepAsserted(sight, now + d)
    BY <1>3 DEF StepAssert
  <2>2. PICK sight \in OidcSights(d) : OidcAnswered(sight) /\ StepAsserted(sight, now + d)
    BY <2>1
  <2>3. IF sight = "ok" THEN pc' = "send" ELSE pc' \in {"closed", pc}
    BY <2>2 DEF StepAsserted, Begin, Again, Fail
  <2>4. QED
    BY <1>1, <1>3, <2>2, <2>3, OidcHolds DEF StepAssert, KeepsAssertion, TakesAssertion
<1>4. CASE StepSend /\ ~(Fail(now) /\ UNCHANGED held)
  <2>1. PICK d \in SocketTime, effect \in StepSecurityService :
          \E sight : Exchanged(effect, sight) /\ StepAnswered(sight, now + d)
    BY <1>4 DEF StepSend
  <2>2. PICK sight : Exchanged(effect, sight) /\ StepAnswered(sight, now + d)
    BY <2>1
  <2>3. assertion' = assertion /\ pc = "send"
    BY <1>4, <2>2 DEF Exchanged, StepSend
  <2>4. pc' \in {"publish", "closed", "send"}
    BY <2>2, <2>3 DEF StepAnswered, Begin, Again, Fail
  <2>5. UsedUp' = {}
    BY <1>1 DEF UsedUp
  <2>6. QED
    BY <1>1, <2>3, <2>4, <2>5 DEF SendsAssertion
<1>5. QED
  BY <1>2, <1>3, <1>4

\* The Cloudflare client keeps, takes or sends its assertion.
LEMMA CloudflareHandlesAssertion ==
  ASSUME CloudflareOidc \/ CloudflareSend
  PROVE  KeepsAssertion \/ TakesAssertion \/ SendsAssertion
<1>1. client = "cloudflare" /\ client' = client /\ UsedUp = {}
  BY DEF CloudflareOidc, CloudflareSend, UsedUp
<1>2. CASE Fail(now) /\ UNCHANGED held
  BY <1>1, <1>2 DEF Fail, held, KeepsAssertion
<1>3. ASSUME NEW sight, NEW t, NEW leg, NEW deadline, CloudflareAnswered(sight, t, leg, deadline)
      PROVE  IF sight = "ok" THEN pc' = leg ELSE pc' \in {"closed", pc}
  BY <1>3 DEF CloudflareAnswered, Begin, Again, Fail
<1>4. CASE CloudflareOidc /\ ~(Fail(now) /\ UNCHANGED held)
  <2>1. PICK d \in CloudflareTime(REQUEST_TIMEOUT) :
          \E sight \in OidcSights(d) :
            OidcAnswered(sight) /\ CloudflareAnswered(sight, now + d, "send", now + d + RETRY_BUDGET)
    BY <1>4 DEF CloudflareOidc
  <2>2. PICK sight \in OidcSights(d) :
          OidcAnswered(sight) /\ CloudflareAnswered(sight, now + d, "send", now + d + RETRY_BUDGET)
    BY <2>1
  <2>3. IF sight = "ok" THEN pc' = "send" ELSE pc' \in {"closed", pc}
    BY <1>3, <2>2
  <2>4. QED
    BY <1>1, <1>4, <2>2, <2>3, OidcHolds DEF CloudflareOidc, KeepsAssertion, TakesAssertion
<1>5. CASE CloudflareSend /\ ~(Fail(now) /\ UNCHANGED held)
  <2>1. PICK d \in CloudflareTime(EXCHANGE_TIMEOUT), effect \in CloudflareService :
          \E sight : Exchanged(effect, sight) /\ CloudflareAnswered(sight, now + d, "publish", until)
    BY <1>5 DEF CloudflareSend
  <2>2. PICK sight : Exchanged(effect, sight) /\ CloudflareAnswered(sight, now + d, "publish", until)
    BY <2>1
  <2>3. assertion' = assertion /\ pc = "send"
    BY <1>5, <2>2 DEF Exchanged, CloudflareSend
  <2>4. pc' \in {"publish", "closed", "send"}
    BY <1>3, <2>2, <2>3
  <2>5. UsedUp' = {}
    BY <1>1 DEF UsedUp
  <2>6. QED
    BY <1>1, <2>3, <2>4, <2>5 DEF SendsAssertion
<1>6. QED
  BY <1>2, <1>4, <1>5

\* The checks of the service, publication and the post hook.
LEMMA OthersKeepAssertion ==
  ASSUME \/ SocketStatus \/ StepStatus \/ GithubStatus \/ CloudflareStatus
         \/ SocketPublish \/ StepPublish \/ GithubPublish \/ CloudflarePublish
         \/ SocketRevoke \/ StepRevoke \/ GithubRevoke \/ GithubProvider \/ GithubReconcile
         \/ CloudflarePostOidc \/ CloudflareRevoke \/ Expire
  PROVE  KeepsAssertion
<1>1. CASE SocketStatus \/ StepStatus \/ GithubStatus
  <2>1. UNCHANGED <<client, held>> /\ pc = "status" /\ pc' \in {"assert", "oidc", "closed"}
    BY <1>1 DEF SocketStatus, StepStatus, GithubStatus, StatusCheck, Fail, Begin
  <2>2. QED
    BY <2>1 DEF held, KeepsAssertion
<1>2. CASE CloudflareStatus
  <2>1. UNCHANGED <<client, held>> /\ pc = "status" /\ pc' \in {"assert", "oidc", "closed"}
    BY <1>2 DEF CloudflareStatus, StatusCheck, Fail, Begin
  <2>2. QED
    BY <2>1 DEF held, KeepsAssertion
<1>3. CASE SocketPublish \/ StepPublish \/ GithubPublish \/ CloudflarePublish
  BY <1>3 DEF SocketPublish, StepPublish, GithubPublish, CloudflarePublish, Publish, held,
     KeepsAssertion
<1>4. CASE SocketRevoke \/ StepRevoke \/ GithubRevoke \/ GithubProvider \/ GithubReconcile
  <2>1. UNCHANGED <<client, held>> /\ pc' \in {pc, "provider", "reconcile", "closed"}
    BY <1>4 DEF SocketRevoke, StepRevoke, GithubRevoke, GithubProvider, GithubReconcile, Close,
       RevokeAgain, NextRevocation
  <2>2. QED
    BY <2>1 DEF held, KeepsAssertion
<1>5. CASE CloudflarePostOidc \/ CloudflareRevoke
  <2>1. UNCHANGED <<client, held>> /\ pc' \in {pc, "revoke", "closed"}
    BY <1>5 DEF CloudflarePostOidc, CloudflareRevoke, PostFails, PostAgain
  <2>2. QED
    BY <2>1 DEF held, KeepsAssertion
<1>6. CASE Expire
  BY <1>6 DEF Expire, held, KeepsAssertion
<1>7. QED
  BY <1>1, <1>2, <1>3, <1>4, <1>5, <1>6

\* Every step of the STS clients does one of the three.
LEMMA StsStepHandlesAssertion ==
  ASSUME [StsNext]_stsVars
  PROVE  KeepsAssertion \/ TakesAssertion \/ SendsAssertion
<1>1. CASE UNCHANGED stsVars
  BY <1>1 DEF stsVars, held, KeepsAssertion
<1>2. QED
  BY <1>1, SocketHandlesAssertion, StepHandlesAssertion, GithubHandlesAssertion,
     CloudflareHandlesAssertion, OthersKeepAssertion
     DEF StsNext, StsWork, SocketNext, StepNext, GithubNext, CloudflareNext

\* An assertion is replaced when it is used up, and not sent after that.
LEMMA StsStepKeepsAssertions ==
  ASSUME AssertionInv, [StsNext]_stsVars
  PROVE  /\ AssertionInv'
         /\ assertion' # assertion => assertion = 0 \/ told \in UsedUp
         /\ pc = "send" => told \notin UsedUp
<1>1. client' = client /\ UsedUp' = UsedUp
  BY StsStepHandlesAssertion DEF KeepsAssertion, TakesAssertion, SendsAssertion, UsedUp
<1>2. CASE KeepsAssertion
  BY <1>1, <1>2 DEF KeepsAssertion, AssertionInv
<1>3. CASE TakesAssertion
  <2>1. "nothing" \notin UsedUp
    BY DEF UsedUp
  <2>2. QED
    BY <1>1, <1>3, <2>1 DEF TakesAssertion, AssertionInv
<1>4. CASE SendsAssertion
  BY <1>1, <1>4 DEF SendsAssertion, AssertionInv
<1>5. QED
  BY <1>2, <1>3, <1>4, StsStepHandlesAssertion

-----------------------------------------------------------------------------
(* The OIDC caches: what each of them has.                                 *)

\* The caches' invariant holds at the start.
LEMMA InitOidcInv == OidcInit => OidcInv
  BY DEF OidcInit, OidcInv, EntryIsNewest, RetryIsCovered

\* The client of the main process keeps the caches' invariant.
LEMMA OidcClientSteps ==
  ASSUME OidcInv, (\E fresh \in BOOLEAN : Token(fresh)) \/ Fetched \/ FetchFails
  PROVE  OidcInv'
<1> USE DEF Pending, Failed
<1>1. /\ oidcNow \in Nat /\ requests \in Seq(Nat \cup {Pending, Failed}) /\ entry \in {0, Len(requests)}
      /\ Len(requests) \in Nat /\ \A r \in 1 .. Len(requests) : requests[r] \in Nat \cup {Pending, Failed}
  BY DEF OidcInv, EntryIsNewest
<1>2. oidcNow' \in Nat /\ RetryIsCovered'
  BY <1>1, SMTT(30) DEF Token, Fetched, FetchFails, theProvider, OidcInv, RetryIsCovered
<1> SUFFICES EntryIsNewest'
  BY <1>2 DEF OidcInv
<1>3. ASSUME NEW fresh \in BOOLEAN, Token(fresh) PROVE EntryIsNewest'
  <2>1. CASE UNCHANGED <<requests, entry>>
    BY <2>1 DEF OidcInv, EntryIsNewest
  <2>2. CASE requests' = Append(requests, Pending) /\ entry' = Len(requests) + 1
    BY <1>1, <2>2 DEF EntryIsNewest
  <2>3. QED
    BY <1>3, <2>1, <2>2 DEF Token
<1>4. CASE Fetched
  <2>1. PICK r \in 1 .. Len(requests), l \in Lifetimes \cup {FALLBACK} :
          requests[r] = Pending /\ requests' = [requests EXCEPT ![r] = oidcNow + l]
    BY <1>4 DEF Fetched
  <2>2. oidcNow + l \in Nat
    BY <1>1, OidcConstants
  <2>3. /\ requests' \in Seq(Nat \cup {Pending, Failed}) /\ Len(requests') = Len(requests)
        /\ entry' = entry
    BY <1>1, <1>4, <2>1, <2>2 DEF Fetched
  <2>4. CASE requests = <<>>
    BY <1>1, <2>1, <2>4
  <2>5. CASE requests # <<>>
    <3>1. Len(requests) \in 1 .. Len(requests)
      BY <1>1, <2>5
    <3>2. /\ requests'[Len(requests)] = IF r = Len(requests) THEN oidcNow + l ELSE requests[Len(requests)]
      BY <1>1, <2>1, <3>1
    <3>3. IF entry = 0 THEN requests'[Len(requests)] = Failed
          ELSE entry = Len(requests) /\ requests'[Len(requests)] # Failed
      BY <1>1, <2>1, <2>2, <2>5, <3>1, <3>2 DEF OidcInv, EntryIsNewest
    <3>4. QED
      BY <1>1, <2>3, <3>3 DEF EntryIsNewest
  <2>6. QED
    BY <2>4, <2>5
<1>5. CASE FetchFails
  <2>1. PICK r \in 1 .. Len(requests) :
          /\ requests[r] = Pending /\ requests' = [requests EXCEPT ![r] = Failed]
          /\ entry' = IF entry = r THEN 0 ELSE entry
    BY <1>5 DEF FetchFails, Evict
  <2>2. requests' \in Seq(Nat \cup {Pending, Failed}) /\ Len(requests') = Len(requests)
    BY <1>1, <2>1
  <2>3. Len(requests) \in 1 .. Len(requests)
    BY <1>1, <2>1
  <2>4. requests'[Len(requests)] = IF r = Len(requests) THEN Failed ELSE requests[Len(requests)]
    BY <1>1, <2>1, <2>3
  <2>5. IF entry' = 0 THEN requests'[Len(requests)] = Failed
        ELSE entry' = Len(requests) /\ requests'[Len(requests)] # Failed
    <3>1. CASE entry = 0
      <4>1. requests[Len(requests)] = Failed /\ entry' = 0
        BY <1>1, <2>1, <2>3, <3>1 DEF OidcInv, EntryIsNewest
      <4>2. QED
        BY <2>4, <4>1
    <3>2. CASE entry # 0
      <4>1. entry = Len(requests) /\ requests[Len(requests)] # Failed
        BY <1>1, <3>2 DEF OidcInv, EntryIsNewest
      <4>2. QED
        BY <2>1, <2>4, <4>1
    <3>3. QED
      BY <3>1, <3>2
  <2>6. QED
    BY <1>1, <2>2, <2>5 DEF EntryIsNewest
<1>6. QED
  BY <1>3, <1>4, <1>5

\* Every step of the caches keeps their invariant.
LEMMA OidcStepKeeps ==
  ASSUME OidcInv, [OidcNext]_oidcVars
  PROVE  OidcInv'
<1>1. CASE StartProvider
  <2>1. /\ UNCHANGED <<oidcNow, requests, entry, retryAt, loading, failedAt>>
        /\ provider = "off" /\ provider' = "on" /\ expires' \in {0, requests[call.request]}
    BY <1>1 DEF StartProvider, theClient
  <2>2. requests[call.request] > 0 /\ call.request # 0
    BY <1>1 DEF StartProvider
  <2>3. retryAt = 0
    BY <2>1 DEF OidcInv, RetryIsCovered
  <2>4. QED
    BY <2>1, <2>2, <2>3 DEF OidcInv, EntryIsNewest, RetryIsCovered
<1>2. CASE GetToken \/ OidcTick \/ UNCHANGED oidcVars
  <2>1. /\ UNCHANGED <<requests, entry, provider, expires, retryAt, failedAt>>
        /\ oidcNow' \in {oidcNow, oidcNow + 1}
        /\ loading' # loading => provider = "on"
    BY <1>2 DEF GetToken, OidcTick, oidcVars, theClient, theProvider
  <2>2. oidcNow' \in Nat
    BY <2>1 DEF OidcInv
  <2>3. QED
    BY <2>1, <2>2 DEF OidcInv, EntryIsNewest, RetryIsCovered
<1>3. CASE Acquired
  <2>1. /\ UNCHANGED <<oidcNow, requests, entry, provider>> /\ loading
        /\ retryAt' = oidcNow + RETRY_AFTER
        /\ \/ \E l \in Lifetimes : expires' = oidcNow + l /\ failedAt' = failedAt
           \/ failedAt' = oidcNow /\ expires' = expires
    BY <1>3 DEF Acquired, theClient, RetryAt
  <2>2. provider # "off"
    BY <2>1 DEF OidcInv, RetryIsCovered
  <2>3. QED
    BY <2>1, <2>2, OidcConstants DEF OidcInv, EntryIsNewest, RetryIsCovered
<1>4. QED
  BY <1>1, <1>2, <1>3, OidcClientSteps DEF OidcNext

\* The step that ClientServesNewest speaks of.
ServesNewest ==
  /\ call'.request < Len(requests') => call' = call
  /\ Len(requests') > Len(requests) =>
       \/ call'.fresh
       \/ requests = <<>>
       \/ requests[Len(requests)] = Failed
       \/ requests[Len(requests)] \in 0..(oidcNow + MARGIN)

\* An answer that holds an assertion holds the newest one.
LEMMA NewestIsServed ==
  ASSUME OidcInv, OidcNext
  PROVE  ServesNewest
<1> USE DEF Pending, Failed
<1>1. /\ oidcNow \in Nat /\ requests \in Seq(Nat \cup {Pending, Failed}) /\ entry \in {0, Len(requests)}
      /\ Len(requests) \in Nat /\ \A r \in 1 .. Len(requests) : requests[r] \in Nat \cup {Pending, Failed}
  BY DEF OidcInv, EntryIsNewest
<1>2. CASE UNCHANGED <<call, requests>>
  BY <1>1, <1>2 DEF ServesNewest
<1>3. CASE Fetched \/ FetchFails
  <2>1. call' = call /\ Len(requests') = Len(requests)
    BY <1>1, <1>3 DEF Fetched, FetchFails
  <2>2. QED
    BY <1>1, <2>1 DEF ServesNewest
<1>4. ASSUME NEW fresh \in BOOLEAN, Token(fresh) PROVE ServesNewest
  <2>1. CASE ~fresh /\ Reusable
    <3>1. call'.request = entry /\ entry # 0 /\ requests' = requests
      BY <1>4, <2>1 DEF Token, Reusable
    <3>2. QED
      BY <1>1, <3>1 DEF ServesNewest
  <2>2. CASE ~(~fresh /\ Reusable)
    <3>1. /\ requests' = Append(requests, Pending) /\ call' = [fresh |-> fresh, request |-> entry']
          /\ entry' = Len(requests) + 1
      BY <1>4, <2>2 DEF Token
    <3>2. Len(requests') = Len(requests) + 1 /\ call'.request = Len(requests) + 1 /\ call'.fresh = fresh
      BY <1>1, <3>1
    <3>3. CASE fresh \/ entry = 0
      BY <1>1, <3>2, <3>3 DEF ServesNewest, OidcInv, EntryIsNewest
    <3>4. CASE ~fresh /\ entry # 0
      <4>1. entry = Len(requests) /\ entry \in 1 .. Len(requests)
        BY <1>1, <3>4
      <4>2. requests[entry] # Failed /\ requests[entry] # Pending /\ ~(requests[entry] > oidcNow + MARGIN)
        BY <2>2, <3>4 DEF OidcInv, EntryIsNewest, Reusable
      <4>3. requests[entry] \in 0 .. (oidcNow + MARGIN)
        BY <1>1, <4>1, <4>2, OidcConstants
      <4>4. QED
        BY <1>1, <3>2, <4>1, <4>3 DEF ServesNewest
    <3>5. QED
      BY <3>3, <3>4
  <2>3. QED
    BY <2>1, <2>2
<1>5. QED
  BY <1>2, <1>3, <1>4 DEF OidcNext, StartProvider, GetToken, Acquired, OidcTick, theClient

\* An answer without an assertion comes within the retry time of a failure.
LEMMA GapsFollowFailures ==
  ASSUME OidcInv, OidcNext, answer' # answer, answer'[2] = 0
  PROVE  failedAt' >= 0 /\ oidcNow <= failedAt' + RETRY_AFTER
<1>1. oidcNow \in Nat /\ RetryIsCovered
  BY DEF OidcInv
<1>2. CASE GetToken
  <2>1. /\ ~Due /\ failedAt' = failedAt
        /\ answer' = <<oidcNow, IF oidcNow < expires THEN expires ELSE 0>>
    BY <1>2 DEF GetToken, Answer
  <2>2. answer'[2] = IF oidcNow < expires THEN expires ELSE 0
    BY <2>1
  <2>3. expires <= oidcNow
    BY <1>1, <2>2 DEF RetryIsCovered
  <2>4. oidcNow < retryAt
    BY <1>1, <2>1, <2>3, OidcConstants DEF Due, RetryIsCovered
  <2>5. QED
    BY <1>1, <2>1, <2>3, <2>4 DEF RetryIsCovered
<1>3. CASE Acquired
  <2>1. answer'[2] = IF oidcNow < expires' THEN expires' ELSE 0
    BY <1>3 DEF Acquired, Answer
  <2>2. CASE failedAt' = oidcNow
    BY <1>1, <2>2, OidcConstants
  <2>3. ASSUME NEW l \in Lifetimes, expires' = oidcNow + l PROVE FALSE
    <3>1. l \in Nat \ {0}
      BY OidcConstants
    <3>2. QED
      BY <1>1, <2>1, <2>3, <3>1
  <2>4. QED
    BY <1>3, <2>2, <2>3 DEF Acquired
<1>4. QED
  BY <1>2, <1>3 DEF OidcNext, Token, Fetched, FetchFails, StartProvider, OidcTick, theProvider

\* exchangeWithFreshAssertion(), retryExchange(), token() and acquire(): whatever
\* is lost, fails or comes late, an assertion is replaced when it is used up and
\* not before, the newest one is served, and a handshake goes without one only
\* after a failure.
THEOREM AssertionsStayCurrent == ActionsSpec => AssertionsAreCurrent
<1>1. ActionsInit => AssertionInv /\ OidcInv
  BY ActionsStart, InitOidcInv DEF StsInit, AssertionInv
<1>2. AssertionInv /\ OidcInv /\ [ActionsNext]_jobVars => AssertionInv' /\ OidcInv'
  BY OneActionSteps, StsStepKeepsAssertions, OidcStepKeeps
<1>3. AssertionInv /\ [ActionsNext]_jobVars =>
        [ /\ assertion' # assertion => assertion = 0 \/ told \in UsedUp
          /\ pc = "send" => told \notin UsedUp ]_stsVars
  BY OneActionSteps, StsStepKeepsAssertions
<1>4. OidcInv /\ [ActionsNext]_jobVars =>
        [ call' # call \/ requests' # requests =>
            /\ call'.request < Len(requests') => call' = call
            /\ Len(requests') > Len(requests) =>
                 \/ call'.fresh
                 \/ requests = <<>>
                 \/ requests[Len(requests)] = Failed
                 \/ requests[Len(requests)] \in 0..(oidcNow + MARGIN) ]_oidcVars
  BY OneActionSteps, NewestIsServed DEF ServesNewest
<1>5. OidcInv /\ [ActionsNext]_jobVars =>
        [ answer' # answer /\ answer'[2] = 0 =>
            failedAt' >= 0 /\ oidcNow <= failedAt' + RETRY_AFTER ]_oidcVars
  BY OneActionSteps, GapsFollowFailures
<1>6. QED
  BY <1>1, <1>2, <1>3, <1>4, <1>5, PTL
     DEF ActionsSpec, ActionsNext, AssertionsAreCurrent, FreshExactlyWhenUsedUp,
         ClientServesNewest, GapOnlyAfterFailure

-----------------------------------------------------------------------------
(* Numbers: the least one of a set.                                       *)

\* A set of natural numbers that is not empty has a least element.
LEMMA LeastOfNaturals ==
  ASSUME NEW I \in SUBSET Nat, I # {}
  PROVE  Min(I) \in I /\ \A i \in I : Min(I) <= i
<1>1. PICK top \in I : TRUE
  OBVIOUS
<1> DEFINE U == 0 .. top
           Up(i) == {k \in I : k <= i}
           F == {Up(i) : i \in Up(top)}
<1>2. IsFiniteSet(U)
  BY FS_Interval
<1>3. F \subseteq FiniteSubsetsOf(U) /\ Up(top) \in F
  <2>1. ASSUME NEW i \in Up(top)
        PROVE  Up(i) \subseteq U
    <3>1. i \in Nat /\ i <= top /\ top \in Nat /\ \A k \in I : k \in Nat
      BY <1>1
    <3>2. \A k \in Up(i) : k \in Nat /\ k <= i
      BY <3>1
    <3>3. \A k \in Up(i) : k \in U
      BY <3>1, <3>2
    <3> HIDE DEF Up, U
    <3>4. QED
      BY <3>3
  <2>2. \A i \in Up(top) : IsFiniteSet(Up(i))
    BY <1>2, <2>1, FS_Subset
  <2>3. QED
    BY <1>1, <2>1, <2>2 DEF FiniteSubsetsOf
<1>4. PICK A \in F : \A B \in F : ~ (<<B, A>> \in StrictSubsetOrdering(U))
  <2> HIDE DEF F
  <2>1. QED
    BY <1>2, <1>3, FS_StrictSubsetOrderingWellFounded, WFMin
<1>5. PICK m \in Up(top) : A = Up(m)
  BY <1>4
<1>6. ASSUME NEW i \in I, ~ (m <= i)
      PROVE  FALSE
  <2>1. i \in Up(top) /\ i < m
    BY <1>5, <1>6
  <2>2. m \in I /\ m \in Nat /\ i \in Nat /\ \A k \in I : k \in Nat
    BY <1>5
  <2>3. Up(i) \subseteq A
    <3>1. ASSUME NEW k \in Up(i) PROVE k \in A
      <4>1. k \in I /\ k \in Nat /\ k <= i
        BY <2>2
      <4>2. k <= m
        BY <2>1, <2>2, <4>1
      <4>3. QED
        BY <1>5, <4>1, <4>2
    <3> HIDE DEF Up
    <3>2. QED
      BY <3>1
  <2>4. m \in A /\ m \notin Up(i)
    BY <1>5, <2>1, <2>2
  <2>5. Up(i) \in F /\ Up(i) \in SUBSET U /\ A \in SUBSET U
    <3>1. Up(i) \in F
      BY <2>1
    <3> HIDE DEF Up, U, F
    <3>2. QED
      BY <1>3, <1>4, <3>1 DEF FiniteSubsetsOf
  <2>6. <<Up(i), A>> \in StrictSubsetOrdering(U)
    <3> HIDE DEF Up, U, F
    <3>1. QED
      BY <2>3, <2>4, <2>5 DEF StrictSubsetOrdering
  <2>7. QED
    BY <1>4, <2>5, <2>6
<1>7. QED
  BY <1>5, <1>6 DEF Min

-----------------------------------------------------------------------------
(* ensure-secure-runner: what a passing check has seen.                    *)

\* A passing status of a job that has steps: they start with secure-runner,
\* which no condition keeps from running, or are those of a job that checks.
LEMMA PassingSteps ==
  ASSUME NEW steps \in Seq(Steps), StepsStatus(steps) \in PASSING
  PROVE  \/ steps # <<>> /\ UsesMatches(steps[1], accepted) /\ steps[1].cond # "other"
         \/ \A i \in 1 .. Len(steps) : UsesMatches(steps[i], SELF_ACTIONS \cup CHECKOUT_ACTIONS)
<1> DEFINE I == {i \in 1 .. Len(steps) : UsesMatches(steps[i], accepted)}
           place == SelectInSeq(steps, LAMBDA s : UsesMatches(s, accepted))
<1>1. place = IF I # {} THEN Min(I) ELSE 0
  BY DEF SelectInSeq
<1>2. place \in Nat /\ (place # 0 => place \in I)
  <2>1. I \in SUBSET Nat
    OBVIOUS
  <2> HIDE DEF I, place
  <2>2. QED
    BY <1>1, <2>1, LeastOfNaturals
<1>3. StepsStatus(steps) = CASE place = 0 /\ IsCheckerJob(steps) -> "checker"
                             [] place = 0 /\ ~IsCheckerJob(steps) -> "missing"
                             [] place > 1 -> "not-first"
                             [] place = 1 /\ steps[1].cond = "other" -> "conditional"
                             [] place = 1 /\ steps[1].cond # "other" -> "ok"
  BY DEF StepsStatus
<1> HIDE DEF place
<1>4. CASE place = 0
  <2>1. IsCheckerJob(steps)
    BY <1>3, <1>4 DEF PASSING
  <2>2. QED
    BY <2>1 DEF IsCheckerJob
<1>5. CASE place > 1
  BY <1>2, <1>3, <1>5 DEF PASSING
<1>6. CASE place = 1
  <2>1. steps[1].cond # "other"
    BY <1>3, <1>6 DEF PASSING
  <2>2. 1 \in I
    BY <1>2, <1>6
  <2>3. steps # <<>> /\ UsesMatches(steps[1], accepted)
    BY <2>2
  <2>4. QED
    BY <2>1, <2>3
<1>7. place = 0 \/ place = 1 \/ place > 1
  BY <1>2
<1>8. QED
  BY <1>4, <1>5, <1>6, <1>7

\* So a job that passes runs nothing before secure-runner, or only checks.
LEMMA PassingJobs ==
  ASSUME NEW job, NEW scanned, job.steps \in Seq(Steps), job.calls # "nothing" => job.steps = <<>>,
         JobStatus(job, scanned) \in PASSING, MayRunUnprotected(job.steps)
  PROVE  \A s \in ToSet(job.steps) : s.action \in {"checkout", "ensure-secure-runner"}
<1>1. job.calls = "nothing"
  BY DEF MayRunUnprotected
<1>2. StepsStatus(job.steps) \in PASSING
  BY <1>1 DEF JobStatus
<1>3. PICK i \in 1 .. Len(job.steps) :
        /\ ~UsesMatches(job.steps[i], accepted)
        /\ \A k \in 1 .. (i - 1) :
             UsesMatches(job.steps[k], accepted) => job.steps[k].cond = "other"
  BY DEF MayRunUnprotected
<1>4. ~ (UsesMatches(job.steps[1], accepted) /\ job.steps[1].cond # "other")
  <2>1. CASE i = 1
    BY <1>3, <2>1
  <2>2. CASE i # 1
    <3>1. 1 \in 1 .. (i - 1)
      BY <1>3, <2>2
    <3>2. QED
      BY <1>3, <3>1
  <2>3. QED
    BY <2>1, <2>2
<1>5. \A k \in 1 .. Len(job.steps) : UsesMatches(job.steps[k], SELF_ACTIONS \cup CHECKOUT_ACTIONS)
  BY <1>2, <1>4, PassingSteps
<1>6. \A k \in 1 .. Len(job.steps) : job.steps[k].action \in {"checkout", "ensure-secure-runner"}
  BY <1>5 DEF UsesMatches, SELF_ACTIONS, CHECKOUT_ACTIONS
<1>7. QED
  BY <1>6 DEF ToSet

\* What a job is said to be depends on the files and the accepted actions alone.
LEMMA StatusIsKept ==
  ASSUME UNCHANGED <<accepted, found>>, NEW job
  PROVE  JobStatus(job, found)' = JobStatus(job, found)
<1>1. StepsStatus(job.steps)' = StepsStatus(job.steps)
  BY DEF StepsStatus, IsCheckerJob, UsesMatches, SelectInSeq
<1>2. QED
  BY <1>1 DEF JobStatus, CallStatus

\* The check's invariant holds at the start.
LEMMA InitEnsureInv == EnsureInit => EnsureInv
  BY DEF EnsureInit, EnsureInv

\* Every step of the check keeps its invariant.
LEMMA EnsureStepKeeps ==
  ASSUME EnsureInv, [EnsureNext]_ensureVars
  PROVE  EnsureInv'
<1> USE DEF EnsureInv, checkInputs
<1>1. CASE Discover
  <2>1. found' \subseteq Files /\ unread' \subseteq found' /\ found' \ unread' = {}
    BY <1>1, EnsureConstants DEF Discover
  <2>2. text' = text /\ verdict' # "pass"
    BY <1>1 DEF Discover
  <2>3. QED
    BY <2>1, <2>2
<1>2. CASE CheckWorkflow
  <2>1. PICK f \in unread :
          /\ unread' = unread \ {f}
          /\ findings' = findings \cup
               CASE text[f].kind = "manifest" -> {<<f, "none", "not-a-workflow">>}
                 [] text[f].kind = "broken" -> {<<f, "none", "parse-error">>}
                 [] OTHER -> {<<f, j, JobStatus(j, found)>> : j \in text[f].jobs}
          /\ UNCHANGED <<checkInputs, found, verdict>>
    BY <1>2 DEF CheckWorkflow
  <2>2. verdict' # "pass" /\ found' = found /\ text' = text /\ accepted' = accepted
    BY <2>1
  <2>3. \A j : JobStatus(j, found)' = JobStatus(j, found)
    BY <2>2, StatusIsKept
  <2>4. ASSUME NEW g \in found \ unread
        PROVE  FileIsFound(g)'
    <3>1. FileIsFound(g)
      BY <2>4
    <3>2. findings \subseteq findings' /\ text'[g] = text[g]
      BY <2>1, <2>2
    <3>3. QED
      BY <2>3, <3>1, <3>2 DEF FileIsFound
  <2>5. FileIsFound(f)'
    <3>1. WellFormed(text[f])
      BY <2>1, EnsureConstants
    <3>2. CASE text[f].kind = "workflow"
      BY <2>1, <2>2, <2>3, <3>2 DEF FileIsFound
    <3>3. CASE text[f].kind # "workflow"
      BY <2>1, <2>2, <3>1, <3>3 DEF FileIsFound, WellFormed
    <3>4. QED
      BY <3>2, <3>3
  <2>6. QED
    BY <2>1, <2>2, <2>4, <2>5
<1>3. CASE Conclude
  <2>1. UNCHANGED <<accepted, found>>
    BY <1>3 DEF Conclude
  <2>2. QED
    BY <1>3, <2>1, StatusIsKept DEF Conclude, Violations, FileIsFound
<1>4. CASE UNCHANGED ensureVars
  <2>1. UNCHANGED <<accepted, found>>
    BY <1>4 DEF ensureVars
  <2>2. QED
    BY <1>4, <2>1, StatusIsKept DEF ensureVars, Violations, FileIsFound
<1>5. QED
  BY <1>1, <1>2, <1>3, <1>4 DEF EnsureNext

\* A check that passes has found a job of every file that it was to read.
LEMMA EnsureInvSees == EnsureInv => NoUnprotectedPasses
<1>1. SUFFICES ASSUME EnsureInv, verdict = "pass", NEW f \in found
               PROVE  /\ text[f].kind # "broken"
                      /\ \A j \in text[f].jobs : MayRunUnprotected(j.steps) =>
                           \A s \in ToSet(j.steps) :
                             s.action \in {"checkout", "ensure-secure-runner"}
  BY DEF NoUnprotectedPasses
<1>2. FileIsFound(f) /\ \A finding \in findings : finding[3] \in PASSING
  BY <1>1 DEF EnsureInv, Violations
<1>3. text[f].kind # "broken"
  BY <1>2 DEF FileIsFound, PASSING
<1>4. ASSUME NEW j \in text[f].jobs, MayRunUnprotected(j.steps)
      PROVE  \A s \in ToSet(j.steps) : s.action \in {"checkout", "ensure-secure-runner"}
  <2>1. WellFormed(text[f])
    BY <1>1, EnsureConstants DEF EnsureInv
  <2>2. j.steps \in Seq(Steps) /\ (j.calls # "nothing" => j.steps = <<>>)
    BY <1>4, <2>1 DEF WellFormed
  <2>3. JobStatus(j, found) \in PASSING
    BY <1>2, <1>4 DEF FileIsFound
  <2>4. QED
    BY <1>4, <2>2, <2>3, PassingJobs
<1>5. QED
  BY <1>3, <1>4

-----------------------------------------------------------------------------
(* Conditional CI: what a passing gate has seen.                           *)

\* A list that is shorter than the limit lists all changes.
LEMMA HitsFollowChanges ==
  ASSUME IsFiniteSet(changes), NEW shown \in SUBSET changes,
         Cardinality(shown) = Min({maxCompareFiles, Cardinality(changes)}),
         NEW j \in Gated, CompileFilter(filters[j]) \cap Touched(changes) # {}
  PROVE  j \in EvaluateFilters(shown)
<1>1. /\ IsFiniteSet(shown) /\ Cardinality(shown) \in Nat /\ Cardinality(changes) \in Nat
      /\ Cardinality(shown) = Cardinality(changes) => shown = changes
  BY FS_Subset, FS_CardinalityType
<1>2. Cardinality(shown) \in {maxCompareFiles, Cardinality(changes)}
  <2>1. {maxCompareFiles, Cardinality(changes)} \in SUBSET Nat
    BY <1>1, ConditionalConstants
  <2>2. QED
    BY <2>1, LeastOfNaturals
<1>3. CASE Cardinality(shown) = maxCompareFiles
  BY <1>1, <1>3, ConditionalConstants DEF EvaluateFilters
<1>4. CASE Cardinality(shown) = Cardinality(changes)
  <2>1. shown = changes
    BY <1>1, <1>4
  <2>2. QED
    BY <2>1 DEF EvaluateFilters
<1>5. QED
  BY <1>2, <1>3, <1>4

\* The invariant of conditional CI holds at the start.
LEMMA InitCiInv == CiInit => CiInv
  BY DEF CiInit, CiInv, Changes, HitsAreComplete, ResultsFollow, GateHasSeen

\* Every step of conditional CI keeps its invariant.
LEMMA CiStepKeeps ==
  ASSUME CiInv, [CiNext]_ciVars
  PROVE  CiInv'
<1> USE DEF CiInv, ciInputs
<1>1. CASE Detect
  <2>1. /\ IsFiniteSet(changes)' /\ (DOMAIN results = Gated)' /\ results' = results
        /\ detected = "waiting" /\ gate' = gate
    BY <1>1 DEF Detect
  <2>2. HitsAreComplete'
    <3>1. SUFFICES ASSUME detected' = "ok", NEW j \in Gated,
                          (CompileFilter(filters[j]) \cap Touched(changes))' # {}
                   PROVE  j \in hits'
      BY DEF HitsAreComplete
    <3>2. PICK shown \in SUBSET changes :
            /\ Cardinality(shown) = Min({maxCompareFiles, Cardinality(changes)})
            /\ hits' = EvaluateFilters(shown)
      BY <1>1, <3>1 DEF Detect
    <3>3. CompileFilter(filters[j]) \cap Touched(changes) # {}
      BY <1>1, <3>1 DEF Detect, CompileFilter, Touched
    <3>4. QED
      BY <3>2, <3>3, HitsFollowChanges
  <2>3. ResultsFollow' /\ GateHasSeen'
    BY <2>1 DEF ResultsFollow, GateHasSeen
  <2>4. QED
    BY <2>1, <2>2, <2>3
<1>2. CASE RunJob
  <2>1. PICK j \in Gated :
          /\ detected # "waiting" /\ results[j] = "waiting"
          /\ \E r \in IF detected = "ok" /\ j \in hits
                      THEN {"success", "failure", "cancelled"} ELSE {"skipped"} :
               results' = [results EXCEPT ![j] = r]
          /\ UNCHANGED <<ciInputs, detected, hits, gate>>
    BY <1>2 DEF RunJob
  <2>2. HitsAreComplete'
    BY <2>1 DEF HitsAreComplete, CompileFilter, Touched
  <2>3. ResultsFollow'
    BY <2>1 DEF ResultsFollow
  <2>4. GateHasSeen'
    BY <2>1 DEF GateHasSeen
  <2>5. QED
    BY <2>1, <2>2, <2>3, <2>4
<1>3. CASE Evaluate
  BY <1>3 DEF Evaluate, HitsAreComplete, ResultsFollow, GateHasSeen, CompileFilter, Touched,
              Accepted
<1>4. CASE UNCHANGED ciVars
  BY <1>4 DEF ciVars, HitsAreComplete, ResultsFollow, GateHasSeen, CompileFilter, Touched,
              Accepted
<1>5. QED
  BY <1>1, <1>2, <1>3, <1>4 DEF CiNext

\* A gate that passes has seen every job that a filter of it is for.
LEMMA CiInvSees == CiInv => NoChangeSkipped
  BY DEF CiInv, HitsAreComplete, ResultsFollow, GateHasSeen, Accepted, NoChangeSkipped

\* actions/ensure-secure-runner and actions/check-needs with changed-paths: a
\* check that passes has found no job that runs a step before secure-runner, and
\* a gate that passes has seen every job succeed that a change is for, also when
\* GitHub lists only a part of the changes.
THEOREM GatesAreSafe == ActionsSpec => []GatesHold
<1>1. ActionsInit => EnsureInv /\ CiInv
  BY ActionsStart, InitEnsureInv, InitCiInv
<1>2. EnsureInv /\ CiInv /\ [ActionsNext]_jobVars => EnsureInv' /\ CiInv'
  BY OneActionSteps, EnsureStepKeeps, CiStepKeeps
<1>3. EnsureInv /\ CiInv => GatesHold
  BY EnsureInvSees, CiInvSees DEF GatesHold
<1>4. QED
  BY <1>1, <1>2, <1>3, PTL DEF ActionsSpec, ActionsNext

-----------------------------------------------------------------------------
(* skill-sync: lock files and the copies that they stand for.              *)

\* A registered skill is named, and its entry has a plugin and a source.
LEMMA RegisteredIsEntry ==
  ASSUME registry \in Registries, NEW n \in DOMAIN registry
  PROVE  n \in Names /\ registry[n] \in Entries
  BY DEF Registries

\* What a lock file is.
LEMMA LockFileParts ==
  ASSUME NEW l
  PROVE  l \in LockFiles <=>
           /\ l = [n \in DOMAIN l |-> l[n]] /\ DOMAIN l \subseteq Names
           /\ \A n \in DOMAIN l : l[n] \in LockEntries /\ l[n].dest[2] = n
<1>1. ASSUME l \in LockFiles
      PROVE  /\ l = [n \in DOMAIN l |-> l[n]] /\ DOMAIN l \subseteq Names
             /\ \A n \in DOMAIN l : l[n] \in LockEntries /\ l[n].dest[2] = n
  <2>1. PICK N \in SUBSET Names : l \in [N -> LockEntries]
    BY <1>1 DEF LockFiles
  <2> HIDE DEF LockEntries
  <2>2. DOMAIN l = N /\ l = [n \in N |-> l[n]] /\ \A n \in N : l[n] \in LockEntries
    BY <2>1
  <2>3. \A n \in DOMAIN l : l[n].dest[2] = n
    BY <1>1 DEF LockFiles
  <2>4. QED
    BY <2>2, <2>3
<1>2. ASSUME l = [n \in DOMAIN l |-> l[n]], DOMAIN l \subseteq Names,
             \A n \in DOMAIN l : l[n] \in LockEntries /\ l[n].dest[2] = n
      PROVE  l \in LockFiles
  <2>1. l \in [DOMAIN l -> LockEntries]
    BY <1>2
  <2>2. QED
    BY <1>2, <2>1 DEF LockFiles
<1>3. QED
  BY <1>1, <1>2

\* Entries that give a skill a destination under its name.
LockEntriesOf(n) == {e \in LockEntries : e.dest[2] = n}

\* A lock file with one more entry, or a new one, under the name of the skill.
LEMMA LockFileWith ==
  ASSUME NEW l \in LockFiles, NEW n \in Names, NEW e \in LockEntriesOf(n)
  PROVE  /\ WithEntry(l, n, e) \in LockFiles
         /\ DOMAIN WithEntry(l, n, e) = DOMAIN l \cup {n} /\ WithEntry(l, n, e)[n] = e
<1> DEFINE with == WithEntry(l, n, e)
<1>1. with = [m \in DOMAIN l \cup {n} |-> IF m = n THEN e ELSE l[m]]
  BY DEF WithEntry
<1>2. DOMAIN with = DOMAIN l \cup {n} /\ with[n] = e /\ \A m \in DOMAIN l \ {n} : with[m] = l[m]
  BY <1>1
<1>3. DOMAIN l \subseteq Names /\ \A m \in DOMAIN l : l[m] \in LockEntries /\ l[m].dest[2] = m
  BY LockFileParts
<1>4. with = [m \in DOMAIN with |-> with[m]]
  BY <1>1
<1> HIDE DEF with
<1>5. \A m \in DOMAIN with : with[m] \in LockEntries /\ with[m].dest[2] = m
  BY <1>2, <1>3 DEF LockEntriesOf
<1>6. with \in LockFiles
  BY <1>2, <1>3, <1>4, <1>5, LockFileParts
<1>7. QED
  BY <1>2, <1>6 DEF with

\* A lock file without one of its entries.
LEMMA LockFileWithout ==
  ASSUME NEW l \in LockFiles, NEW n
  PROVE  /\ Restrict(l, DOMAIN l \ {n}) \in LockFiles
         /\ DOMAIN Restrict(l, DOMAIN l \ {n}) = DOMAIN l \ {n}
         /\ \A m \in DOMAIN l \ {n} : Restrict(l, DOMAIN l \ {n})[m] = l[m]
<1> DEFINE without == Restrict(l, DOMAIN l \ {n})
<1>1. without = [m \in DOMAIN l \ {n} |-> l[m]]
  BY DEF Restrict
<1>2. DOMAIN without = DOMAIN l \ {n} /\ \A m \in DOMAIN without : without[m] = l[m]
  BY <1>1
<1>3. DOMAIN l \subseteq Names /\ \A m \in DOMAIN l : l[m] \in LockEntries /\ l[m].dest[2] = m
  BY LockFileParts
<1>4. without = [m \in DOMAIN without |-> without[m]]
  BY <1>1
<1> HIDE DEF without
<1>5. without \in LockFiles
  BY <1>2, <1>3, <1>4, LockFileParts
<1>6. QED
  BY <1>2, <1>5 DEF without

\* The entry that a run writes for a registered skill, under a template that
\* has its name.
LEMMA LockEntryIsOwn ==
  ASSUME "name" \in Template, upstream \in [Sources -> Contents],
         NEW n \in Names, NEW skill \in Entries
  PROVE  /\ RenderDest(n, skill) \in Dests /\ RenderDest(n, skill)[2] = n
         /\ Tree(n, skill) \in Trees
         /\ LockEntry(n, skill) \in LockEntries /\ LockEntry(n, skill).dest[2] = n
<1>1. skill.plugin \in Plugins /\ skill.source \in Sources
  BY DEF Entries
<1>2. RenderDest(n, skill) \in Dests /\ RenderDest(n, skill)[2] = n
  BY <1>1 DEF RenderDest, Dests
<1>3. Tree(n, skill) \in Trees
  BY <1>1 DEF Tree, Trees
<1>4. LockEntry(n, skill) \in LockEntries
  BY <1>1, <1>2, <1>3 DEF LockEntry, LockEntries
<1>5. LockEntry(n, skill).dest = RenderDest(n, skill)
  BY DEF LockEntry
<1>6. QED
  BY <1>2, <1>3, <1>4, <1>5

\* The invariant of skill-sync holds at the start.
LEMMA InitSyncInv == SyncInit => SyncInv
<1>1. SUFFICES ASSUME SyncInit PROVE SyncInv
  OBVIOUS
<1>2. <<>> \in LockFiles
  <2>1. <<>> = [n \in {} |-> <<>>[n]] /\ DOMAIN <<>> = {}
    OBVIOUS
  <2>2. QED
    BY <2>1, LockFileParts
<1>3. upstream \in [Sources -> Contents]
  BY <1>1, SyncConstants DEF SyncInit
<1>4. disk \in [Dests -> Trees \cup {NoTree, Foreign}]
  BY <1>1 DEF SyncInit
<1>5. RepositoryIsKept
  BY <1>1, <1>2, <1>3, <1>4 DEF SyncInit, RepositoryIsKept
<1>6. QED
  BY <1>1, <1>5 DEF SyncInit, SyncInv

\* A run starts from the lock file that it finds.
LEMMA StartKeepsSync ==
  ASSUME SyncInv, SyncStart
  PROVE  SyncInv'
<1>1. RepositoryIsKept'
  BY DEF SyncInv, SyncStart, RepositoryIsKept, repository, sources
<1>2. phase' \in {"sync", "failed"}
  BY DEF SyncStart, End
<1>3. RunIsHalfway'
  BY DEF SyncStart, RunIsHalfway, Selected, repository, sources
<1>4. QED
  BY <1>1, <1>2, <1>3 DEF SyncInv

\* A copy that is written disturbs no other: each is under its own name.
LEMMA EntryKeepsSync ==
  ASSUME "name" \in Template, SyncInv, SyncEntry
  PROVE  SyncInv'
<1>1. PICK n \in todo :
        /\ todo' = todo \ {n}
        /\ IF Unchanged(n, registry[n])
           THEN UNCHANGED <<disk, next, changed>>
           ELSE /\ disk' = Written(n, registry[n])
                /\ next' = WithEntry(next, n, LockEntry(n, registry[n]))
                /\ changed' = TRUE
  BY DEF SyncEntry
<1>2. /\ phase = "sync" /\ RepositoryIsKept /\ RunIsHalfway
      /\ UNCHANGED <<lock, index, registry, upstream, phase, only, previous>>
  BY DEF SyncEntry, SyncInv, sources
<1>3. n \in Selected /\ n \in DOMAIN registry /\ n \in Names /\ registry[n] \in Entries
  BY <1>1, <1>2, RegisteredIsEntry DEF RunIsHalfway, RepositoryIsKept, Selected
<1>4. /\ RenderDest(n, registry[n]) \in Dests /\ RenderDest(n, registry[n])[2] = n
      /\ Tree(n, registry[n]) \in Trees
      /\ LockEntry(n, registry[n]) \in LockEntries /\ LockEntry(n, registry[n]).dest[2] = n
  BY <1>2, <1>3, LockEntryIsOwn DEF RepositoryIsKept
<1>5. /\ Selected' = Selected
      /\ \A m \in Selected : /\ RenderDest(m, registry[m])' = RenderDest(m, registry[m])
                             /\ Tree(m, registry[m])' = Tree(m, registry[m])
                             /\ LockEntry(m, registry[m])' = LockEntry(m, registry[m])
  BY <1>2 DEF Selected, RenderDest, Tree, LockEntry
<1>6. CASE Unchanged(n, registry[n])
  <2>1. UNCHANGED <<disk, next, changed>>
    BY <1>1, <1>6
  <2>2. RepositoryIsKept'
    BY <1>2, <2>1 DEF RepositoryIsKept
  <2>3. InLine(n, next)
    <3>1. n \in DOMAIN next /\ next[n] = previous[n] /\ next[n] \in LockEntries
      <4>1. n \in DOMAIN lock /\ previous = lock
        BY <1>2, <1>6 DEF Unchanged, RunIsHalfway
      <4>2. n \in DOMAIN next /\ next[n] = lock[n]
        BY <1>1, <1>2, <4>1 DEF RunIsHalfway
      <4>3. QED
        BY <1>2, <4>1, <4>2, LockFileParts DEF RepositoryIsKept
    <3>2. /\ next[n].source = registry[n].source /\ next[n].dest = RenderDest(n, registry[n])
          /\ next[n].digest = Tree(n, registry[n])
          /\ disk[RenderDest(n, registry[n])] = Tree(n, registry[n])
      BY <1>6, <3>1 DEF Unchanged
    <3>3. next[n] = [LockEntry(n, registry[n]) EXCEPT !.plugin = next[n].plugin]
      BY <3>1, <3>2 DEF LockEntry, LockEntries
    <3>4. QED
      BY <3>1, <3>2, <3>3 DEF InLine
  <2>4. \A m \in Selected : InLine(m, next)' = InLine(m, next)
    BY <1>5, <2>1 DEF InLine
  <2>5. RunIsHalfway'
    BY <1>1, <1>2, <1>5, <2>1, <2>3, <2>4 DEF RunIsHalfway
  <2>6. QED
    BY <1>2, <2>2, <2>5 DEF SyncInv
<1>7. CASE ~Unchanged(n, registry[n])
  <2>1. /\ disk' = Written(n, registry[n]) /\ changed' = TRUE
        /\ next' = WithEntry(next, n, LockEntry(n, registry[n]))
    BY <1>1, <1>7
  <2>2. /\ next' \in LockFiles /\ DOMAIN next' = DOMAIN next \cup {n}
        /\ next'[n] = LockEntry(n, registry[n])
        /\ \A m \in DOMAIN next \ {n} : next'[m] = next[m]
    <3> DEFINE e == LockEntry(n, registry[n])
    <3>1. next \in LockFiles /\ n \in Names /\ e \in LockEntriesOf(n)
      BY <1>2, <1>3, <1>4 DEF RepositoryIsKept, LockEntriesOf
    <3>2. next' = WithEntry(next, n, e)
      BY <2>1
    <3> HIDE DEF e
    <3>3. /\ next' \in LockFiles /\ DOMAIN next' = DOMAIN next \cup {n} /\ next'[n] = e
      BY <3>1, <3>2, LockFileWith
    <3>4. ASSUME NEW m \in DOMAIN next \ {n}
          PROVE  next'[m] = next[m]
      BY <3>2, <3>4 DEF WithEntry
    <3>5. QED
      BY <3>3, <3>4 DEF e
  <2>3. /\ disk' \in [Dests -> Trees \cup {NoTree, Foreign}]
        /\ disk'[RenderDest(n, registry[n])] = Tree(n, registry[n])
        /\ \A d \in Dests : d[2] # n => disk'[d] = disk[d]
    <3>1. /\ disk \in [Dests -> Trees \cup {NoTree, Foreign}]
          /\ n \in DOMAIN previous => previous[n].dest[2] = n
      BY <1>2, LockFileParts DEF RepositoryIsKept
    <3>2. QED
      BY <1>4, <2>1, <3>1 DEF Written
  <2>4. RepositoryIsKept'
    BY <1>2, <2>2, <2>3 DEF RepositoryIsKept
  <2>5. InLine(n, next)'
    <3>1. next'[n] = [LockEntry(n, registry[n]) EXCEPT !.plugin = next'[n].plugin]
      BY <2>2 DEF LockEntry
    <3>2. QED
      BY <1>3, <1>5, <2>2, <2>3, <3>1 DEF InLine
  <2>6. ASSUME NEW m \in Selected \ todo
        PROVE  InLine(m, next)'
    <3>1. m # n /\ InLine(m, next) /\ m \in DOMAIN registry
      BY <1>1, <1>2, <2>6 DEF RunIsHalfway, Selected
    <3>2. RenderDest(m, registry[m]) \in Dests /\ RenderDest(m, registry[m])[2] = m
      BY <1>2, <3>1, RegisteredIsEntry, LockEntryIsOwn DEF RepositoryIsKept
    <3>3. disk'[RenderDest(m, registry[m])] = disk[RenderDest(m, registry[m])]
      BY <2>3, <3>1, <3>2
    <3>4. m \in DOMAIN next /\ m \in DOMAIN next' /\ next'[m] = next[m]
      BY <2>2, <3>1 DEF InLine
    <3>5. QED
      BY <1>5, <3>1, <3>3, <3>4 DEF InLine
  <2>7. \A m \in Selected' \ todo' : InLine(m, next)'
    BY <1>1, <1>5, <2>5, <2>6
  <2>8. DOMAIN next' \subseteq DOMAIN lock' \cup DOMAIN registry'
    BY <1>2, <1>3, <2>2 DEF RunIsHalfway
  <2>9. \A m \in todo' \cap DOMAIN lock' : m \in DOMAIN next' /\ next'[m] = lock'[m]
    BY <1>1, <1>2, <2>2 DEF RunIsHalfway
  <2>10. RunIsHalfway'
    BY <1>1, <1>2, <1>5, <2>1, <2>7, <2>8, <2>9 DEF RunIsHalfway
  <2>11. QED
    BY <1>2, <2>4, <2>10 DEF SyncInv
<1>8. QED
  BY <1>6, <1>7

\* A copy that is removed is that of a skill which is no longer registered.
LEMMA RemoveKeepsSync ==
  ASSUME "name" \in Template, SyncInv, SyncRemove
  PROVE  SyncInv'
<1>1. PICK n \in Gone :
        /\ disk' = [disk EXCEPT ![previous[n].dest] = NoTree]
        /\ next' = Restrict(next, DOMAIN next \ {n})
  BY DEF SyncRemove
<1>2. /\ phase = "sync" /\ RepositoryIsKept /\ RunIsHalfway /\ todo = {} /\ changed' = TRUE
      /\ UNCHANGED <<lock, index, registry, upstream, phase, only, previous, todo>>
  BY DEF SyncRemove, SyncInv, sources
<1>3. n \in DOMAIN previous /\ n \notin DOMAIN registry /\ previous[n].dest[2] = n
  BY <1>2, LockFileParts DEF Gone, RepositoryIsKept
<1>4. /\ next' \in LockFiles /\ DOMAIN next' = DOMAIN next \ {n}
      /\ \A m \in DOMAIN next' : next'[m] = next[m]
  BY <1>1, <1>2, LockFileWithout DEF RepositoryIsKept
<1>5. /\ disk' \in [Dests -> Trees \cup {NoTree, Foreign}]
      /\ \A d \in Dests : d[2] # n => disk'[d] = disk[d]
  <2>1. disk \in [Dests -> Trees \cup {NoTree, Foreign}]
    BY <1>2 DEF RepositoryIsKept
  <2>2. QED
    BY <1>1, <1>3, <2>1
<1>6. RepositoryIsKept'
  BY <1>2, <1>4, <1>5 DEF RepositoryIsKept
<1>7. Selected' = Selected
  BY <1>2 DEF Selected
<1>8. ASSUME NEW m \in Selected \ todo
      PROVE  InLine(m, next)'
  <2>1. m # n /\ InLine(m, next) /\ m \in DOMAIN registry
    BY <1>2, <1>3, <1>8 DEF RunIsHalfway, Selected
  <2>2. RenderDest(m, registry[m]) \in Dests /\ RenderDest(m, registry[m])[2] = m
    BY <1>2, <2>1, RegisteredIsEntry, LockEntryIsOwn DEF RepositoryIsKept
  <2>3. disk'[RenderDest(m, registry[m])] = disk[RenderDest(m, registry[m])]
    BY <1>5, <2>1, <2>2
  <2>4. m \in DOMAIN next /\ m \in DOMAIN next' /\ next'[m] = next[m]
    BY <1>4, <2>1 DEF InLine
  <2>5. QED
    BY <1>2, <2>1, <2>3, <2>4 DEF InLine, RenderDest, Tree, LockEntry
<1>9. RunIsHalfway'
  BY <1>2, <1>4, <1>7, <1>8 DEF RunIsHalfway
<1>10. QED
  BY <1>2, <1>6, <1>9 DEF SyncInv

\* The lock file that is written names what was looked at.
LEMMA LockKeepsSync ==
  ASSUME SyncInv, SyncLock
  PROVE  SyncInv'
<1>1. /\ RepositoryIsKept /\ RunIsHalfway /\ todo = {} /\ Gone = {} /\ phase' = "index"
      /\ lock' = (IF changed THEN next ELSE lock)
      /\ UNCHANGED <<disk, registry, upstream, only, previous, next, todo, changed>>
  BY DEF SyncLock, SyncInv, sources, run
<1>2. lock' = next
  BY <1>1 DEF RunIsHalfway
<1>3. RepositoryIsKept'
  BY <1>1, <1>2 DEF RepositoryIsKept
<1>4. \A n \in Selected : InLine(n, next)
  BY <1>1 DEF RunIsHalfway
<1>5. Selected' = Selected /\ \A n \in Selected : InLine(n, lock)'
  BY <1>1, <1>2, <1>4 DEF Selected, InLine, RenderDest, Tree, LockEntry
<1>6. ASSUME only = {}
      PROVE  DOMAIN next = DOMAIN registry
  <2>1. Selected = DOMAIN registry
    BY <1>6 DEF Selected, Selects
  <2>2. DOMAIN registry \subseteq DOMAIN next
    BY <1>4, <2>1 DEF InLine
  <2>3. DOMAIN next \subseteq DOMAIN registry
    BY <1>1, <1>6 DEF Gone, Selects, RunIsHalfway
  <2>4. QED
    BY <2>2, <2>3
<1>7. RunIsLocked'
  BY <1>1, <1>2, <1>5, <1>6 DEF RunIsLocked
<1>8. QED
  BY <1>1, <1>3, <1>7 DEF SyncInv

\* The index is made of the trees that are locked.
LEMMA IndexKeepsSync ==
  ASSUME SyncInv, SyncIndex
  PROVE  SyncInv'
<1>1. /\ RepositoryIsKept /\ RunIsLocked /\ phase' \in {"done", "failed"}
      /\ UNCHANGED <<disk, lock, registry, upstream, only, previous, next, todo, changed>>
      /\ phase' = "done" /\ Indexed => index' = RenderIndex(next)
  BY DEF SyncIndex, End, SyncInv, sources, run
<1>2. RepositoryIsKept'
  BY <1>1 DEF RepositoryIsKept
<1>3. RunIsLocked'
  BY <1>1 DEF RunIsLocked, Selected, InLine, RenderDest, Tree, LockEntry
<1>4. phase' = "done" /\ Indexed => index' = RenderIndex(lock)'
  BY <1>1 DEF RunIsLocked, RenderIndex
<1>5. QED
  BY <1>1, <1>2, <1>3, <1>4 DEF SyncInv

\* Edits come between the runs.
LEMMA EditKeepsSync ==
  ASSUME SyncInv, Edit
  PROVE  SyncInv'
<1>1. /\ RepositoryIsKept /\ phase' = "idle" /\ UNCHANGED lock
      /\ previous' = lock /\ next' = lock
  BY DEF SyncInv, Edit
<1>2. registry' \in Registries
  BY <1>1 DEF Edit, RepositoryIsKept
<1>3. upstream' \in [Sources -> Contents]
  BY <1>1 DEF Edit, RepositoryIsKept
<1>4. disk' \in [Dests -> Trees \cup {NoTree, Foreign}]
  BY <1>1 DEF Edit, RepositoryIsKept
<1>5. RepositoryIsKept'
  BY <1>1, <1>2, <1>3, <1>4 DEF RepositoryIsKept
<1>6. QED
  BY <1>1, <1>5 DEF SyncInv

\* A step that ends a run before its time leaves the repository as it is.
LEMMA FailureKeepsSync ==
  ASSUME SyncInv, SourceFails \/ SyncStopped \/ UNCHANGED syncVars
  PROVE  SyncInv'
<1>1. CASE SourceFails \/ SyncStopped
  BY <1>1 DEF SourceFails, SyncStopped, End, SyncInv, RepositoryIsKept, repository, sources, run
<1>2. CASE UNCHANGED syncVars
  BY <1>2 DEF syncVars, repository, sources, run, SyncInv, RepositoryIsKept, RunIsHalfway,
              RunIsLocked, Selected, InLine, RenderDest, Tree, LockEntry, RenderIndex
<1>3. QED
  BY <1>1, <1>2

\* Every step of skill-sync keeps its invariant.
LEMMA SyncStepKeeps ==
  ASSUME "name" \in Template, SyncInv, [SyncNext]_syncVars
  PROVE  SyncInv'
  BY StartKeepsSync, EntryKeepsSync, RemoveKeepsSync, LockKeepsSync, IndexKeepsSync,
     EditKeepsSync, FailureKeepsSync DEF SyncNext, SyncWork, SyncWorld

\* What a completed run leaves.
LEMMA SyncInvLeavesInLine ==
  ASSUME "name" \in Template
  PROVE  SyncInv => SyncedIsInLine
<1>1. SUFFICES ASSUME SyncInv, phase = "done"
               PROVE  /\ \A n \in DOMAIN registry : Selects(only, n, registry[n]) =>
                           /\ n \in DOMAIN lock
                           /\ lock[n] = [LockEntry(n, registry[n]) EXCEPT !.plugin = lock[n].plugin]
                           /\ disk[lock[n].dest] = Tree(n, registry[n])
                      /\ only = {} => DOMAIN lock = DOMAIN registry /\ CheckProblems = {}
  BY DEF SyncedIsInLine
<1>2. RepositoryIsKept /\ RunIsLocked /\ (Indexed => index = RenderIndex(lock))
  BY <1>1 DEF SyncInv
<1>3. ASSUME NEW n \in Selected
      PROVE  /\ n \in DOMAIN lock
             /\ lock[n] = [LockEntry(n, registry[n]) EXCEPT !.plugin = lock[n].plugin]
             /\ disk[lock[n].dest] = Tree(n, registry[n])
             /\ lock[n].digest = Tree(n, registry[n])
  <2>1. InLine(n, lock)
    BY <1>2, <1>3 DEF RunIsLocked
  <2>2. /\ n \in DOMAIN lock
        /\ lock[n] = [LockEntry(n, registry[n]) EXCEPT !.plugin = lock[n].plugin]
        /\ disk[RenderDest(n, registry[n])] = Tree(n, registry[n])
    BY <2>1 DEF InLine
  <2>3. lock[n].dest = RenderDest(n, registry[n]) /\ lock[n].digest = Tree(n, registry[n])
    BY <2>2 DEF LockEntry
  <2>4. QED
    BY <2>2, <2>3
<1>4. ASSUME only = {}
      PROVE  DOMAIN lock = DOMAIN registry /\ CheckProblems = {}
  <2>1. Selected = DOMAIN registry /\ DOMAIN lock = DOMAIN registry
    BY <1>2, <1>4 DEF RunIsLocked, Selected, Selects
  <2>2. \A n \in DOMAIN lock : disk[lock[n].dest] = lock[n].digest
    BY <1>3, <2>1
  <2>3. QED
    BY <1>2, <2>1, <2>2 DEF CheckProblems
<1>5. QED
  BY <1>3, <1>4 DEF Selected

\* actions/skill-sync: under a destination template that has the name of a skill,
\* like the default and every one of the tests, a run that completes has brought
\* every selected skill in line with its source, on disk and in the lock file, and
\* one over all skills leaves nothing that `check' would object to, wherever
\* earlier runs failed or were stopped and whatever was edited in between.
THEOREM SyncsLeaveAllInLine ==
  ASSUME "name" \in Template
  PROVE  ActionsSpec => []SyncedIsInLine
<1>1. ActionsInit => SyncInv
  BY ActionsStart, InitSyncInv
<1>2. SyncInv /\ [ActionsNext]_jobVars => SyncInv'
  BY OneActionSteps, SyncStepKeeps
<1>3. SyncInv => SyncedIsInLine
  BY SyncInvLeavesInLine
<1>4. QED
  BY <1>1, <1>2, <1>3, PTL DEF ActionsSpec, ActionsNext

-----------------------------------------------------------------------------
(* pr-audit-comment: the command and the status comment.                   *)

\* A number of a set that none of the others exceeds is its greatest.
LEMMA GreatestOf ==
  ASSUME NEW S \in SUBSET Int, NEW m \in S, \A k \in S : k <= m
  PROVE  Max(S) = m
<1>1. \A k \in S : m >= k
  OBVIOUS
<1>2. Max(S) \in S /\ \A k \in S : Max(S) >= k
  <2>1. \E x \in S : \A k \in S : x >= k
    BY <1>1
  <2> HIDE <1>1
  <2>2. QED
    BY <2>1 DEF Max
<1>3. Max(S) \in Int /\ m \in Int /\ Max(S) >= m /\ Max(S) <= m
  BY <1>2
<1>4. QED
  BY <1>3

\* The last token about an option decides: with one token more, that one does if
\* it is about the option, and else the one that did before.
LEMMA LastDecides ==
  ASSUME NEW c, NEW n \in Nat, NEW on, NEW off, NEW default, on # off
  PROVE  LastOf(c, n + 1, on, off, default) <=>
           \/ c.tokens[n + 1] = on
           \/ c.tokens[n + 1] # off /\ LastOf(c, n, on, off, default)
<1> DEFINE About(k) == {i \in 1 .. k : c.tokens[i] \in {on, off}}
<1>1. CASE c.tokens[n + 1] \in {on, off}
  <2>1. n + 1 \in About(n + 1) /\ About(n + 1) \in SUBSET Int /\ \A i \in About(n + 1) : i <= n + 1
    BY <1>1
  <2> HIDE DEF About
  <2>2. Max(About(n + 1)) = n + 1 /\ About(n + 1) # {}
    BY <2>1, GreatestOf
  <2>3. LastOf(c, n + 1, on, off, default) = (c.tokens[n + 1] = on)
    BY <2>2 DEF LastOf, About
  <2>4. QED
    BY <1>1, <2>3
<1>2. CASE c.tokens[n + 1] \notin {on, off}
  <2>1. \A i \in 1 .. n + 1 : i \in 1 .. n \/ i = n + 1
    OBVIOUS
  <2>2. 1 .. n \subseteq 1 .. n + 1
    OBVIOUS
  <2>3. About(n + 1) = About(n)
    BY <1>2, <2>1, <2>2
  <2>4. LastOf(c, n + 1, on, off, default) = LastOf(c, n, on, off, default)
    BY <2>3, Zenon DEF LastOf
  <2>5. QED
    BY <1>2, <2>4, Zenon
<1>3. QED
  BY <1>1, <1>2

\* Nothing is asked for in no tokens.
LEMMA NothingIsAsked ==
  ASSUME NEW c, NEW on, NEW off, NEW default, NEW tokens
  PROVE  LastOf(c, 0, on, off, default) = default /\ ~AnyIn(c, 0, tokens)
<1>1. 1 .. 0 = {}
  OBVIOUS
<1>2. QED
  BY <1>1 DEF LastOf, AnyIn

\* With one token more there is any of some if there was, or that one is.
LEMMA AnyGrows ==
  ASSUME NEW c, NEW n \in Nat, NEW tokens
  PROVE  AnyIn(c, n + 1, tokens) <=> AnyIn(c, n, tokens) \/ c.tokens[n + 1] \in tokens
<1>1. \A i \in 1 .. n + 1 : i \in 1 .. n \/ i = n + 1
  OBVIOUS
<1>2. 1 .. n \subseteq 1 .. n + 1 /\ n + 1 \in 1 .. n + 1
  OBVIOUS
<1>3. QED
  BY <1>1, <1>2 DEF AnyIn

\* The tokens of a command.
LEMMA CommandHasTokens ==
  ASSUME command \in AuditCommands
  PROVE  /\ Len(command.tokens) \in Nat /\ command.private \in BOOLEAN
         /\ DOMAIN command.tokens = 1 .. Len(command.tokens)
         /\ \A i \in 1 .. Len(command.tokens) : command.tokens[i] \in Tokens
<1>1. command.tokens \in BoundedSeq(Tokens, MaxTokens) /\ command.private \in BOOLEAN
  BY DEF AuditCommands
<1>2. PICK m \in 0 .. MaxTokens : command.tokens \in [1 .. m -> Tokens]
  BY <1>1 DEF BoundedSeq, SeqOf
<1>3. m \in Nat
  BY <1>2, AuditConstants
<1>4. Len(command.tokens) = m
  BY <1>2, <1>3
<1>5. QED
  BY <1>1, <1>2, <1>3, <1>4

\* The invariant of pr-audit-comment holds at the start.
LEMMA InitAuditInv == AuditInit => AuditInv
<1>1. SUFFICES ASSUME AuditInit PROVE AuditInv
  OBVIOUS
<1>2. command \in AuditCommands /\ parsed = 0 /\ Len(command.tokens) \in Nat /\ at = "match"
  BY <1>1, CommandHasTokens DEF AuditInit
<1>3. command.private \in BOOLEAN /\ command.defaultEnv \in {"prod", "invalid"}
  BY <1>2 DEF AuditCommands
<1>4. options = NoOptions(command.private, command.defaultEnv)
  BY <1>1 DEF AuditInit
<1>5. options \in Options
  BY <1>3, <1>4 DEF NoOptions, Options
<1>6. /\ options.private = command.private /\ options.flag = FALSE /\ options.set = {}
      /\ options.superFast = FALSE /\ options.errors = FALSE
  BY <1>4 DEF NoOptions
<1>7. /\ PrivateIn(command, 0) = command.private /\ FlagIn(command, 0) = FALSE
      /\ \A tokens : AnyIn(command, 0, tokens) = FALSE
  <2>1. \A i : i \notin 1 .. 0
    OBVIOUS
  <2>2. {i \in 1 .. 0 : command.tokens[i] \in {"private", "private=false"}} = {}
    BY <2>1
  <2>3. {i \in 1 .. 0 : command.tokens[i] \in {"flag", "flag=false"}} = {}
    BY <2>1
  <2>4. PrivateIn(command, 0) = command.private
    BY <2>2 DEF PrivateIn, LastOf
  <2>5. FlagIn(command, 0) = FALSE
    BY <2>3 DEF FlagIn, LastOf
  <2>6. \A tokens : AnyIn(command, 0, tokens) = FALSE
    BY <2>1 DEF AnyIn
  <2>7. QED
    BY <2>4, <2>5, <2>6
<1>8. ParsedIsAsked
  <2>1. parsed = 0 /\ at = "match"
    BY <1>2
  <2>2. (options.private <=> PrivateIn(command, parsed)) /\ (options.flag <=> FlagIn(command, parsed))
    BY <1>6, <1>7, <2>1
  <2>3. options.set # {} <=> AnyIn(command, parsed, {"fast", "option"})
    BY <1>6, <1>7, <2>1
  <2>4. /\ options.superFast <=> AnyIn(command, parsed, {"super-fast"})
        /\ options.errors <=> AnyIn(command, parsed, {"bad"})
    BY <1>6, <1>7, <2>1, Zenon
  <2>5. at \in {"match", "permission"} /\ at # "parse"
    BY <2>1
  <2>6. QED
    BY <2>1, <2>2, <2>3, <2>4, <2>5, Zenon DEF ParsedIsAsked
<1>9. AskedIsValid /\ CommentIsKnown /\ EventIsAsked
  BY <1>1 DEF AuditInit, AskedIsValid, CommentIsKnown, EventIsAsked
<1>10. QED
  BY <1>2, <1>5, <1>8, <1>9 DEF AuditInv, AuditPlaces

\* What one token makes of the options.
LEMMA OneTokenParsed ==
  ASSUME NEW o \in Options, NEW token \in Tokens
  PROVE  /\ Parse(o, token) \in Options
         /\ Parse(o, token).private <=>
              token = "private" \/ (token # "private=false" /\ o.private)
         /\ Parse(o, token).flag <=> token = "flag" \/ (token # "flag=false" /\ o.flag)
         /\ Parse(o, token).set # {} <=> o.set # {} \/ token \in {"fast", "option"}
         /\ Parse(o, token).superFast <=> o.superFast \/ token \in {"super-fast"}
         /\ Parse(o, token).errors <=> o.errors \/ token \in {"bad"}
<1> USE DEF Options
<1>1. CASE token = "super-fast"
  <2>1. Parse(o, token) = [o EXCEPT !.superFast = TRUE]
    BY <1>1 DEF Parse
  <2>2. QED
    BY <1>1, <2>1
<1>2. CASE token = "fast"
  <2>1. Parse(o, token) = [o EXCEPT !.set = @ \cup {"iterations"}]
    BY <1>2 DEF Parse
  <2>2. QED
    BY <1>2, <2>1
<1>3. CASE token = "option"
  <2>1. Parse(o, token) = [o EXCEPT !.set = @ \cup {"option"}]
    BY <1>3 DEF Parse
  <2>2. QED
    BY <1>3, <2>1
<1>4. CASE token = "private"
  <2>1. Parse(o, token) = [o EXCEPT !.private = TRUE]
    BY <1>4 DEF Parse
  <2>2. QED
    BY <1>4, <2>1
<1>5. CASE token = "private=false"
  <2>1. Parse(o, token) = [o EXCEPT !.private = FALSE]
    BY <1>5 DEF Parse
  <2>2. QED
    BY <1>5, <2>1
<1>6. CASE token = "flag"
  <2>1. Parse(o, token) = [o EXCEPT !.flag = TRUE]
    BY <1>6 DEF Parse
  <2>2. QED
    BY <1>6, <2>1
<1>7. CASE token = "flag=false"
  <2>1. Parse(o, token) = [o EXCEPT !.flag = FALSE]
    BY <1>7 DEF Parse
  <2>2. QED
    BY <1>7, <2>1
<1>8. CASE token = "env=staging"
  <2>1. Parse(o, token) = [o EXCEPT !.env = "staging"]
    BY <1>8 DEF Parse
  <2>2. QED
    BY <1>8, <2>1
<1>9. CASE token = "env=prod"
  <2>1. Parse(o, token) = [o EXCEPT !.env = "prod"]
    BY <1>9 DEF Parse
  <2>2. QED
    BY <1>9, <2>1
<1>10. CASE token = "bad"
  <2>1. Parse(o, token) = [o EXCEPT !.errors = TRUE]
    BY <1>10 DEF Parse
  <2>2. QED
    BY <1>10, <2>1
<1>11. QED
  BY <1>1, <1>2, <1>3, <1>4, <1>5, <1>6, <1>7, <1>8, <1>9, <1>10 DEF Tokens

\* One token of the command.
LEMMA ArgKeepsAudit ==
  ASSUME AuditInv, ParseArg
  PROVE  AuditInv'
<1> DEFINE token == command.tokens[parsed + 1]
<1>1. /\ at = "parse" /\ parsed \in Nat /\ parsed < Len(command.tokens) /\ parsed' = parsed + 1
      /\ options' = Parse(options, token)
      /\ UNCHANGED <<command, asker, head, at, seen, known, status, delivered, publishing,
                     setFailed, trouble>>
  BY DEF ParseArg, AuditInv, audit
<1>2. Len(command.tokens) \in Nat /\ parsed' \in 0 .. Len(command.tokens) /\ token \in Tokens
  <2>1. Len(command.tokens) \in Nat
    BY CommandHasTokens DEF AuditInv
  <2>2. parsed + 1 \in 1 .. Len(command.tokens)
    BY <1>1, <2>1
  <2>3. QED
    BY <1>1, <2>1, <2>2, CommandHasTokens DEF AuditInv
<1>3. /\ (options.private <=> PrivateIn(command, parsed)) /\ (options.flag <=> FlagIn(command, parsed))
      /\ options.set # {} <=> AnyIn(command, parsed, {"fast", "option"})
      /\ options.superFast <=> AnyIn(command, parsed, {"super-fast"})
      /\ options.errors <=> AnyIn(command, parsed, {"bad"})
      /\ asker = "trusted"
  BY <1>1 DEF AuditInv, ParsedIsAsked
<1>4. PrivateIn(command, parsed + 1) <=>
        token = "private" \/ (token # "private=false" /\ PrivateIn(command, parsed))
  <2>1. "private" # "private=false"
    OBVIOUS
  <2>2. parsed \in Nat
    BY <1>1
  <2>3. QED
    BY <2>1, <2>2, LastDecides DEF PrivateIn
<1>5. FlagIn(command, parsed + 1) <=>
        token = "flag" \/ (token # "flag=false" /\ FlagIn(command, parsed))
  <2>1. "flag" # "flag=false"
    OBVIOUS
  <2>2. parsed \in Nat
    BY <1>1
  <2>3. QED
    BY <2>1, <2>2, LastDecides DEF FlagIn
<1>6. \A tokens : AnyIn(command, parsed + 1, tokens) <=> AnyIn(command, parsed, tokens) \/ token \in tokens
  BY <1>1, AnyGrows
<1>7. /\ Parse(options, token) \in Options
      /\ Parse(options, token).private <=>
           token = "private" \/ (token # "private=false" /\ options.private)
      /\ Parse(options, token).flag <=> token = "flag" \/ (token # "flag=false" /\ options.flag)
      /\ Parse(options, token).set # {} <=> options.set # {} \/ token \in {"fast", "option"}
      /\ Parse(options, token).superFast <=> options.superFast \/ token \in {"super-fast"}
      /\ Parse(options, token).errors <=> options.errors \/ token \in {"bad"}
  <2>1. options \in Options /\ token \in Tokens
    BY <1>2 DEF AuditInv
  <2> HIDE DEF token
  <2>2. QED
    BY <2>1, OneTokenParsed, Zenon
<1> HIDE DEF token
<1>8. options' \in Options
  BY <1>1, <1>7
<1>9. options'.private <=> PrivateIn(command, parsed + 1)
  BY <1>1, <1>3, <1>4, <1>7, Zenon
<1>10. options'.flag <=> FlagIn(command, parsed + 1)
  BY <1>1, <1>3, <1>5, <1>7, Zenon
<1>11. options'.set # {} <=> AnyIn(command, parsed + 1, {"fast", "option"})
  BY <1>1, <1>3, <1>6, <1>7
<1>12. options'.superFast <=> AnyIn(command, parsed + 1, {"super-fast"})
  BY <1>1, <1>3, <1>6, <1>7, Zenon
<1>13. options'.errors <=> AnyIn(command, parsed + 1, {"bad"})
  BY <1>1, <1>3, <1>6, <1>7, Zenon
<1>14. command' = command /\ parsed' = parsed + 1 /\ at' = "parse" /\ asker' = "trusted"
  BY <1>1, <1>3
<1>15. (options.private <=> PrivateIn(command, parsed))'
  BY <1>9, <1>14, Zenon DEF PrivateIn, LastOf
<1>16. (options.flag <=> FlagIn(command, parsed))'
  BY <1>10, <1>14, Zenon DEF FlagIn, LastOf
<1>17. /\ (options.set # {} <=> AnyIn(command, parsed, {"fast", "option"}))'
       /\ (options.superFast <=> AnyIn(command, parsed, {"super-fast"}))'
       /\ (options.errors <=> AnyIn(command, parsed, {"bad"}))'
  BY <1>11, <1>12, <1>13, <1>14, Zenon DEF AnyIn
<1>18. ParsedIsAsked'
  <2>1. at' \notin {"match", "permission"} /\ asker' = "trusted"
    BY <1>14
  <2>2. QED
    BY <1>15, <1>16, <1>17, <2>1, Zenon DEF ParsedIsAsked
<1>19. CommentIsKnown' /\ EventIsAsked' /\ AskedIsValid'
  BY <1>1 DEF AuditInv, CommentIsKnown, EventIsAsked, AskedIsValid
<1>20. command' \in AuditCommands /\ parsed' \in 0 .. Len(command'.tokens) /\ at' # "ended"
  BY <1>1, <1>2 DEF AuditInv
<1>21. QED
  BY <1>8, <1>14, <1>18, <1>19, <1>20 DEF AuditInv, AuditPlaces

\* A step that leaves the handler where it is, and the command as it was parsed.
LEMMA ParsedIsKept ==
  ASSUME AuditInv, at # "ended", at' = at, trouble' \in {trouble, TRUE},
         UNCHANGED <<command, asker, seen, options, parsed, known, status, delivered,
                     publishing, setFailed>>
  PROVE  AuditInv'
<1>1. ParsedIsAsked' /\ AskedIsValid'
  BY DEF AuditInv, ParsedIsAsked, AskedIsValid, PrivateIn, FlagIn, LastOf, AnyIn, AsksPrivate,
         WardenOptIn, Plain
<1>2. CommentIsKnown' /\ EventIsAsked'
  BY DEF AuditInv, CommentIsKnown, EventIsAsked
<1>3. QED
  BY <1>1, <1>2 DEF AuditInv

\* The handler gets to its next place before anything is done.
LEMMA PlaceKeepsAudit ==
  ASSUME AuditInv, AuditMatch \/ CheckPermission
  PROVE  AuditInv'
<1>1. /\ at \in {"match", "permission"} /\ at' \in {"permission", "parse", "ended"}
      /\ (at' = "parse" => asker' = "trusted") /\ parsed = 0
      /\ UNCHANGED <<command, asker, options, parsed, known, status, delivered>>
      /\ (at' # "ended" => setFailed' = setFailed)
  BY DEF AuditInv, ParsedIsAsked, AuditMatch, CheckPermission, Stop, Go, audit
<1>2. status = "none" /\ ~known /\ delivered = {} /\ ~setFailed
  BY <1>1 DEF AuditInv, CommentIsKnown, EventIsAsked
<1>3. CASE at' = "ended"
  <2>1. status' = "none" /\ delivered' = {} /\ at' = "ended"
    BY <1>1, <1>2, <1>3
  <2>2. StatusIsTrue' /\ QueuedIsSettled'
    BY <2>1 DEF StatusIsTrue, QueuedIsSettled
  <2>3. ParsedIsAsked' /\ AskedIsValid' /\ CommentIsKnown' /\ EventIsAsked'
    BY <2>1 DEF ParsedIsAsked, AskedIsValid, CommentIsKnown, EventIsAsked
  <2>4. QED
    BY <1>1, <2>2, <2>3 DEF AuditInv, AuditPlaces
<1>4. CASE at' # "ended"
  <2>1. ParsedIsAsked'
    BY <1>1, <1>4 DEF AuditInv, ParsedIsAsked, PrivateIn, FlagIn, LastOf, AnyIn
  <2>2. AskedIsValid' /\ CommentIsKnown' /\ EventIsAsked'
    BY <1>1, <1>2, <1>4 DEF AskedIsValid, CommentIsKnown, EventIsAsked
  <2>3. QED
    BY <1>1, <1>4, <2>1, <2>2 DEF AuditInv, AuditPlaces
<1>5. QED
  BY <1>3, <1>4

\* A command that is parsed is valid, or the handler ends.
LEMMA ParseKeepsAudit ==
  ASSUME AuditInv, AuditParse
  PROVE  AuditInv'
<1>1. /\ at = "parse" /\ parsed = Len(command.tokens) /\ options' = SuperFast(options)
      /\ UNCHANGED <<command, asker, parsed, known, delivered, trouble>>
      /\ IF options.errors THEN at' = "ended" /\ status' \in {"usage", status}
         ELSE at' = "react" /\ UNCHANGED <<status, setFailed>>
  BY DEF AuditParse, Stop, Go, audit
<1>2. options \in Options /\ status = "none" /\ ~known /\ delivered = {} /\ ~setFailed
  BY <1>1 DEF AuditInv, CommentIsKnown, EventIsAsked
<1>3. /\ options' \in Options /\ options'.private = options.private /\ options'.flag = options.flag
      /\ options'.set # {} <=> options.set # {} \/ options.superFast
  BY <1>1, <1>2 DEF SuperFast, Options
<1>4. CASE at' = "ended"
  <2>1. status' \in {"none", "usage"} /\ delivered' = {} /\ at' = "ended"
    BY <1>1, <1>2, <1>4
  <2>2. StatusIsTrue' /\ QueuedIsSettled'
    BY <2>1 DEF StatusIsTrue, QueuedIsSettled
  <2>3. ParsedIsAsked' /\ AskedIsValid' /\ CommentIsKnown' /\ EventIsAsked'
    BY <2>1 DEF ParsedIsAsked, AskedIsValid, CommentIsKnown, EventIsAsked
  <2>4. QED
    BY <1>1, <1>3, <2>2, <2>3 DEF AuditInv, AuditPlaces
<1>5. CASE at' # "ended"
  <2>1. at' = "react" /\ ~options.errors /\ status' = "none" /\ ~known' /\ delivered' = {} /\ ~setFailed'
    BY <1>1, <1>2, <1>5
  <2>2. /\ asker = "trusted"
        /\ options.private <=> PrivateIn(command, parsed)
        /\ options.flag <=> FlagIn(command, parsed)
        /\ options.set # {} <=> AnyIn(command, parsed, {"fast", "option"})
        /\ options.superFast <=> AnyIn(command, parsed, {"super-fast"})
        /\ options.errors <=> AnyIn(command, parsed, {"bad"})
    BY <1>1 DEF AuditInv, ParsedIsAsked
  <2>3. AnyIn(command, parsed, {"super-fast", "fast", "option"}) =>
          AnyIn(command, parsed, {"fast", "option"}) \/ AnyIn(command, parsed, {"super-fast"})
    BY DEF AnyIn
  <2>4. options'.private <=> AsksPrivate(command)
    BY <1>1, <1>3, <2>2 DEF AsksPrivate
  <2>5. WardenOptIn(options)' => Plain(command)
    <3>1. WardenOptIn(options)' => options'.set = {} /\ ~options'.private /\ ~options'.flag
      BY DEF WardenOptIn
    <3>2. QED
      BY <1>1, <1>3, <2>2, <2>3, <2>4, <3>1 DEF Plain
  <2>6. AskedIsValid'
    <3>1. /\ ~AnyIn(command, Len(command.tokens), {"bad"})' /\ (AsksPrivate(command)' <=> AsksPrivate(command))
          /\ (Plain(command)' <=> Plain(command))
      BY <1>1, <2>1, <2>2 DEF AnyIn, AsksPrivate, Plain, PrivateIn, FlagIn, LastOf
    <3>2. QED
      BY <1>1, <2>2, <2>4, <2>5, <3>1 DEF AskedIsValid
  <2>7. ParsedIsAsked' /\ CommentIsKnown' /\ EventIsAsked'
    BY <1>1, <2>1 DEF ParsedIsAsked, CommentIsKnown, EventIsAsked
  <2>8. QED
    BY <1>1, <1>3, <2>1, <2>6, <2>7 DEF AuditInv, AuditPlaces
<1>6. QED
  BY <1>4, <1>5

\* What is asked stays what it is while the handler acts upon it.
LEMMA AskedStaysValid ==
  ASSUME AuditInv, at \in {"react", "queue", "publish", "update"}, UNCHANGED <<command, asker, options>>
  PROVE  AskedIsValid'
  BY DEF AuditInv, AskedIsValid, AnyIn, AsksPrivate, WardenOptIn, Plain, PrivateIn, FlagIn, LastOf

\* The handler posts its comment and publishes its event.
LEMMA ActKeepsAudit ==
  ASSUME AuditInv, AuditReact \/ AuditQueue \/ PublishEvent
  PROVE  AuditInv'
<1>1. /\ at \in {"react", "queue", "publish"} /\ at' \in {"queue", "publish", "update"}
      /\ UNCHANGED <<command, asker, options, parsed>>
  BY DEF AuditReact, AuditQueue, PublishEvent, audit
<1>2. AskedIsValid'
  BY <1>1, AskedStaysValid
<1>3. ParsedIsAsked'
  BY <1>1 DEF ParsedIsAsked
<1>4. CommentIsKnown'
  BY DEF AuditInv, CommentIsKnown, AuditReact, AuditQueue, PublishEvent
<1>5. EventIsAsked'
  <2>1. delivered = {} /\ ~setFailed
    BY <1>1 DEF AuditInv, EventIsAsked
  <2>2. CASE AuditReact \/ AuditQueue
    BY <2>1, <2>2 DEF EventIsAsked, AuditReact, AuditQueue
  <2>3. CASE PublishEvent
    <3>1. /\ delivered' \in {{}, {BuildPayload(options)}} /\ options' = options
          /\ publishing' = "ok" => delivered' = {BuildPayload(options)} /\ setFailed' = setFailed
          /\ at' = "update"
      BY <2>3 DEF PublishEvent
    <3>2. LET event == BuildPayload(options)
          IN  event.set = options.set /\ event.private = options.private /\ event.flag = options.flag
      BY DEF BuildPayload
    <3>3. QED
      BY <2>1, <3>1, <3>2 DEF EventIsAsked
  <2>4. QED
    BY <2>2, <2>3
<1>6. QED
  BY <1>1, <1>2, <1>3, <1>4, <1>5 DEF AuditInv, AuditPlaces

\* A status of an audit that asks for nothing special, if any, and an event that
\* does not either.
LEMMA EndIsTrue ==
  ASSUME AuditInv, at # "ended", at' = "ended",
         UNCHANGED <<command, asker, options, parsed, delivered, setFailed>>,
         \/ status' = status
         \/ at = "update" /\ known /\ status' = Outcome,
         status' = status /\ status = "queued" => trouble'
  PROVE  AuditInv'
<1>1. ParsedIsAsked' /\ AskedIsValid' /\ CommentIsKnown' /\ EventIsAsked'
  BY DEF ParsedIsAsked, AskedIsValid, CommentIsKnown, EventIsAsked
<1>2. status \in {"none", "queued"} /\ at \in AuditPlaces
  BY DEF AuditInv, CommentIsKnown, AuditPlaces
<1>3. QueuedIsSettled'
  BY <1>2 DEF QueuedIsSettled, Outcome
<1>4. CASE status = "none" /\ delivered = {} /\ status' = status
  <2>1. StatusIsTrue'
    BY <1>4 DEF StatusIsTrue
  <2>2. QED
    BY <1>1, <1>3, <2>1 DEF AuditInv, AuditPlaces
<1>5. CASE ~(status = "none" /\ delivered = {} /\ status' = status)
  <2>1. at \in {"publish", "update"}
    BY <1>2, <1>5 DEF AuditInv, CommentIsKnown, EventIsAsked, Outcome, AuditPlaces
  <2>2. /\ asker = "trusted" /\ ~AnyIn(command, Len(command.tokens), {"bad"})
        /\ options.private <=> AsksPrivate(command)
        /\ WardenOptIn(options) => Plain(command)
    BY <2>1 DEF AuditInv, AskedIsValid
  <2>3. "bad" \notin ToSet(command.tokens)
    BY <2>2, CommandHasTokens DEF AuditInv, AnyIn, ToSet
  <2>4. AsksPrivate(command) => status' = "none"
    <3>1. options.private => status = "none" /\ ~known
      BY <1>2, <2>1 DEF AuditInv, CommentIsKnown
    <3>2. QED
      BY <2>2, <3>1
  <2>5. status' \in {"optin", "published"} => delivered' # {} /\ ~setFailed'
    BY <1>2 DEF Outcome, AuditInv, EventIsAsked
  <2>6. status' = "optin" =>
          Plain(command) /\ \A e \in delivered' : e.set = {} /\ ~e.private /\ ~e.flag
    <3>1. SUFFICES ASSUME status' = "optin"
                   PROVE  Plain(command) /\ \A e \in delivered' : e.set = {} /\ ~e.private /\ ~e.flag
      OBVIOUS
    <3>2. at = "update" /\ WardenOptIn(options)
      BY <1>2, <3>1 DEF Outcome
    <3>3. \A e \in delivered : e.set = options.set /\ e.private = options.private /\ e.flag = options.flag
      BY <3>2 DEF AuditInv, EventIsAsked
    <3>4. options.set = {} /\ ~options.private /\ ~options.flag
      BY <3>2 DEF WardenOptIn
    <3>5. QED
      BY <2>2, <3>2, <3>3, <3>4
  <2>7. /\ (Plain(command)' <=> Plain(command)) /\ (AsksPrivate(command)' <=> AsksPrivate(command))
        /\ command' = command /\ asker' = asker
    BY DEF Plain, AsksPrivate, PrivateIn, FlagIn, LastOf, AnyIn
  <2>8. StatusIsTrue'
    BY <2>2, <2>3, <2>4, <2>5, <2>6, <2>7 DEF StatusIsTrue
  <2>9. QED
    BY <1>1, <1>3, <2>8 DEF AuditInv, AuditPlaces
<1>6. QED
  BY <1>4, <1>5

\* The handler ends, or it is stopped.
LEMMA EndKeepsAudit ==
  ASSUME AuditInv, AuditUpdate \/ AuditCancelled
  PROVE  AuditInv'
<1>1. /\ at' = "ended" /\ UNCHANGED <<command, asker, options, parsed, delivered, setFailed>>
      /\ at # "ended"
  BY DEF AuditUpdate, AuditCancelled, audit
<1>2. /\ status' = status \/ (at = "update" /\ known /\ status' = Outcome)
      /\ status' = status /\ status = "queued" => trouble'
  <2>1. CASE AuditCancelled
    BY <2>1 DEF AuditCancelled
  <2>2. CASE AuditUpdate
    BY <2>2 DEF AuditUpdate, Outcome, AuditInv, CommentIsKnown
  <2>3. QED
    BY <2>1, <2>2
<1>3. QED
  BY <1>1, <1>2, EndIsTrue

\* Every step of pr-audit-comment keeps its invariant.
LEMMA AuditStepKeeps ==
  ASSUME AuditInv, [AuditNext]_auditVars
  PROVE  AuditInv'
<1>1. CASE UNCHANGED auditVars
  <2>1. CASE at # "ended"
    BY <1>1, <2>1, ParsedIsKept DEF auditVars, audit
  <2>2. CASE at = "ended"
    <3>1. UNCHANGED <<command, asker, head, at, seen, options, parsed, known, status, delivered,
                      publishing, setFailed, trouble>>
      BY <1>1 DEF auditVars, audit
    <3>2. ParsedIsAsked' /\ AskedIsValid' /\ CommentIsKnown' /\ EventIsAsked'
      BY <2>2, <3>1 DEF ParsedIsAsked, AskedIsValid, CommentIsKnown, EventIsAsked
    <3>3. StatusIsTrue' /\ QueuedIsSettled'
      BY <2>2, <3>1 DEF AuditInv, StatusIsTrue, QueuedIsSettled, Plain, AsksPrivate, PrivateIn,
                        FlagIn, LastOf, AnyIn
    <3>4. QED
      BY <3>1, <3>2, <3>3 DEF AuditInv
  <2>3. QED
    BY <2>1, <2>2
<1>2. CASE AuditPush
  BY <1>2, ParsedIsKept DEF AuditPush, audit
<1>3. QED
  BY <1>1, <1>2, PlaceKeepsAudit, ArgKeepsAudit, ParseKeepsAudit, ActKeepsAudit, EndKeepsAudit
     DEF AuditNext, AuditWork, AuditWorld

\* What the status comment says at any time.
LEMMA AuditInvIsReported == AuditInv => StatusIsTrue /\ QueuedIsSettled
<1>1. SUFFICES ASSUME AuditInv, at # "ended"
               PROVE  StatusIsTrue /\ QueuedIsSettled
  BY DEF AuditInv
<1>2. /\ command \in AuditCommands /\ at \in AuditPlaces
      /\ CommentIsKnown /\ EventIsAsked /\ AskedIsValid
  BY <1>1 DEF AuditInv
<1>3. QueuedIsSettled
  BY <1>1 DEF QueuedIsSettled
<1>4. status \in {"none", "queued"}
  BY <1>1, <1>2 DEF CommentIsKnown, AuditPlaces
<1>5. CASE status = "none" /\ delivered = {}
  BY <1>3, <1>5 DEF StatusIsTrue
<1>6. CASE ~(status = "none" /\ delivered = {})
  <2>1. at \in {"publish", "update"}
    BY <1>1, <1>2, <1>6 DEF CommentIsKnown, EventIsAsked, AuditPlaces
  <2>2. /\ asker = "trusted" /\ ~AnyIn(command, Len(command.tokens), {"bad"})
        /\ options.private <=> AsksPrivate(command)
        /\ options.private => status = "none"
    BY <1>2, <2>1 DEF AskedIsValid, CommentIsKnown
  <2>3. "bad" \notin ToSet(command.tokens)
    BY <1>2, <2>2, CommandHasTokens DEF AnyIn, ToSet
  <2>4. QED
    BY <1>3, <1>4, <2>2, <2>3 DEF StatusIsTrue
<1>7. QED
  BY <1>5, <1>6

\* actions/pr-audit-comment: the status comment of an audit says what the event
\* that was published says, for every command: the marker for Warden appears only
\* when the receiver has the event of a trusted commenter's plain public audit,
\* private audits have no comment, and a comment stays queued only when a call
\* failed or the job was cancelled.
THEOREM AuditsAreReported == ActionsSpec => []AuditIsReported
<1>1. ActionsInit => AuditInv
  BY ActionsStart, InitAuditInv
<1>2. AuditInv /\ [ActionsNext]_jobVars => AuditInv'
  BY OneActionSteps, AuditStepKeeps
<1>3. AuditInv => AuditIsReported
  BY AuditInvIsReported DEF AuditIsReported
<1>4. QED
  BY <1>1, <1>2, <1>3, PTL DEF ActionsSpec, ActionsNext

-----------------------------------------------------------------------------
(* The state of the actions.                                               *)

\* What a step of the STS clients does to the assertion and what it knows of it.
HeldStep ==
  /\ assertion' \in {assertion, assertion + 1} /\ claim' \in Claims \cup {claim}
  /\ unsure' \in BOOLEAN /\ lateLimits' \in {lateLimits, lateLimits + 1}

\* A reply of an STS leaves a claim that it may have.
LEMMA ServicesKeepClaims ==
  ASSUME claim \in Claims,
         NEW effect \in SocketService \cup StepSecurityService \cup GithubService \cup CloudflareService
  PROVE  effect.claim \in Claims
<1>1. CASE effect \in SocketService
  BY <1>1, SocketServiceAnswers
<1>2. CASE effect \in StepSecurityService \cup GithubService \cup CloudflareService
  BY <1>2 DEF StepSecurityService, GithubService, CloudflareService, Claims
<1>3. QED
  BY <1>1, <1>2

\* Every step of the STS clients handles the assertion so.
LEMMA StsStepHolds ==
  ASSUME claim \in Claims, unsure \in BOOLEAN, [StsNext]_stsVars
  PROVE  HeldStep
<1>1. CASE UNCHANGED held
  BY <1>1 DEF held, HeldStep
<1>2. ASSUME NEW sight, OidcAnswered(sight) PROVE HeldStep
  BY <1>1, <1>2 DEF OidcAnswered, NewAssertion, HeldStep, Claims
<1>3. ASSUME NEW sight, NEW effect, effect.claim \in Claims, Exchanged(effect, sight)
      PROVE  HeldStep
  <2>1. assertion' = assertion /\ claim' \in Claims /\ lateLimits' \in {lateLimits, lateLimits + 1}
    BY <1>3 DEF Exchanged
  <2>2. unsure' \in BOOLEAN
    <3>1. unsure' <=> (unsure \/ Lost(sight) \/ sight = "transient")
      BY <1>3 DEF Exchanged
    <3>2. unsure' = (unsure \/ Lost(sight) \/ sight = "transient")
      BY <1>3 DEF Exchanged
    <3>3. QED
      BY <3>2
  <2>3. QED
    BY <2>1, <2>2 DEF HeldStep
<1>4. CASE SocketAssert \/ StepAssert \/ GithubOidc \/ CloudflareOidc
  BY <1>1, <1>2, <1>4 DEF SocketAssert, StepAssert, GithubOidc, CloudflareOidc
<1>5. CASE SocketSend \/ StepSend \/ GithubSend \/ CloudflareSend
  BY <1>1, <1>3, <1>5, ServicesKeepClaims DEF SocketSend, StepSend, GithubSend, CloudflareSend
<1>6. CASE \/ SocketStatus \/ StepStatus \/ GithubStatus \/ CloudflareStatus
           \/ SocketPublish \/ StepPublish \/ GithubPublish \/ CloudflarePublish
  BY <1>1, <1>6 DEF SocketStatus, StepStatus, GithubStatus, CloudflareStatus, StatusCheck,
     SocketPublish, StepPublish, GithubPublish, CloudflarePublish, Publish
<1>7. CASE PostHooks \/ CloudflarePostOidc \/ CloudflareRevoke \/ Expire \/ UNCHANGED stsVars
  BY <1>1, <1>7 DEF PostHooks, SocketRevoke, StepRevoke, GithubRevoke, GithubProvider,
     GithubReconcile, Close, RevokeAgain, NextRevocation, CloudflarePostOidc, CloudflareRevoke,
     Expire, stsVars
<1>8. QED
  BY <1>4, <1>5, <1>6, <1>7 DEF StsNext, StsWork, SocketNext, StepNext, GithubNext, CloudflareNext, PostHooks

Legs == MainLegs \cup {"revoke", "provider", "reconcile", "post_oidc", "closed"}

\* Where a step of the STS clients leads, and with what outcome.
LegStep ==
  /\ client' = client /\ pc' \in Legs \cup {pc} /\ result' \in {"token", "failed", result}
  /\ post' \in {"clean", "unreconciled", "warned", "failed", post}

\* Every step of the STS clients leads so.
LEMMA StsStepLeads ==
  ASSUME BudgetInv, [StsNext]_stsVars
  PROVE  LegStep
<1>1. ASSUME NEW legs, legs \subseteq MainLegs, NEW deadline, MainMove(legs, deadline)
      PROVE  LegStep
  BY <1>1 DEF MainMove, LegStep, Legs
<1>2. CASE \/ SocketStatus \/ SocketAssert \/ SocketSend \/ StepStatus \/ StepAssert \/ StepSend
           \/ GithubStatus \/ GithubOidc \/ GithubSend
  <2>1. SocketLegs \subseteq MainLegs /\ GithubLegs \subseteq MainLegs
    BY DEF SocketLegs, GithubLegs, MainLegs
  <2>2. QED
    BY <1>1, <1>2, <2>1, SocketMoves, StepMoves, GithubMoves
<1>3. CASE CloudflareStatus \/ CloudflareOidc \/ CloudflareSend
  <2>1. PICK leg \in {"oidc", "send", "publish"}, deadline \in Nat : MainMove({leg}, deadline)
    BY <1>3, CloudflareMoves DEF CloudflareMove
  <2>2. {leg} \subseteq MainLegs
    BY DEF MainLegs
  <2>3. QED
    BY <1>1, <2>1, <2>2
<1>4. CASE SocketPublish \/ StepPublish \/ GithubPublish \/ CloudflarePublish
  BY <1>4 DEF SocketPublish, StepPublish, GithubPublish, CloudflarePublish, Publish, LegStep, Legs
<1>5. CASE PostHooks
  BY <1>5 DEF PostHooks, SocketRevoke, StepRevoke, GithubRevoke, GithubProvider, GithubReconcile,
     Close, RevokeAgain, NextRevocation, LegStep, Legs
<1>6. CASE CloudflarePostOidc \/ CloudflareRevoke
  BY <1>6 DEF CloudflarePostOidc, CloudflareRevoke, PostFails, PostAgain, LegStep, Legs
<1>7. CASE Expire \/ UNCHANGED stsVars
  BY <1>7 DEF Expire, stsVars, LegStep
<1>8. QED
  BY <1>2, <1>3, <1>4, <1>5, <1>6, <1>7
     DEF StsNext, StsWork, SocketNext, StepNext, GithubNext, CloudflareNext, PostHooks

StsInv == StsTypeOK /\ BudgetInv /\ MintInv /\ RevocationInv

\* Every step of the STS clients keeps their types and the invariants these
\* rest on.
LEMMA StsStepKeeps ==
  ASSUME StsInv, [StsNext]_stsVars
  PROVE  StsInv'
<1>1. BudgetInv' /\ MintInv' /\ RevocationInv'
  BY StsStepKeepsBudget, StsStepKeepsMints, StsStepKeepsRevocation DEF StsInv
<1>2. now' \in Nat /\ until' \in Nat /\ attempt' \in Nat /\ outer' \in Nat /\ mints' \in Nat
  BY <1>1 DEF BudgetInv, MintInv
<1>3. live' \in BOOLEAN
  BY <1>1 DEF RevocationInv
<1>4. tries' \in Nat
  BY LoopsAreCounted DEF StsInv, StsTypeOK, Counted
<1>5. assertion' \in Nat /\ claim' \in Claims /\ lateLimits' \in Nat
  BY StsStepHolds DEF StsInv, StsTypeOK, HeldStep
<1>6. unsure' \in BOOLEAN
  BY StsStepHolds DEF StsInv, StsTypeOK, HeldStep
<1>7. LegStep
  BY StsStepLeads DEF StsInv
<1>8. client' \in {"socket", "stepsecurity", "github", "cloudflare"}
  BY <1>7 DEF LegStep, StsInv, StsTypeOK
<1>9. /\ pc' \in {"status", "assert", "oidc", "refresh", "send", "publish", "revoke",
                  "provider", "reconcile", "post_oidc", "closed"}
      /\ result' \in {"none", "token", "failed"}
      /\ post' \in {"none", "clean", "unreconciled", "warned", "failed"}
  BY <1>7 DEF LegStep, Legs, MainLegs, StsInv, StsTypeOK
<1>10. QED
  BY <1>1, <1>2, <1>3, <1>4, <1>5, <1>6, <1>8, <1>9 DEF StsInv, StsTypeOK

\* The loop around the broker keeps the types of its state.
LEMMA BrokerStepKeepsTypes ==
  ASSUME BrokerTypeOK, BrokerInv', [BrokerNext]_brokerVars
  PROVE  BrokerTypeOK'
<1>1. /\ time' \in Nat /\ pollStarted' \in Nat \cup {-1} /\ transients' \in Nat
      /\ delayed' \in 0 .. MAX_TOTAL_RETRY_DELAY /\ polled' \in Nat
  BY BrokerConstants DEF BrokerInv, WaitsAreTimed, BrokerWaitsBounded
<1>2. operation' = operation
  BY DEF BrokerNext, BrokerClient, BrokerWorld, BrokerOidc, BrokerRequest, OperationEnds, Rerun,
     brokerVars
<1>3. runAttempt' \in 1 .. MaxRuns
  <2>1. CASE Rerun
    BY <2>1, BrokerConstants DEF Rerun, BrokerTypeOK
  <2>2. CASE ~Rerun
    BY <2>2 DEF BrokerNext, BrokerClient, BrokerWorld, BrokerOidc, BrokerRequest, OperationEnds,
       brokerVars, BrokerTypeOK
  <2>3. QED
    BY <2>1, <2>2
<1>4. /\ step' \in {"oidc", "request", "done"}
      /\ reported' \in {"none", "success", "failure"}
  <2>1. ASSUME NEW t, Report(t, "success") \/ Report(t, "failure") \/ WaitTransient(t) \/ WaitForOperation(t)
        PROVE  /\ step' \in {"oidc", "request", "done"}
               /\ reported' \in {"none", "success", "failure"}
    BY <2>1 DEF Report, WaitTransient, WaitForOperation, BrokerTypeOK
  <2>2. CASE BrokerOidc
    BY <2>1, <2>2 DEF BrokerOidc, BrokerTypeOK
  <2>3. CASE BrokerRequest
    BY <2>1, <2>3 DEF BrokerRequest
  <2>4. CASE OperationEnds \/ Rerun \/ UNCHANGED brokerVars
    BY <2>4 DEF OperationEnds, Rerun, brokerVars, BrokerTypeOK
  <2>5. QED
    BY <2>2, <2>3, <2>4 DEF BrokerNext, BrokerClient, BrokerWorld
<1>5. running' \subseteq started'
  <2>1. CASE BrokerRequest
    <3>1. PICK answered : /\ started' = IF answered \in {"begun", "finished", "failed"}
                                       THEN started \cup {IdempotencyKey} ELSE started
                        /\ running' = IF answered = "begun"
                                       THEN running \cup {IdempotencyKey} ELSE running
      BY <2>1 DEF BrokerRequest
    <3>2. QED
      BY <3>1 DEF BrokerTypeOK
  <2>2. CASE BrokerOidc \/ OperationEnds \/ Rerun \/ UNCHANGED brokerVars
    BY <2>2 DEF BrokerOidc, OperationEnds, Rerun, brokerVars, broker, BrokerTypeOK
  <2>3. QED
    BY <2>1, <2>2 DEF BrokerNext, BrokerClient, BrokerWorld
<1>6. QED
  BY <1>1, <1>2, <1>3, <1>4, <1>5 DEF BrokerTypeOK

\* The check of the workflows keeps the types of its state.
LEMMA EnsureStepKeepsTypes ==
  ASSUME EnsureTypeOK, [EnsureNext]_ensureVars
  PROVE  EnsureTypeOK'
<1>1. CASE Discover
  <2>1. \/ UNCHANGED <<found, unread, findings>> /\ verdict' = "error"
        \/ found' \subseteq Files /\ unread' = found' /\ found = {} /\ UNCHANGED <<findings, verdict>>
    BY <1>1, EnsureConstants DEF Discover, EnsureTypeOK
  <2>2. QED
    BY <2>1 DEF EnsureTypeOK
<1>2. CASE CheckWorkflow
  <2>1. PICK f \in unread :
          /\ unread' = unread \ {f}
          /\ findings' = findings \cup
               CASE text[f].kind = "manifest" -> {<<f, "none", "not-a-workflow">>}
                 [] text[f].kind = "broken" -> {<<f, "none", "parse-error">>}
                 [] OTHER -> {<<f, j, JobStatus(j, found)>> : j \in text[f].jobs}
    BY <1>2 DEF CheckWorkflow
  <2>2. \A e \in findings' : e \in findings \/ e[1] = f
    BY <2>1
  <2>3. f \in found /\ UNCHANGED <<found, verdict>>
    BY <1>2 DEF CheckWorkflow, EnsureTypeOK
  <2>4. QED
    BY <2>1, <2>2, <2>3 DEF EnsureTypeOK
<1>3. CASE Conclude \/ UNCHANGED ensureVars
  BY <1>3 DEF Conclude, ensureVars, EnsureTypeOK
<1>4. QED
  BY <1>1, <1>2, <1>3 DEF EnsureNext

\* The jobs of a conditional workflow keep the types of their state.
LEMMA CiStepKeepsTypes ==
  ASSUME CiTypeOK, [CiNext]_ciVars
  PROVE  CiTypeOK'
<1>1. changes' = changes
  BY DEF CiNext, Detect, RunJob, Evaluate, ciInputs, ciVars
<1>2. CASE Detect
  <2>1. hits' \subseteq Gated
    BY <1>2 DEF Detect, EvaluateFilters, CiTypeOK
  <2>2. detected' \in {"ok", "failure", "cancelled"} /\ UNCHANGED gate
    BY <1>2 DEF Detect
  <2>3. QED
    BY <1>1, <2>1, <2>2 DEF CiTypeOK
<1>3. CASE RunJob \/ Evaluate \/ UNCHANGED ciVars
  BY <1>1, <1>3 DEF RunJob, Evaluate, ciVars, CiTypeOK
<1>4. QED
  BY <1>2, <1>3 DEF CiNext

\* The two caches keep the types of their state.
LEMMA OidcStepKeepsTypes ==
  ASSUME OidcTypeOK, OidcInv, OidcInv', [OidcNext]_oidcVars
  PROVE  OidcTypeOK'
<1> USE DEF Pending, Failed
<1>1. /\ requests' \in Seq(Int) /\ entry' \in 0 .. Len(requests')
      /\ expires' \in Nat /\ retryAt' \in Nat /\ failedAt' \in Int
  <2>1. /\ requests' \in Seq(Nat \cup {Pending, Failed}) /\ entry' \in {0, Len(requests')}
        /\ expires' \in Nat /\ retryAt' \in Nat /\ failedAt' \in Int
    BY DEF OidcInv, EntryIsNewest, RetryIsCovered
  <2>2. requests' \in Seq(Int) /\ Len(requests') \in Nat
    BY <2>1
  <2>3. QED
    BY <2>1, <2>2
<1>2. /\ oidcNow \in Nat /\ oidcNow \in 0 .. MaxOidcNow /\ requests \in Seq(Int)
      /\ Len(requests) \in Nat /\ entry \in 0 .. Len(requests)
      /\ call.request \in 0 .. Len(requests) /\ expires \in Nat /\ answer \in Seq(Nat)
  BY DEF OidcTypeOK, OidcInv
<1>3. oidcNow' \in 0 .. MaxOidcNow
  <2>1. oidcNow' = oidcNow \/ (oidcNow' = oidcNow + 1 /\ oidcNow < MaxOidcNow)
    BY DEF OidcNext, Token, Fetched, FetchFails, StartProvider, GetToken, Acquired, OidcTick, oidcVars
  <2>2. QED
    BY <1>2, <2>1, OidcConstants
<1>4. call'.request \in 0 .. Len(requests')
  <2>1. ASSUME NEW fresh \in BOOLEAN, Token(fresh) PROVE call'.request \in 0 .. Len(requests')
    <3>1. CASE ~fresh /\ Reusable
      BY <1>2, <2>1, <3>1 DEF Token
    <3>2. CASE ~(~fresh /\ Reusable)
      <4>1. Len(requests') = Len(requests) + 1 /\ call'.request = Len(requests) + 1
        BY <1>2, <2>1, <3>2 DEF Token
      <4>2. QED
        BY <1>2, <4>1
    <3>3. QED
      BY <3>1, <3>2
  <2>2. CASE Fetched \/ FetchFails
    <3>1. call' = call /\ Len(requests') = Len(requests)
      BY <1>2, <2>2 DEF Fetched, FetchFails
    <3>2. QED
      BY <1>2, <3>1
  <2>3. CASE StartProvider \/ GetToken \/ Acquired \/ OidcTick \/ UNCHANGED oidcVars
    <3>1. UNCHANGED <<call, requests>>
      BY <2>3 DEF StartProvider, GetToken, Acquired, OidcTick, oidcVars, theClient
    <3>2. QED
      BY <1>2, <3>1
  <2>4. QED
    BY <2>1, <2>2, <2>3 DEF OidcNext
<1>5. provider' \in {"off", "on"}
  BY DEF OidcTypeOK, OidcNext, Token, Fetched, FetchFails, StartProvider, GetToken, Acquired,
     OidcTick, oidcVars, theProvider
<1>6. answer' \in Seq(Nat)
  <2>1. ASSUME NEW end \in Nat, Answer(end) PROVE answer' \in Seq(Nat)
    <3>1. PICK n \in Nat : answer' = <<oidcNow, n>>
      BY <2>1 DEF Answer
    <3>2. QED
      BY <1>2, <3>1
  <2>2. CASE GetToken
    BY <1>2, <2>1, <2>2 DEF GetToken
  <2>3. CASE Acquired
    BY <1>1, <2>1, <2>3 DEF Acquired
  <2>4. CASE ~GetToken /\ ~Acquired
    BY <1>2, <2>4 DEF OidcNext, Token, Fetched, FetchFails, StartProvider, OidcTick, oidcVars, theProvider
  <2>5. QED
    BY <2>2, <2>3, <2>4
<1>7. loading' \in BOOLEAN /\ waiting' \in BOOLEAN
  BY DEF OidcTypeOK, OidcNext, Token, Fetched, FetchFails, StartProvider, GetToken, Acquired,
     OidcTick, oidcVars, theProvider
<1>8. QED
  BY <1>1, <1>3, <1>4, <1>5, <1>6, <1>7 DEF OidcTypeOK

\* The update of dependencies keeps the types of its state.
LEMMA UpdateStepKeepsTypes ==
  ASSUME UpdateTypeOK, UpdateInv, UpdateInv', [UpdateNext]_updateVars
  PROVE  UpdateTypeOK'
<1>1. heads \in Nat /\ heads' \in Nat /\ updateBranch'.head \in 0 .. heads' /\ lost' = {}
  BY DEF UpdateInv, LeaseIsExact, PushesAreKept
<1>2. /\ updateBranch.holds \subseteq 1 .. heads /\ mine \subseteq 1 .. heads
  BY DEF UpdateTypeOK
<1>3. 1 .. heads \subseteq 1 .. (heads + 1) /\ heads + 1 \in 1 .. (heads + 1)
  BY <1>1
<1>4. CASE PushUpdate
  <2>1. \/ UNCHANGED <<updateBranch, mine, heads>>
        \/ /\ updateBranch'.holds = mine \cup {heads + 1} /\ mine' = mine \cup {heads + 1}
           /\ heads' = heads + 1
    BY <1>4 DEF PushUpdate
  <2>2. updateBranch'.holds \subseteq 1 .. heads' /\ mine' \subseteq 1 .. heads'
    BY <1>2, <1>3, <2>1
  <2>3. UNCHANGED <<updatePr, repairs>>
    BY <1>4 DEF PushUpdate
  <2>4. QED
    BY <1>1, <2>2, <2>3 DEF UpdateTypeOK
<1>5. CASE MaintainerPush
  <2>1. /\ updateBranch'.holds = updateBranch.holds \cup {heads + 1} /\ heads' = heads + 1
        /\ UNCHANGED <<updatePr, mine, repairs>>
    BY <1>5 DEF MaintainerPush, coordinator
  <2>2. updateBranch'.holds \subseteq 1 .. heads' /\ mine' \subseteq 1 .. heads'
    BY <1>2, <1>3, <2>1
  <2>3. QED
    BY <1>1, <2>1, <2>2 DEF UpdateTypeOK
<1>6. CASE MaintainerMove
  <2>1. /\ updateBranch' \in {updateBranch, NoBranch} /\ updatePr' \in {"open", "closed"}
        /\ UNCHANGED <<heads, mine, repairs>>
    BY <1>6 DEF MaintainerMove, coordinator
  <2>2. updateBranch'.holds \subseteq 1 .. heads'
    BY <1>2, <2>1 DEF NoBranch
  <2>3. QED
    BY <1>1, <2>1, <2>2 DEF UpdateTypeOK
<1>7. CASE \/ StartUpdate \/ ListPulls \/ LookAtBranch \/ FetchBranch \/ PrepareUpdate
           \/ CheckHead \/ PullRequest \/ Poll \/ StopUpdate \/ UNCHANGED updateVars
  <2>1. UNCHANGED <<heads, updateBranch>>
    BY <1>7 DEF StartUpdate, ListPulls, LookAtBranch, FetchBranch, PrepareUpdate, CheckHead,
       PullRequest, Poll, StopUpdate, updateVars, theBranch
  <2>2. mine' \in {mine, {}, updateBranch.holds}
    BY <1>7 DEF StartUpdate, ListPulls, LookAtBranch, FetchBranch, PrepareUpdate, CheckHead,
       PullRequest, Poll, StopUpdate, updateVars, coordinator
  <2>3. updatePr' \in {updatePr, "open"}
    BY <1>7 DEF StartUpdate, ListPulls, LookAtBranch, FetchBranch, PrepareUpdate, CheckHead,
       PullRequest, Poll, StopUpdate, updateVars, theBranch
  <2>4. repairs' \in 0 .. MaxCiRepairs
    BY <1>7, UpdateConstants DEF StartUpdate, ListPulls, LookAtBranch, FetchBranch, PrepareUpdate,
       CheckHead, PullRequest, Poll, StopUpdate, updateVars, coordinator, UpdateTypeOK
  <2>5. QED
    BY <1>1, <1>2, <2>1, <2>2, <2>3, <2>4 DEF UpdateTypeOK
<1>8. QED
  BY <1>4, <1>5, <1>6, <1>7 DEF UpdateNext, Coordinator, UpdateWorld

\* A run of create-pull-request keeps the types of its state.
LEMMA CreateStepKeepsTypes ==
  ASSUME CreateTypeOK, CreateInv, CreateInv', [CreateNext]_createVars
  PROVE  CreateTypeOK'
<1>1. prs \in Nat /\ openPr \in 0 .. prs /\ alone' \in [Runs -> BOOLEAN]
  BY DEF CreateInv, CreateTypeOK
<1>2. closed' \in 0 .. MaxClosed
  <2>1. closed' = closed \/ (closed' = closed + 1 /\ closed < MaxClosed)
    BY DEF CreateNext, ClosePr, CreateRun, createVars
  <2>2. QED
    BY <2>1, CreateConstants DEF CreateTypeOK
<1>3. ASSUME NEW r \in Runs, NEW commit, MoveBranch(r, commit)
      PROVE  /\ openPr' \in {openPr, 0} /\ prs' = prs
             /\ closers' = closers \/ (closers' = closers \cup {<<r, openPr>>} /\ openPr # 0)
  BY <1>3 DEF MoveBranch
<1>4. (prs' = prs /\ openPr' \in {openPr, 0}) \/ (prs' = prs + 1 /\ openPr' = prs')
  <2>1. ASSUME NEW r \in Runs, NEW commit, MoveBranch(r, commit)
        PROVE  prs' = prs /\ openPr' \in {openPr, 0}
    BY <1>3, <2>1
  <2>2. CASE ClosePr \/ UNCHANGED remote
    BY <2>2 DEF ClosePr, remote
  <2>3. ASSUME NEW r \in Runs, CreateStep(r)
        PROVE  (prs' = prs /\ openPr' \in {openPr, 0}) \/ (prs' = prs + 1 /\ openPr' = prs')
    <3>1. CASE PublishPr(r)
      BY <3>1 DEF PublishPr
    <3>2. CASE ~PublishPr(r)
      BY <2>1, <2>2, <2>3, <3>2 DEF CreateStep, ReadBranch, ListPr, Compare, ResetRef, CreateCommit,
         MoveHead
    <3>3. QED
      BY <3>1, <3>2
  <2>4. QED
    BY <2>2, <2>3 DEF CreateNext, CreateRun, StartCreate, StopCreate, createVars
<1>5. \A c \in closers' : c \in closers \/ (c[1] \in Runs /\ c[2] = openPr /\ openPr # 0)
  <2>1. ASSUME NEW r \in Runs, NEW commit, MoveBranch(r, commit)
        PROVE  \A c \in closers' : c \in closers \/ (c[1] \in Runs /\ c[2] = openPr /\ openPr # 0)
    BY <1>3, <2>1
  <2>2. CASE UNCHANGED closers
    BY <2>2
  <2>3. ASSUME NEW r \in Runs, CreateStep(r)
        PROVE  \A c \in closers' : c \in closers \/ (c[1] \in Runs /\ c[2] = openPr /\ openPr # 0)
    BY <2>1, <2>2, <2>3 DEF CreateStep, ReadBranch, ListPr, Compare, ResetRef, CreateCommit, MoveHead,
       PublishPr, remote
  <2>4. QED
    BY <2>2, <2>3 DEF CreateNext, CreateRun, StartCreate, StopCreate, ClosePr, createVars, remote
<1>6. /\ prs' \in Nat /\ prs <= prs' /\ openPr' \in 0 .. prs'
      /\ openPr # 0 => openPr \in 1 .. prs'
  BY <1>1, <1>4
<1>7. \A c \in closers' : c[1] \in Runs /\ c[2] \in 1 .. prs'
  <2>1. ASSUME NEW c \in closers PROVE c[1] \in Runs /\ c[2] \in 1 .. prs'
    BY <1>1, <1>6 DEF CreateTypeOK
  <2>2. QED
    BY <1>5, <1>6, <2>1
<1>8. sawPr' \in [Runs -> 0 .. prs']
  <2>1. sawPr' = sawPr \/ \E r \in Runs : sawPr' = [sawPr EXCEPT ![r] = openPr]
    BY DEF CreateNext, CreateRun, ClosePr, createVars, runVars, CreateStep, StartCreate, StopCreate,
       ReadBranch, ListPr, Compare, ResetRef, CreateCommit, MoveHead, PublishPr
  <2>2. DOMAIN sawPr = Runs /\ \A r \in Runs : sawPr[r] \in 0 .. prs' /\ openPr \in 0 .. prs'
    BY <1>1, <1>6 DEF CreateTypeOK
  <2>3. sawPr \in [Runs -> 0 .. prs']
    BY <2>2 DEF CreateTypeOK
  <2>4. QED
    BY <2>1, <2>2, <2>3
<1>9. wants' \in [Runs -> Wanted \cup {0}]
  <2>1. wants' = wants \/ \E r \in Runs, tree \in Wanted : wants' = [wants EXCEPT ![r] = tree]
    BY DEF CreateNext, CreateRun, ClosePr, createVars, runVars, CreateStep, StartCreate, StopCreate,
       ReadBranch, ListPr, Compare, ResetRef, CreateCommit, MoveHead, PublishPr
  <2>2. QED
    BY <2>1 DEF CreateTypeOK
<1>10. QED
  BY <1>1, <1>2, <1>6, <1>7, <1>8, <1>9 DEF CreateTypeOK

\* The types that a synchronization keeps whatever the template is.
SyncTypes ==
  /\ SyncTypeOK /\ upstream \in [Sources -> Contents]
  /\ DOMAIN next \subseteq Names /\ todo \subseteq DOMAIN registry

\* They hold at the start.
LEMMA InitSyncTypes == SyncInit => SyncTypes
  BY SyncConstants DEF SyncInit, SyncTypes, SyncTypeOK

\* Every step of a synchronization keeps them.
LEMMA SyncStepKeepsTypes ==
  ASSUME SyncTypes, [SyncNext]_syncVars
  PROVE  SyncTypes'
<1>1. /\ registry \in Registries /\ disk \in [Dests -> Trees \cup {NoTree, Foreign}]
      /\ DOMAIN lock \subseteq Names /\ DOMAIN next \subseteq Names /\ todo \subseteq DOMAIN registry
      /\ minted \subseteq Private /\ upstream \in [Sources -> Contents]
  BY DEF SyncTypes, SyncTypeOK
<1>2. DOMAIN registry \subseteq Names
  BY <1>1 DEF Registries
<1>3. CASE SyncEntry
  <2>1. PICK n \in todo :
          /\ todo' = todo \ {n} /\ minted' = minted \cup ({registry[n].source} \cap Private)
          /\ IF Unchanged(n, registry[n]) THEN UNCHANGED <<disk, next>>
             ELSE /\ disk' = Written(n, registry[n])
                  /\ next' = WithEntry(next, n, LockEntry(n, registry[n]))
    BY <1>3 DEF SyncEntry
  <2>2. UNCHANGED <<lock, registry, upstream>>
    BY <1>3 DEF SyncEntry, sources
  <2>3. n \in Names
    BY <1>1, <1>2
  <2>4. DOMAIN next' \subseteq Names
    BY <1>1, <2>1, <2>3 DEF WithEntry
  <2>5. disk' \in [Dests -> Trees \cup {NoTree, Foreign}]
    <3>1. CASE disk' = disk
      BY <1>1, <3>1
    <3>2. CASE disk' = Written(n, registry[n])
      <4>1. Tree(n, registry[n]) \in Trees \cup {NoTree, Foreign}
        <5>1. registry[n] \in Entries /\ n \in Names
          BY <1>1, RegisteredIsEntry
        <5>2. upstream[registry[n].source] \in Contents
          BY <1>1, <5>1 DEF Entries
        <5>3. QED
          BY <5>1, <5>2 DEF Tree, Trees
      <4>2. \A d \in Dests : disk[d] \in Trees \cup {NoTree, Foreign}
        BY <1>1
      <4>3. QED
        BY <3>2, <4>1, <4>2 DEF Written
    <3>3. QED
      BY <2>1, <3>1, <3>2
  <2>6. QED
    BY <1>1, <1>2, <2>1, <2>2, <2>4, <2>5 DEF SyncTypes, SyncTypeOK
<1>4. CASE SyncRemove
  <2>1. PICK n \in Gone : /\ disk' = [disk EXCEPT ![previous[n].dest] = NoTree]
                          /\ next' = Restrict(next, DOMAIN next \ {n})
    BY <1>4 DEF SyncRemove
  <2>2. disk' \in [Dests -> Trees \cup {NoTree, Foreign}]
    BY <1>1, <2>1
  <2>3. DOMAIN next' \subseteq Names
    BY <1>1, <2>1 DEF Restrict
  <2>4. UNCHANGED <<lock, registry, upstream, todo, minted>>
    BY <1>4 DEF SyncRemove, sources
  <2>5. QED
    BY <1>1, <1>2, <2>2, <2>3, <2>4 DEF SyncTypes, SyncTypeOK
<1>5. CASE Edit
  <2>1. registry' \in Registries /\ upstream' \in [Sources -> Contents]
    BY <1>1, <1>5 DEF Edit
  <2>2. disk' \in [Dests -> Trees \cup {NoTree, Foreign}]
    BY <1>1, <1>5 DEF Edit
  <2>3. lock' = lock /\ next' = lock /\ todo' = {} /\ minted' = {}
    BY <1>5 DEF Edit
  <2>4. QED
    BY <1>1, <2>1, <2>2, <2>3 DEF SyncTypes, SyncTypeOK
<1>6. CASE \/ SyncStart \/ SourceFails \/ SyncLock \/ SyncIndex \/ SyncStopped \/ UNCHANGED syncVars
  <2>1. UNCHANGED <<disk, registry, upstream>>
    BY <1>6 DEF SyncStart, SourceFails, SyncLock, SyncIndex, SyncStopped, syncVars, repository, sources
  <2>2. lock' \in {lock, next} /\ next' \in {lock, next}
    BY <1>6 DEF SyncStart, SourceFails, SyncLock, SyncIndex, SyncStopped, syncVars, repository, run
  <2>3. todo' \subseteq todo \cup DOMAIN registry /\ minted' \subseteq minted
    BY <1>6 DEF SyncStart, SourceFails, SyncLock, SyncIndex, SyncStopped, syncVars, run, End
  <2>4. DOMAIN lock' \subseteq Names /\ DOMAIN next' \subseteq Names
    BY <1>1, <2>2
  <2>5. QED
    BY <1>1, <1>2, <2>1, <2>3, <2>4 DEF SyncTypes, SyncTypeOK
<1>7. QED
  BY <1>3, <1>4, <1>5, <1>6 DEF SyncNext, SyncWork, SyncWorld

\* The handler of audit comments keeps the types of its state.
LEMMA AuditStepKeepsTypes ==
  ASSUME AuditTypeOK, AuditInv', [AuditNext]_auditVars
  PROVE  AuditTypeOK'
<1>1. command' \in AuditCommands /\ at' \in AuditPlaces /\ options' \in Options
  BY DEF AuditInv
<1>2. head' \in 1 .. 2
  <2>1. head' = head \/ (head' = head + 1 /\ head < 2)
    BY DEF AuditNext, AuditWork, AuditWorld, AuditMatch, CheckPermission, ParseArg, AuditParse,
       AuditReact, AuditQueue, PublishEvent, AuditUpdate, AuditCancelled, AuditPush, auditVars
  <2>2. QED
    BY <2>1 DEF AuditTypeOK
<1>3. seen' \in 0 .. 2
  <2>1. seen' \in {seen, head}
    BY DEF AuditNext, AuditWork, AuditWorld, AuditMatch, CheckPermission, ParseArg, AuditParse,
       AuditReact, AuditQueue, PublishEvent, AuditUpdate, AuditCancelled, AuditPush, auditVars
  <2>2. QED
    BY <2>1 DEF AuditTypeOK
<1>4. /\ status' \in {status, "usage", "queued", "failed", "optin", "published"}
      /\ publishing' \in {publishing, "ok", "error"}
  BY DEF AuditNext, AuditWork, AuditWorld, AuditMatch, CheckPermission, ParseArg, AuditParse,
     AuditReact, AuditQueue, PublishEvent, AuditUpdate, AuditCancelled, AuditPush, auditVars, Outcome
<1>5. QED
  BY <1>1, <1>2, <1>3, <1>4 DEF AuditTypeOK

\* The invariants of the actions and the types of their state, which rest on
\* each other.
JobInv ==
  /\ action \in ActionNames
  /\ StsInv /\ SyncTypes /\ EnsureTypeOK /\ CiTypeOK
  /\ BrokerTypeOK /\ BrokerInv /\ AuditTypeOK /\ AuditInv
  /\ OidcTypeOK /\ OidcInv /\ CreateTypeOK /\ CreateInv /\ UpdateTypeOK /\ UpdateInv

\* Every action starts in a state of its types.
LEMMA InitJobInv == ActionsInit => JobInv
<1> SUFFICES ASSUME ActionsInit PROVE JobInv
  OBVIOUS
<1>1. /\ StsInit /\ BrokerInit /\ SyncInit /\ AuditInit /\ EnsureInit /\ CiInit
      /\ OidcInit /\ CreateInit /\ UpdateInit
  BY ActionsStart
<1>2. action \in ActionNames
  BY DEF ActionsInit
<1>3. StsInv
  <2>1. BudgetInv /\ MintInv /\ RevocationInv
    BY <1>1, InitBudgetInv, InitMintInv, InitRevocationInv
  <2>2. client \in Clients
    BY ClientsAssumption DEF ActionsInit, StsIdle
  <2>3. client \in {"socket", "stepsecurity", "github", "cloudflare"}
    BY <2>2, ClientsAssumption
  <2>4. StsTypeOK
    BY <1>1, <2>3, StsConstants DEF StsInit, StsTypeOK, Claims
  <2>5. QED
    BY <2>1, <2>4 DEF StsInv
<1>4. SyncTypes
  BY <1>1, InitSyncTypes
<1>5. EnsureTypeOK /\ CiTypeOK
  BY <1>1 DEF EnsureInit, EnsureTypeOK, CiInit, CiTypeOK
<1>6. BrokerTypeOK /\ BrokerInv
  BY <1>1, InitBrokerInv, BrokerConstants DEF BrokerInit, BrokerTypeOK
<1>7. AuditTypeOK /\ AuditInv
  <2>1. AuditInv
    BY <1>1, InitAuditInv
  <2>2. command \in AuditCommands /\ at \in AuditPlaces /\ options \in Options
    BY <2>1 DEF AuditInv
  <2>3. QED
    BY <1>1, <2>1, <2>2 DEF AuditInit, AuditTypeOK
<1>8. OidcTypeOK /\ OidcInv
  <2>1. OidcInv /\ OidcInit
    BY <1>1, InitOidcInv
  <2>2. /\ requests = <<>> /\ requests \in Seq(Int) /\ Len(requests) = 0
        /\ answer = <<>> /\ answer \in Seq(Nat)
    BY <2>1 DEF OidcInit
  <2>3. call.request = 0 /\ entry = 0
    BY <2>1 DEF OidcInit
  <2>4. 0 \in 0 .. MaxOidcNow /\ 0 \in 0 .. Len(requests)
    BY <2>2, OidcConstants
  <2>5. oidcNow = 0 /\ provider = "off" /\ expires = 0 /\ retryAt = 0 /\ failedAt = -1
    BY <2>1 DEF OidcInit
  <2>6. oidcNow \in 0 .. MaxOidcNow /\ entry \in 0 .. Len(requests) /\ call.request \in 0 .. Len(requests)
    BY <2>3, <2>4, <2>5
  <2>7. provider \in {"off", "on"} /\ expires \in Nat /\ retryAt \in Nat /\ failedAt \in Int
    BY <2>5
  <2>8. loading \in BOOLEAN /\ waiting \in BOOLEAN
    BY <2>1 DEF OidcInit
  <2>9. QED
    BY <2>1, <2>2, <2>6, <2>7, <2>8 DEF OidcTypeOK
<1>9. CreateTypeOK /\ CreateInv
  BY <1>1, InitCreateInv, CreateConstants DEF CreateInit, CreateTypeOK
<1>10. UpdateTypeOK /\ UpdateInv
  BY <1>1, InitUpdateInv, UpdateConstants DEF UpdateInit, UpdateTypeOK, NoBranch
<1>11. QED
  BY <1>2, <1>3, <1>4, <1>5, <1>6, <1>7, <1>8, <1>9, <1>10 DEF JobInv

\* Every step of a job keeps them.
LEMMA JobStepKeeps ==
  ASSUME JobInv, [ActionsNext]_jobVars
  PROVE  JobInv'
<1>1. /\ [StsNext]_stsVars /\ [BrokerNext]_brokerVars /\ [SyncNext]_syncVars
      /\ [AuditNext]_auditVars /\ [EnsureNext]_ensureVars /\ [CiNext]_ciVars
      /\ [OidcNext]_oidcVars /\ [CreateNext]_createVars /\ [UpdateNext]_updateVars
  BY OneActionSteps
<1>2. action' \in ActionNames
  <2>1. action' = action
    BY DEF ActionsNext, ActionsWork, ActionsWorld, Others, jobVars
  <2>2. QED
    BY <2>1 DEF JobInv
<1>3. StsInv'
  BY <1>1, StsStepKeeps DEF JobInv
<1>4. SyncTypes'
  BY <1>1, SyncStepKeepsTypes DEF JobInv
<1>5. EnsureTypeOK' /\ CiTypeOK'
  BY <1>1, EnsureStepKeepsTypes, CiStepKeepsTypes DEF JobInv
<1>6. BrokerTypeOK' /\ BrokerInv'
  BY <1>1, BrokerStepKeeps, BrokerStepKeepsTypes DEF JobInv
<1>7. AuditTypeOK' /\ AuditInv'
  BY <1>1, AuditStepKeeps, AuditStepKeepsTypes DEF JobInv
<1>8. OidcTypeOK' /\ OidcInv'
  BY <1>1, OidcStepKeeps, OidcStepKeepsTypes DEF JobInv
<1>9. CreateTypeOK' /\ CreateInv'
  BY <1>1, CreateStepKeeps, CreateStepKeepsTypes DEF JobInv
<1>10. UpdateTypeOK' /\ UpdateInv'
  BY <1>1, UpdateStepKeeps, UpdateStepKeepsTypes DEF JobInv
<1>11. QED
  BY <1>2, <1>3, <1>4, <1>5, <1>6, <1>7, <1>8, <1>9, <1>10 DEF JobInv

\* The state of every action keeps its types: clocks, counters and budgets stay
\* natural numbers, the broker's operations run only when started, a cache
\* entry is one of the requests, findings are about files that were found.
THEOREM StateIsTyped == ActionsSpec => []ActionsTypeOK
<1>1. ActionsInit => JobInv
  BY InitJobInv
<1>2. JobInv /\ [ActionsNext]_jobVars => JobInv'
  BY JobStepKeeps
<1>3. JobInv => ActionsTypeOK
  BY DEF JobInv, StsInv, SyncTypes, ActionsTypeOK
<1>4. QED
  BY <1>1, <1>2, <1>3, PTL DEF ActionsSpec, ActionsNext
=============================================================================
