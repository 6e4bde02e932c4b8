-------------------------- MODULE DependencyUpdate --------------------------
(***************************************************************************)
(* The coordinator of actions/dependency-update: it prepares an update on  *)
(* top of what its branch already holds, pushes it under a lease, opens or *)
(* renews the pull request and repairs it until CI is green.  Maintainers  *)
(* push to the same branch, and close and reopen the pull request.         *)
(***************************************************************************)
EXTENDS Integers

CONSTANTS
  MaxCiRepairs,   \* max-ci-repairs
  MaxUpdates,     \* bound: runs of the coordinator
  MaxMoves        \* bound: what maintainers do

ASSUME UpdateConstants ==
  MaxCiRepairs \in Nat /\ MaxUpdates \in Nat /\ MaxMoves \in Nat

VARIABLES
  heads,        \* heads that the branch has had; the newest number is in use
  updateBranch, \* at GitHub: number of its head, 0 for no branch, and the
                \* pushes whose changes it holds, each known by its head
  updatePr,     \* "none", "open", "closed": its newest pull request
  policy,       \* closed_pr_policy: "skip" or "new-pr"
  doing,        \* what the coordinator is at
  listed,       \* the pull request as it was listed: state and head
  expected,     \* the head that its next push replaces
  mine,         \* pushes whose changes its commit holds
  repairs,      \* CI repairs of this run
  updates, moves,
  lost          \* pushes dropped by one that had no right to

theBranch == <<heads, updateBranch, updatePr>>
coordinator == <<listed, expected, mine, repairs>>
updateVars == <<theBranch, policy, doing, coordinator, updates, moves, lost>>

NoBranch == [head |-> 0, holds |-> {}]

-----------------------------------------------------------------------------

Proceed(place) == doing' = place

\* A step raises, and nothing is undone.
Raise == doing' = "failed"

StartUpdate ==
  /\ doing \in {"idle", "passed", "failed", "skipped"} /\ updates < MaxUpdates
  /\ updates' = updates + 1 /\ Proceed("list")
  /\ listed' = [state |-> "none", head |-> 0] /\ expected' = NoBranch
  /\ mine' = {} /\ repairs' = 0
  /\ UNCHANGED <<theBranch, policy, moves, lost>>

\* The plan may say that there is nothing to do; a pull request that was closed
\* may be the last word.
ListPulls ==
  /\ doing = "list"
  /\ \/ Proceed("skipped")
     \/ Raise
     \/ Proceed(IF updatePr = "closed" /\ policy = "skip" THEN "skipped" ELSE "look")
  /\ listed' = [state |-> updatePr,
                head |-> IF updatePr = "open" THEN updateBranch.head ELSE 0]
  /\ UNCHANGED <<theBranch, policy, expected, mine, repairs, updates, moves, lost>>

\* The branch is continued if it has an open pull request or never had one;
\* otherwise the update starts over from the base.
Continues == expected'.head # 0 /\ listed.state # "closed"

LookAtBranch ==
  /\ doing = "look" /\ expected' = updateBranch
  /\ \/ Raise
     \/ Continues /\ listed.state = "open" /\ listed.head # expected'.head /\ Raise
     \/ Continues /\ (listed.state = "open" => listed.head = expected'.head) /\ Proceed("fetch")
     \/ ~Continues /\ Proceed("prepare")
  /\ UNCHANGED <<theBranch, policy, listed, mine, repairs, updates, moves, lost>>

\* What is fetched has to be what was seen, and is rebased without conflicts.
FetchBranch ==
  /\ doing = "fetch"
  /\ \/ Raise /\ UNCHANGED mine
     \/ updateBranch.head = expected.head /\ mine' = updateBranch.holds /\ Proceed("prepare")
  /\ UNCHANGED <<theBranch, policy, listed, expected, repairs, updates, moves, lost>>

\* The update is applied and repaired locally, for as long as its budget lasts.
PrepareUpdate ==
  /\ doing = "prepare"
  /\ Raise \/ Proceed("check")
  /\ UNCHANGED <<theBranch, policy, coordinator, updates, moves, lost>>

\* require_head(): the pull request is open and its head the one expected.
RequireHead(head) == updatePr = "open" /\ updateBranch.head = head

CheckHead ==
  /\ doing = "check"
  /\ \/ Raise
     \/ (listed.state = "open" => RequireHead(expected.head)) /\ Proceed("push")
  /\ UNCHANGED <<theBranch, policy, coordinator, updates, moves, lost>>

\* What the push drops without having seen it, or from a branch that it said
\* it would continue.
Dropped(pushed) ==
  LET gone == updateBranch.holds \ pushed
  IN  IF listed.state # "closed" THEN gone ELSE gone \ expected.holds

\* Mutant: git push --force.
LeaseIgnored == TRUE
\* git push --force-with-lease: the branch is still what it was.
LeaseHolds == updateBranch.head = expected.head

\* It may have happened although git says it failed.
PushUpdate ==
  /\ doing = "push"
  /\ \/ /\ LeaseHolds
        /\ LET pushed == mine \cup {heads + 1}
           IN  /\ updateBranch' = [head |-> heads + 1, holds |-> pushed]
               /\ lost' = lost \cup Dropped(pushed)
               /\ mine' = pushed /\ expected' = updateBranch' /\ heads' = heads + 1
        /\ Proceed("pull") \/ Raise
     \/ Raise /\ UNCHANGED <<updateBranch, lost, mine, expected, heads>>
  /\ UNCHANGED <<updatePr, policy, listed, repairs, updates, moves>>

\* The open pull request is edited; a new one is refused if there is one.
PullRequest ==
  /\ doing = "pull"
  /\ \/ Raise /\ UNCHANGED <<updatePr, listed>>
     \/ listed.state = "open" /\ Proceed("poll") /\ UNCHANGED <<updatePr, listed>>
     \/ /\ listed.state # "open" /\ updatePr # "open" /\ updateBranch.head # 0
        /\ updatePr' = "open" /\ Proceed("poll")
        /\ listed' = [state |-> "open", head |-> expected.head]
  /\ UNCHANGED <<heads, updateBranch, policy, expected, mine, repairs, updates,
                 moves, lost>>

\* CI of a head that is still the pull request's is green, or has failed and is
\* repaired; without a verdict it is polled until the deadline.
Poll ==
  /\ doing = "poll"
  /\ \/ Raise /\ UNCHANGED repairs
     \/ RequireHead(expected.head) /\ Proceed("passed") /\ UNCHANGED repairs
     \/ /\ RequireHead(expected.head) /\ repairs < MaxCiRepairs
        /\ repairs' = repairs + 1 /\ Proceed("check")
  /\ UNCHANGED <<theBranch, policy, listed, expected, mine, updates, moves, lost>>

\* A maintainer adds a commit to the branch, or makes one of it anew.
MaintainerPush ==
  /\ moves < MaxMoves /\ moves' = moves + 1 /\ heads' = heads + 1
  /\ updateBranch' = [head |-> heads + 1, holds |-> updateBranch.holds \cup {heads + 1}]
  /\ UNCHANGED <<updatePr, policy, doing, coordinator, updates, lost>>

\* A maintainer merges or closes the pull request, with or without deleting the
\* branch, or reopens it.
MaintainerMove ==
  /\ moves < MaxMoves /\ moves' = moves + 1
  /\ \/ updatePr = "open" /\ updatePr' = "closed" /\ updateBranch' \in {updateBranch, NoBranch}
     \/ /\ updatePr = "closed" /\ updateBranch.head # 0 /\ updatePr' = "open"
        /\ UNCHANGED updateBranch
  /\ UNCHANGED <<heads, policy, doing, coordinator, updates, lost>>

\* The coordinator is stopped.
StopUpdate ==
  /\ doing \notin {"idle", "passed", "failed", "skipped"} /\ Raise
  /\ UNCHANGED <<theBranch, policy, coordinator, updates, moves, lost>>

UpdateInit ==
  /\ heads = 0 /\ updateBranch = NoBranch /\ updatePr = "none"
  /\ policy \in {"skip", "new-pr"} /\ doing = "idle"
  /\ listed = [state |-> "none", head |-> 0] /\ expected = NoBranch /\ mine = {}
  /\ repairs = 0 /\ updates = 0 /\ moves = 0 /\ lost = {}

Coordinator ==
  \/ StartUpdate \/ ListPulls \/ LookAtBranch \/ FetchBranch \/ PrepareUpdate
  \/ CheckHead \/ PushUpdate \/ PullRequest \/ Poll

UpdateWorld == MaintainerPush \/ MaintainerMove \/ StopUpdate

UpdateNext == Coordinator \/ UpdateWorld

UpdateDone == doing \in {"passed", "failed", "skipped"}

-----------------------------------------------------------------------------

UpdateTypeOK ==
  /\ updateBranch.head \in 0..heads /\ updateBranch.holds \subseteq 1..heads
  /\ updatePr \in {"none", "open", "closed"} /\ mine \subseteq 1..heads
  /\ repairs \in 0..MaxCiRepairs /\ lost \subseteq 1..heads

\* A push of the coordinator loses nobody's work: while it continues a branch
\* everything that was pushed to it is in its commit, also what came between
\* looking, fetching, repairing and pushing, between two CI repairs, or from
\* runs that were stopped; and when it starts over because the pull request was
\* closed, it drops only what was on the branch when it looked.
PushesAreKept ==
  /\ lost = {}
  /\ doing = "poll" => expected.holds = mine

-----------------------------------------------------------------------------
(* The inductive invariant.                                                *)

\* A head stands for one state of the branch, so a lease that holds says what
\* the branch holds.
LeaseIsExact ==
  /\ heads \in Nat /\ updateBranch.head \in 0..heads /\ expected.head \in 0..heads
  /\ updateBranch.head = 0 => updateBranch.holds = {}
  /\ expected.head = updateBranch.head => expected.holds = updateBranch.holds
  /\ expected.head = 0 => expected.holds = {}

\* The commit of a run that continues a branch holds what the run saw on it.
SeenIsHeld ==
  /\ doing \in {"prepare", "check", "push"} /\ listed.state # "closed" =>
       expected.holds \subseteq mine
  /\ doing \in {"pull", "poll"} => expected.holds = mine

UpdateInv == LeaseIsExact /\ SeenIsHeld /\ PushesAreKept
=============================================================================
