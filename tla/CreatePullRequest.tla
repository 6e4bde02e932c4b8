-------------------------- MODULE CreatePullRequest --------------------------
(***************************************************************************)
(* actions/create-pull-request: one job commits its changes to a branch    *)
(* and opens a pull request for it, or renews the one that is open.  Each  *)
(* step is a call of GitHub; between two of them other runs of the action  *)
(* and maintainers may do what they like, and the job may stop.            *)
(***************************************************************************)
EXTENDS Integers, FiniteSets

CONSTANTS
  Runs,       \* runs of the action
  Wanted,    \* what they want to commit, as trees other than the base's
  MaxClosed   \* bound: pull requests that maintainers merge or close

ASSUME CreateConstants == 0 \notin Wanted /\ MaxClosed \in Nat

\* A ref holds nothing, the base commit, or a commit of a run.
NoRef == <<>>
BaseSha == <<"base", 0>>
CommitOf(r, tree) == <<r, tree>>
TreeOf(commit) == commit[2]

VARIABLES
  branch,     \* the head branch
  scratch,    \* of each run: its scratch branch
  openPr,     \* number of the open pull request for the branch, 0 for none
  prs,        \* pull requests so far
  closers,    \* who closed one by emptying it: run and number
  closed,     \* pull requests that maintainers merged or closed
  task,       \* of each run: where it is
  wants,      \* the tree that it wants
  sawBranch, sawPr,   \* what it read of the branch and of its pull requests
  made,       \* the commit that it reports
  alone       \* nobody else has done anything since it started

remote == <<branch, openPr, prs, closers>>
runVars == <<task, wants, sawBranch, sawPr, made>>
createVars == <<remote, scratch, closed, runVars, alone>>

-----------------------------------------------------------------------------

At(r, place) == task[r] = place
Goto(r, place) == task' = [task EXCEPT ![r] = place]

\* The step fails: bash stops, and its trap, set if a pull request was seen,
\* tries to delete the scratch branch.
Exit(r, place) ==
  /\ Goto(r, place)
  /\ scratch' \in {scratch} \cup {[scratch EXCEPT ![r] = NoRef] : p \in {sawPr[r]} \ {0}}

\* What another actor does ends a run's being alone.
Disturb(r) == alone' = [s \in Runs |-> alone[s] /\ s = r]

\* A pull request whose branch moves to the base has no changes left, and
\* GitHub closes it.
MoveBranch(r, commit) ==
  /\ branch' = commit
  /\ IF commit = BaseSha /\ openPr # 0
     THEN openPr' = 0 /\ closers' = closers \cup {<<r, openPr>>}
     ELSE UNCHANGED <<openPr, closers>>
  /\ UNCHANGED prs

StartCreate(r) ==
  /\ At(r, "idle") /\ Goto(r, "branch")
  /\ \E tree \in Wanted : wants' = [wants EXCEPT ![r] = tree]
  /\ alone' = [s \in Runs |-> s = r \/ (alone[s] /\ task[s] \in {"done", "failed"})]
  /\ UNCHANGED <<remote, scratch, sawBranch, sawPr, made>>

\* A failing call reads as no branch.
ReadBranch(r) ==
  /\ At(r, "branch") /\ Goto(r, "list")
  /\ \E b \in {branch, NoRef} : sawBranch' = [sawBranch EXCEPT ![r] = b]
  /\ UNCHANGED <<remote, scratch, wants, sawPr, made>>

ListPr(r) ==
  /\ At(r, "list")
  /\ \/ sawPr' = [sawPr EXCEPT ![r] = openPr] /\ Goto(r, "compare") /\ UNCHANGED scratch
     \/ Exit(r, "failed") /\ UNCHANGED sawPr
  /\ UNCHANGED <<remote, wants, sawBranch, made>>

\* An open pull request with these very changes is left as it is, if the tree
\* of its branch can be read.
Compare(r) ==
  /\ At(r, "compare")
  /\ \/ /\ sawPr[r] # 0 /\ sawBranch[r] # NoRef /\ TreeOf(sawBranch[r]) = wants[r]
        /\ made' = [made EXCEPT ![r] = sawBranch[r]] /\ Goto(r, "pr")
     \/ Goto(r, "reset") /\ UNCHANGED made
  /\ UNCHANGED <<remote, scratch, wants, sawBranch, sawPr>>

\* The commit is made on the branch itself only when it has no pull request.
OnScratch(r) == sawPr[r] # 0

ResetRef(r) ==
  /\ At(r, "reset")
  /\ \/ /\ Goto(r, "commit")
        /\ IF OnScratch(r)
           THEN scratch' = [scratch EXCEPT ![r] = BaseSha] /\ UNCHANGED remote
           ELSE MoveBranch(r, BaseSha) /\ UNCHANGED scratch
     \/ Exit(r, "failed") /\ UNCHANGED remote
  /\ UNCHANGED <<wants, sawBranch, sawPr, made>>

\* createCommitOnBranch, expecting the base at its head; its answer may be lost.
CreateCommit(r) ==
  LET commit == CommitOf(r, wants[r])
      ref == IF OnScratch(r) THEN scratch[r] ELSE branch
  IN  /\ At(r, "commit")
      /\ \/ /\ ref = BaseSha
            /\ IF OnScratch(r)
               THEN scratch' = [scratch EXCEPT ![r] = commit] /\ UNCHANGED remote
               ELSE MoveBranch(r, commit) /\ UNCHANGED scratch
            /\ \/ /\ Goto(r, IF OnScratch(r) THEN "move" ELSE "pr")
                  /\ made' = [made EXCEPT ![r] = commit]
               \/ Goto(r, "failed") /\ UNCHANGED made
         \/ Exit(r, "failed") /\ UNCHANGED <<remote, made>>
      /\ UNCHANGED <<wants, sawBranch, sawPr>>

MoveHead(r) ==
  /\ At(r, "move")
  /\ \/ branch # NoRef /\ MoveBranch(r, made[r]) /\ Goto(r, "pr") /\ UNCHANGED scratch
     \/ Exit(r, "failed") /\ UNCHANGED remote
  /\ UNCHANGED <<wants, sawBranch, sawPr, made>>

\* A second pull request for the branch, or one without changes, is refused.
\* One that was seen is edited, even if it has been closed since.  The step may
\* still fail after it, when the answer is lost or merging cannot be enabled.
PublishPr(r) ==
  /\ At(r, "pr")
  /\ \/ /\ sawPr[r] = 0 /\ openPr = 0 /\ branch \notin {NoRef, BaseSha}
        /\ prs' = prs + 1 /\ openPr' = prs + 1
        /\ Exit(r, "done") \/ Exit(r, "failed")
     \/ sawPr[r] # 0 /\ Exit(r, "done") /\ UNCHANGED <<prs, openPr>>
     \/ Exit(r, "failed") /\ UNCHANGED <<prs, openPr>>
  /\ UNCHANGED <<branch, closers, wants, sawBranch, sawPr, made>>

\* The job is stopped; its trap does not run.
StopCreate(r) ==
  /\ task[r] \notin {"idle", "done", "failed"} /\ Goto(r, "failed")
  /\ UNCHANGED <<remote, scratch, wants, sawBranch, sawPr, made>>

\* A maintainer merges or closes the pull request, and may delete the branch.
ClosePr ==
  /\ openPr # 0 /\ closed < MaxClosed
  /\ closed' = closed + 1 /\ openPr' = 0 /\ branch' \in {branch, NoRef}
  /\ alone' = [s \in Runs |-> FALSE]
  /\ UNCHANGED <<prs, closers, scratch, runVars>>

CreateStep(r) ==
  \/ ReadBranch(r) \/ ListPr(r) \/ Compare(r) \/ ResetRef(r)
  \/ CreateCommit(r) \/ MoveHead(r) \/ PublishPr(r)

CreateRun(r) ==
  UNCHANGED closed /\ (StartCreate(r) \/ (Disturb(r) /\ (CreateStep(r) \/ StopCreate(r))))

CreateInit ==
  /\ branch = NoRef /\ openPr = 0 /\ prs = 0 /\ closers = {} /\ closed = 0
  /\ scratch = [r \in Runs |-> NoRef]
  /\ task = [r \in Runs |-> "idle"] /\ wants = [r \in Runs |-> 0]
  /\ sawBranch = [r \in Runs |-> NoRef] /\ sawPr = [r \in Runs |-> 0]
  /\ made = [r \in Runs |-> NoRef] /\ alone = [r \in Runs |-> FALSE]

CreateNext == ClosePr \/ \E r \in Runs : CreateRun(r)

-----------------------------------------------------------------------------

CreateTypeOK ==
  /\ openPr \in 0..prs /\ closed \in 0..MaxClosed /\ sawPr \in [Runs -> 0..prs]
  /\ \A c \in closers : c[1] \in Runs /\ c[2] \in 1..prs
  /\ wants \in [Runs -> Wanted \cup {0}] /\ alone \in [Runs -> BOOLEAN]

\* A run that nobody disturbs leaves an open pull request whose branch is the
\* commit that it reports and holds its changes, whatever branches and pull
\* requests earlier runs left that failed, were stopped or lost an answer.  And
\* a run never makes GitHub close a pull request that was open when it looked.
PullRequestKept ==
  /\ \A r \in Runs : task[r] = "done" /\ alone[r] =>
       openPr # 0 /\ branch = made[r] /\ TreeOf(branch) = wants[r]
  /\ \A c \in closers : sawPr[c[1]] = 0

-----------------------------------------------------------------------------
(* The inductive invariant.                                                *)

Before == {"idle", "branch", "list", "compare", "reset"}

\* What a run knows that nobody has disturbed, and what is true anyway.
RunIsInStep(r) ==
  /\ task[r] # "idle" => wants[r] \in Wanted
  /\ task[r] = "move" => sawPr[r] # 0 /\ made[r] = CommitOf(r, wants[r])
  /\ alone[r] =>
       /\ task[r] # "idle"
       /\ task[r] \in {"list", "compare"} => sawBranch[r] \in {branch, NoRef}
       /\ task[r] \in {"compare", "reset", "commit", "move", "pr"} => sawPr[r] = openPr
       /\ task[r] \in {"pr", "done"} => branch = made[r] /\ TreeOf(branch) = wants[r]
       /\ task[r] = "done" => openPr # 0

\* Who emptied the branch under a pull request had seen that there was none.
EmptiedUnseen ==
  \A c \in closers : c[1] \in Runs /\ sawPr[c[1]] = 0 /\ task[c[1]] \notin Before

CreateInv ==
  /\ prs \in Nat /\ openPr \in Nat
  /\ task \in [Runs -> {"idle", "branch", "list", "compare", "reset", "commit",
                        "move", "pr", "done", "failed"}]
  /\ DOMAIN wants = Runs /\ DOMAIN sawBranch = Runs /\ DOMAIN sawPr = Runs
  /\ DOMAIN made = Runs /\ alone \in [Runs -> BOOLEAN]
  /\ \A r \in Runs : RunIsInStep(r)
  /\ EmptiedUnseen
=============================================================================
