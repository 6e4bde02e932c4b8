-------------------------- MODULE ChangesetsRelease --------------------------
(***************************************************************************)
(* Runs of the changesets-release workflow for pushes without pending      *)
(* changesets: pack, publish and release (changesets-release.yml, with     *)
(* pack() and publish() of actions/npm-publish/publish.cjs).               *)
(*                                                                         *)
(* Every push has a run.  Runs overlap; their publish jobs form one        *)
(* concurrency group.  A job may fail or be cancelled at any step, and the *)
(* failed jobs of a run may be rerun.  A version is a pair of a package    *)
(* and a number.                                                           *)
(***************************************************************************)
EXTENDS SortedLists

CONSTANTS
  Packages,  \* names of the workspace's packages
  Deps,      \* per package: the packages it depends on at run time
  Commits,   \* per push: the version of every package
  Ambiguous, \* per push: packages whose name a fixture or an example reuses
             \* with another version
  Reruns     \* whether failed jobs are rerun

ASSUME ReleaseConstants ==
  /\ Packages \subseteq Nat \ {0} /\ IsFiniteSet(Packages)
  /\ Deps \in [Packages -> SUBSET Packages]
  /\ Commits \in Seq([Packages -> Nat \ {0}]) /\ Commits # <<>>
  /\ Ambiguous \in [DOMAIN Commits -> SUBSET Packages]
  /\ Reruns \in BOOLEAN

Runs == DOMAIN Commits
None == 0
At(r, p) == <<p, Commits[r][p]>>
\* Version 0 stands for what was released before the first push.
Versions == (Packages \X {0}) \cup {At(r, p) : r \in Runs, p \in Packages}

VARIABLES
  npm,         \* versions on npm
  staged,      \* versions that were staged on npm and that it does not serve
  uploader,    \* the run that uploaded each version, or None
  tags,        \* versions with a tag and a GitHub release
  publishing,  \* the run whose publish job has the concurrency group
  waiting,     \* the run whose publish job is pending in it
  run          \* the state of every run

vars == <<npm, staged, uploader, tags, publishing, waiting, run>>

Phases == {"pack", "ready", "waiting", "check", "next", "uploading",
           "release", "view", "create", "done", "failed"}
Jobs == {"pack", "publish", "release"}

RunState ==
  [phase : Phases, job : Jobs, plan : Seq(Packages), onNpm : SUBSET Packages,
   i : Nat, published : SUBSET Packages, released : SUBSET Packages,
   missed : SUBSET Packages, resumable : SUBSET Packages, rows : Seq(Packages),
   had : SUBSET Packages]

ReleaseTypeOK ==
  /\ npm \in SUBSET Versions /\ staged \in SUBSET Versions /\ npm \cap staged = {}
  /\ uploader \in [Versions -> Runs \cup {None}]
  /\ tags \in SUBSET Versions
  /\ {publishing, waiting} \subseteq Runs \cup {None}
  /\ run \in [Runs -> RunState]
  /\ \A r \in Runs :
       /\ run[r].phase \in {"check", "next", "uploading"} <=> publishing = r
       /\ run[r].phase = "waiting" <=> waiting = r

\* Earlier releases, with or without tags; some versions of the first push
\* may already be on npm.
Init ==
  /\ \E S \in SUBSET {At(1, p) : p \in Packages} :
       npm = (Packages \X {0}) \cup S
  /\ staged = {}
  /\ tags \in SUBSET npm
  /\ uploader = [v \in Versions |-> None]
  /\ publishing = None /\ waiting = None
  /\ run = [r \in Runs |->
       [phase |-> "pack", job |-> "pack", plan |-> <<>>, onNpm |-> {}, i |-> 1,
        published |-> {}, released |-> {}, missed |-> {}, resumable |-> {},
        rows |-> <<>>, had |-> {}]]

-----------------------------------------------------------------------------
(* pack: the dependency order of what is not on npm yet.                   *)

\* Mutant: the packages are packed by name.
OrderedByName(S) == Sorted(S)
\* orderPackages: rounds of the packages that wait for nothing, each round by
\* name.
Ordered(S) ==
  Rounds([R \in SUBSET S |-> {p \in R : Deps[p] \cap R \subseteq {p}}], S)[S]

\* A lookup of each package takes a while and may lag behind the registry.  With
\* a cycle between the packages the job only fails.
Pack(r) ==
  /\ run[r].phase = "pack" /\ Ordered(Packages) # Failed
  /\ \E onNpm \in SUBSET {p \in Packages : At(r, p) \in npm} :
       run' = [run EXCEPT
         ![r].onNpm = onNpm,
         ![r].plan = Kept(Ordered(Packages), Packages \ onNpm),
         ![r].phase = IF onNpm = Packages THEN "done" ELSE "ready",
         ![r].job = IF onNpm = Packages THEN @ ELSE "publish"]
  /\ UNCHANGED <<npm, staged, uploader, tags, publishing, waiting>>

-----------------------------------------------------------------------------
(* publish: one job of the group runs, the latest other one waits.         *)

\* Mutant: no concurrency group.
StartPublishUngrouped(r) ==
  /\ run[r].phase = "ready"
  /\ publishing' = r
  /\ run' = [run EXCEPT ![r].phase = "check"]
  /\ UNCHANGED <<npm, staged, uploader, tags, waiting>>
StartPublish(r) ==
  /\ run[r].phase = "ready"
  /\ IF publishing = None
       THEN /\ publishing' = r
            /\ run' = [run EXCEPT ![r].phase = "check"]
            /\ UNCHANGED waiting
       ELSE /\ waiting' = r
            /\ run' = [q \in Runs |->
                 CASE q = r       -> [run[q] EXCEPT !.phase = "waiting"]
                   [] q = waiting -> [run[q] EXCEPT !.phase = "failed"]
                   [] OTHER       -> run[q]]
            /\ UNCHANGED publishing
  /\ UNCHANGED <<npm, staged, uploader, tags>>

\* The publish job of r leaves the group with its run in the given state; the
\* waiting one starts.
LeaveGroup(r, state) ==
  /\ publishing' = waiting
  /\ waiting' = None
  /\ run' = [q \in Runs |->
       CASE q = r       -> state
         [] q = waiting -> [run[q] EXCEPT !.phase = "check"]
         [] OTHER       -> run[q]]

\* Mutant: only what is planned is handed on.
ResumableNone(r, missed) == {}
\* What pack found on npm and a second lookup confirms, if the commit has one
\* version under that name.
Resumable(r, missed) ==
  {p \in run[r].onNpm \ missed : p \notin Ambiguous[r] /\ At(r, p) \in npm}

\* The tarballs and prerequisites are in order, and no name that is planned is
\* ambiguous.  The second lookup may lag as well.
Check(r) ==
  /\ run[r].phase = "check"
  /\ \A k \in 1 .. Len(run[r].plan) : run[r].plan[k] \notin Ambiguous[r]
  /\ \E missed \in SUBSET run[r].onNpm :
       run' = [run EXCEPT ![r].phase = "next", ![r].i = 1, ![r].missed = missed,
                          ![r].resumable = Resumable(r, missed),
                          ![r].published = {}, ![r].released = {}]
  /\ UNCHANGED <<npm, staged, uploader, tags, publishing, waiting>>

Current(r) == run[r].plan[run[r].i]

\* Mutant: only this run's uploads count as released.
AdvancedOwnOnly(r, p, uploaded) ==
  [run[r] EXCEPT !.phase = "next", !.i = @ + 1,
                 !.released = IF uploaded THEN @ \cup {p} ELSE @,
                 !.published = IF uploaded THEN @ \cup {p} ELSE @]
\* The state of r after npm is known to have been given p.
Advanced(r, p, uploaded) ==
  [run[r] EXCEPT !.phase = "next", !.i = @ + 1, !.released = @ \cup {p},
                 !.published = IF uploaded THEN @ \cup {p} ELSE @]

NextPackage(r) ==
  /\ run[r].phase = "next" /\ run[r].i <= Len(run[r].plan)
  /\ LET p == Current(r)
     IN \/ /\ At(r, p) \in npm
           /\ run' = [run EXCEPT ![r] = Advanced(r, p, FALSE)]
        \/ run' = [run EXCEPT ![r].phase = "uploading"]
  /\ UNCHANGED <<npm, staged, uploader, tags, publishing, waiting>>

\* npm refuses what was published before, and what was staged before, approved
\* or not: the job takes both for done.
AlreadyOnNpm(v) == v \in npm \/ v \in staged

\* npm publish for the current package; a transient error is tried again.
\* npm may have taken the version before it fails.
Upload(r) ==
  /\ run[r].phase = "uploading"
  /\ LET v == At(r, Current(r))
     IN \/ /\ AlreadyOnNpm(v)
           /\ run' = [run EXCEPT ![r] = Advanced(r, Current(r), FALSE)]
           /\ UNCHANGED <<npm, uploader>>
        \/ /\ ~AlreadyOnNpm(v)
           /\ npm' = npm \cup {v}
           /\ uploader' = [uploader EXCEPT ![v] = r]
           /\ run' \in {run, [run EXCEPT ![r] = Advanced(r, Current(r), TRUE)]}
  /\ UNCHANGED <<staged, tags, publishing, waiting>>

PublishEnds(r) ==
  /\ run[r].phase = "next" /\ run[r].i > Len(run[r].plan)
  /\ LeaveGroup(r, [run[r] EXCEPT !.phase = "release", !.job = "release"])
  /\ UNCHANGED <<npm, staged, uploader, tags>>

-----------------------------------------------------------------------------
(* release: a tag and a GitHub release for each row.                       *)

Tagged(p) == \E v \in tags : v[1] = p

\* The released versions, then the resumable ones.
StartRelease(r) ==
  /\ run[r].phase = "release"
  /\ LET InOrder(S) == Kept(Ordered(Packages), S)
     IN run' = [run EXCEPT
          ![r].phase = "view",
          ![r].rows = InOrder(run[r].released)
                        \o InOrder(run[r].resumable \ run[r].released),
          ![r].had = {p \in Packages : Tagged(p)}]
  /\ UNCHANGED <<npm, staged, uploader, tags, publishing, waiting>>

\* A row that resumes nothing.
Skipped(r, p) == p \notin run[r].released /\ (At(r, p) \in tags \/ ~Tagged(p))

\* Looking at the next row; an error passes for a release that is missing.
View(r) ==
  /\ run[r].phase = "view"
  /\ IF run[r].rows = <<>>
       THEN run' = [run EXCEPT ![r].phase = "done"]
       ELSE LET p == Head(run[r].rows)
            IN \/ /\ At(r, p) \in tags \/ Skipped(r, p)
                  /\ run' = [run EXCEPT ![r].rows = Tail(@)]
               \/ /\ ~Skipped(r, p)
                  /\ run' = [run EXCEPT ![r].phase = "create"]
  /\ UNCHANGED <<npm, staged, uploader, tags, publishing, waiting>>

\* gh release create, which fails when another run was faster.
Create(r) ==
  /\ run[r].phase = "create"
  /\ LET v == At(r, Head(run[r].rows))
     IN  /\ v \notin tags
         /\ tags' = tags \cup {v}
         /\ \/ run' = [run EXCEPT ![r].phase = "view", ![r].rows = Tail(@)]
            \/ run' = [run EXCEPT ![r].phase = "failed"]
  /\ UNCHANGED <<npm, staged, uploader, publishing, waiting>>

-----------------------------------------------------------------------------
(* Owners of a package stage a version, which npm serves when they approve.  *)

OwnerStages(v) ==
  /\ v \notin npm \cup staged
  /\ staged' = staged \cup {v}
  /\ UNCHANGED <<npm, uploader, tags, publishing, waiting, run>>

OwnerApproves(v) ==
  /\ v \in staged
  /\ staged' = staged \ {v} /\ npm' = npm \cup {v}
  /\ UNCHANGED <<uploader, tags, publishing, waiting, run>>

-----------------------------------------------------------------------------
(* Failures.                                                               *)

\* The job of r fails, or is cancelled, where it is.
Fail(r) ==
  /\ run[r].phase \notin {"done", "failed"}
  /\ LET state == [run[r] EXCEPT !.phase = "failed"]
     IN CASE publishing = r -> LeaveGroup(r, state)
          [] waiting = r    -> /\ waiting' = None
                               /\ run' = [run EXCEPT ![r] = state]
                               /\ UNCHANGED publishing
          [] OTHER          -> /\ run' = [run EXCEPT ![r] = state]
                               /\ UNCHANGED <<publishing, waiting>>
  /\ UNCHANGED <<npm, staged, uploader, tags>>

\* The failed job is run again, with the outputs of the jobs before it.
Rerun(r) ==
  /\ Reruns /\ run[r].phase = "failed"
  /\ run' = [run EXCEPT ![r].phase =
       CASE run[r].job = "pack"    -> "pack"
         [] run[r].job = "publish" -> "ready"
         [] run[r].job = "release" -> "release"]
  /\ UNCHANGED <<npm, staged, uploader, tags, publishing, waiting>>

Step(r) ==
  \/ Pack(r) \/ StartPublish(r) \/ Check(r) \/ NextPackage(r) \/ Upload(r)
  \/ PublishEnds(r) \/ StartRelease(r) \/ View(r) \/ Create(r)

Next ==
  \/ \E r \in Runs : Step(r) \/ Fail(r) \/ Rerun(r)
  \/ \E v \in Versions : OwnerStages(v) \/ OwnerApproves(v)

Spec == Init /\ [][Next]_vars

-----------------------------------------------------------------------------
(* Properties.                                                             *)

\* What a run uploads never lacks a dependency: at every moment, failures
\* included, npm has been given the versions its package depends on at that
\* commit.  One of them may only be staged, by an owner.
DependenciesFirst ==
  \A v \in Versions :
    uploader[v] # None =>
      \A d \in Deps[v[1]] : AlreadyOnNpm(At(uploader[v], d))

\* Tags only name versions that npm was given, whatever failed or was rerun in
\* between.
TaggedIsGiven == \A v \in tags : AlreadyOnNpm(v)

\* The README: a run that succeeds, on a rerun of its failed jobs if need be,
\* has tagged every version of its plan, the ones that its earlier attempts or
\* other runs uploaded included.
DoneIsTagged ==
  \A r \in Runs :
    run[r].phase = "done" =>
      \A k \in 1 .. Len(run[r].plan) : At(r, run[r].plan[k]) \in tags

\* Tags and npm agree as far as the runs that succeeded say.
TagsAreRight == TaggedIsGiven /\ DoneIsTagged

\* The README: a later release that publishes something also tags the versions
\* that an interrupted release uploaded, when the package has older tags.  It
\* does for every package whose name is unambiguous at the commit and whose
\* version the publish job did not miss when it looked.
InterruptedIsResumed ==
  \A r \in Runs :
    run[r].phase = "done" =>
      \A p \in run[r].had \ (Ambiguous[r] \cup run[r].missed) : At(r, p) \in tags

\* publish.cjs: "Every planned version confirmed on npm [...]: the versions a
\* release step tags."
TaggedIsOnNpm == tags \subseteq npm

\* The published output of the action: the versions that this run uploaded.
PublishedIsOwn ==
  \A r \in Runs :
    run[r].phase = "done" =>
      \A p \in Packages : uploader[At(r, p)] = r => p \in run[r].published

-----------------------------------------------------------------------------
(* The inductive invariant.                                                *)

\* Which job a run is in, as far as its state says.
PhaseFitsJob(r) ==
  /\ run[r].phase = "pack" => run[r].job = "pack"
  /\ run[r].phase \in {"ready", "waiting", "check", "next", "uploading"} =>
       run[r].job = "publish"
  /\ run[r].phase \in {"release", "view", "create"} => run[r].job = "release"
  /\ run[r].phase = "done" => run[r].job # "publish"
  /\ run[r].job # "release" => run[r].rows = <<>> /\ run[r].had = {}

\* Every package was on npm or is in the plan, behind what it depends on.
PlanIsKept(r) ==
  IF run[r].job = "pack"
    THEN run[r].plan = <<>>
    ELSE /\ Ordered(Packages) # Failed
         /\ \A p \in run[r].onNpm : At(r, p) \in npm
         /\ \A p \in Packages : p \in run[r].onNpm
              \/ \E k \in 1 .. Len(run[r].plan) : run[r].plan[k] = p
         /\ \A k, l \in 1 .. Len(run[r].plan) :
              run[r].plan[l] \in Deps[run[r].plan[k]] =>
                l < k \/ run[r].plan[l] = run[r].plan[k]

\* What the publish job has passed is released, and npm was given it.
PassedIsReleased(r) ==
  /\ \A p \in run[r].released : AlreadyOnNpm(At(r, p))
  /\ run[r].phase \in {"next", "uploading"} =>
       /\ run[r].i >= 1
       /\ \A k \in 1 .. Len(run[r].plan) : k < run[r].i => run[r].plan[k] \in run[r].released
  /\ run[r].phase = "uploading" => run[r].i <= Len(run[r].plan)
  /\ run[r].job = "release" =>
       \A k \in 1 .. Len(run[r].plan) : run[r].plan[k] \in run[r].released
  /\ run[r].phase \in {"next", "uploading"} \/ run[r].job = "release" =>
       run[r].resumable = run[r].onNpm \ (Ambiguous[r] \cup run[r].missed)

\* What the release job has to tag has a tag or a row that is left.
RowsAreLeft(r) ==
  /\ \A p \in run[r].had : Tagged(p)
  /\ run[r].phase = "create" => run[r].rows # <<>>
  /\ run[r].phase = "done" => run[r].rows = <<>>
  /\ run[r].phase \in {"view", "create", "done"} /\ run[r].job = "release" =>
       /\ \A k \in 1 .. Len(run[r].rows) :
            run[r].rows[k] \in run[r].released \cup run[r].resumable
       /\ \A p \in run[r].released \cup (run[r].had \ (Ambiguous[r] \cup run[r].missed)) :
            At(r, p) \in tags \/ \E k \in 1 .. Len(run[r].rows) : run[r].rows[k] = p

ReleaseInv ==
  /\ ReleaseTypeOK /\ DependenciesFirst /\ TaggedIsGiven
  /\ \A r \in Runs :
       PhaseFitsJob(r) /\ PlanIsKept(r) /\ PassedIsReleased(r) /\ RowsAreLeft(r)
=============================================================================
