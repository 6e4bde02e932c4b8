------------------------- MODULE EnsureSecureRunner -------------------------
(***************************************************************************)
(* actions/ensure-secure-runner: looks into every workflow file it is told *)
(* to scan and decides of each job whether it starts with secure-runner.   *)
(* A workflow is what GitHub's parser makes of it: jobs that are steps, or *)
(* a call of another workflow.                                             *)
(***************************************************************************)
EXTENDS Integers, Sequences, SequencesExt

CONSTANTS
  Files,      \* workflow files of the repository
  InDefault,  \* those in .github/workflows
  FileTexts   \* what may be in the files, functions of the file

\* A step uses an action at some ref, or runs a script (action "run").
StepOf(action, ref, cond) == [action |-> action, ref |-> ref, cond |-> cond]
JobOf(steps) == [calls |-> "nothing", steps |-> steps]
CallOf(target) == [calls |-> target, steps |-> <<>>]
WorkflowOf(jobs) == [kind |-> "workflow", jobs |-> jobs]
Manifest == [kind |-> "manifest", jobs |-> {}]
Broken == [kind |-> "broken", jobs |-> {}]

AnyRef == "any"

\* A file is a workflow, whose jobs have steps or call a workflow, or has no
\* jobs that anyone could make out.
Steps == [action : STRING, ref : STRING, cond : {"none", "success", "other"}]

WellFormed(file) ==
  /\ file.kind \in {"workflow", "manifest", "broken"}
  /\ file.kind # "workflow" => file.jobs = {}
  /\ \A job \in file.jobs :
       /\ job.steps \in Seq(Steps)
       /\ job.calls # "nothing" => job.steps = <<>>

ASSUME EnsureConstants ==
  /\ InDefault \subseteq Files
  /\ \A t \in FileTexts : DOMAIN t = Files /\ \A f \in Files : WellFormed(t[f])

VARIABLES
  scanPaths, \* input `workflows': "dir" for .github/workflows, or files
  accepted,  \* input `actions': action and ref, or AnyRef
  text,      \* what is in each file
  found,     \* files to check, none before they are discovered
  unread,    \* those of them not yet checked
  findings,  \* what was found: file, job, status
  verdict    \* "none", "pass", "violations", "error"

checkInputs == <<scanPaths, accepted, text>>
ensureVars == <<checkInputs, found, unread, findings, verdict>>

-----------------------------------------------------------------------------

UsesMatches(step, entries) ==
  \E e \in entries : step.action = e[1] /\ e[2] \in {AnyRef, step.ref}

SELF_ACTIONS == {<<"ensure-secure-runner", AnyRef>>}
CHECKOUT_ACTIONS == {<<"checkout", AnyRef>>}

\* Mutant: other steps do not matter.
IsCheckerJobAmongOthers(steps) ==
  \E i \in 1..Len(steps) : UsesMatches(steps[i], SELF_ACTIONS)
\* Only checkouts and this very action.
IsCheckerJob(steps) ==
  /\ \A i \in 1..Len(steps) :
       UsesMatches(steps[i], SELF_ACTIONS \cup CHECKOUT_ACTIONS)
  /\ \E i \in 1..Len(steps) : UsesMatches(steps[i], SELF_ACTIONS)

CallStatus(target, scanned) == IF target \in scanned THEN "ok" ELSE "reusable"

\* The first step that uses an accepted action has to be the very first one,
\* and a condition other than the normal one may keep it from running.
StepsStatus(steps) ==
  LET index == SelectInSeq(steps, LAMBDA s : UsesMatches(s, accepted))
  IN  CASE index = 0 /\ IsCheckerJob(steps) -> "checker"
        [] index = 0 /\ ~IsCheckerJob(steps) -> "missing"
        [] index > 1 -> "not-first"
        [] index = 1 /\ steps[1].cond = "other" -> "conditional"
        [] index = 1 /\ steps[1].cond # "other" -> "ok"

JobStatus(job, scanned) ==
  IF job.calls # "nothing" THEN CallStatus(job.calls, scanned)
  ELSE StepsStatus(job.steps)

PASSING == {"ok", "reusable", "checker", "not-a-workflow"}

Violations == {f \in findings : f[3] \notin PASSING}

-----------------------------------------------------------------------------

\* discoverWorkflows(): a path that does not exist, or no file at all, is an
\* error.
Discover ==
  /\ found = {} /\ verdict = "none"
  /\ LET files == (scanPaths \cap Files)
                    \cup (IF "dir" \in scanPaths \/ scanPaths = {} THEN InDefault ELSE {})
     IN  IF files = {} \/ ~(scanPaths \subseteq Files \cup {"dir"})
         THEN verdict' = "error" /\ UNCHANGED <<found, unread>>
         ELSE found' = files /\ unread' = files /\ UNCHANGED verdict
  /\ UNCHANGED <<checkInputs, findings>>

\* checkWorkflow() of one file: an action manifest is skipped, a file that
\* cannot be parsed is a violation.
CheckWorkflow ==
  \E f \in unread :
    /\ unread' = unread \ {f}
    /\ findings' = findings \cup
         CASE text[f].kind = "manifest" -> {<<f, "none", "not-a-workflow">>}
           [] text[f].kind = "broken" -> {<<f, "none", "parse-error">>}
           [] OTHER -> {<<f, j, JobStatus(j, found)>> : j \in text[f].jobs}
    /\ UNCHANGED <<checkInputs, found, verdict>>

\* What main.mjs ends with.
Conclude ==
  /\ found # {} /\ unread = {} /\ verdict = "none"
  /\ verdict' = IF Violations = {} THEN "pass" ELSE "violations"
  /\ UNCHANGED <<checkInputs, found, unread, findings>>

EnsureInit ==
  /\ scanPaths \in SUBSET (Files \cup {"dir", "missing"})
  /\ accepted \in {{<<"secure-runner", AnyRef>>}, {<<"secure-runner", "v1">>}}
  /\ text \in FileTexts
  /\ found = {} /\ unread = {} /\ findings = {} /\ verdict = "none"

EnsureNext == Discover \/ CheckWorkflow \/ Conclude

EnsureDone == verdict # "none"

-----------------------------------------------------------------------------

EnsureTypeOK ==
  /\ found \subseteq Files /\ unread \subseteq found
  /\ \A f \in findings : f[1] \in found
  /\ verdict \in {"none", "pass", "violations", "error"}

\* Seen from the runner: a step that is not secure-runner may be run before
\* secure-runner has been, because conditions may skip any step that has one.
MayRunUnprotected(steps) ==
  \E i \in 1..Len(steps) :
    /\ ~UsesMatches(steps[i], accepted)
    /\ \A k \in 1..(i - 1) :
         UsesMatches(steps[k], accepted) => steps[k].cond = "other"

\* When the check passes, no job of a scanned workflow can run a step before
\* secure-runner, other than a job of nothing but checkouts and this action;
\* local workflows that such a job calls and that were scanned are no
\* exception, and no scanned file was left unread or could not be understood.
NoUnprotectedPasses ==
  verdict = "pass" =>
    \A f \in found : /\ text[f].kind # "broken"
                     /\ \A j \in text[f].jobs :
                          MayRunUnprotected(j.steps) =>
                            \A s \in ToSet(j.steps) :
                              s.action \in {"checkout", "ensure-secure-runner"}

-----------------------------------------------------------------------------
(* What the check relies on between its files.                             *)

\* A file that was checked has left a finding for all that it holds.
FileIsFound(f) ==
  /\ text[f].kind = "broken" => <<f, "none", "parse-error">> \in findings
  /\ \A j \in text[f].jobs : <<f, j, JobStatus(j, found)>> \in findings

EnsureInv ==
  /\ text \in FileTexts /\ found \subseteq Files /\ unread \subseteq found
  /\ \A f \in found \ unread : FileIsFound(f)
  /\ verdict = "pass" => unread = {} /\ Violations = {}
=============================================================================
