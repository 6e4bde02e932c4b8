---------------------------- MODULE ConditionalCi ----------------------------
(***************************************************************************)
(* Conditional CI of actions/changed-paths and actions/check-needs: one    *)
(* job finds out which filters the changed files match, the jobs behind    *)
(* those filters run, the others are skipped, and a gate job accepts what  *)
(* the needed jobs came to.                                                *)
(***************************************************************************)
EXTENDS Integers, FiniteSetsExt

CONSTANTS
  Paths,            \* of the repository's files
  Gated,            \* jobs, each with a filter of its own
  maxCompareFiles,  \* 300: the compare API lists no more changes than that
  MaxChanges        \* bound: changed files

ASSUME ConditionalConstants == maxCompareFiles \in Nat /\ MaxChanges \in Nat

NoPath == "none"

VARIABLES
  changes,         \* all changed files: name, and the one before a rename
  filters,         \* of each job: the paths its patterns name, and negate
  allowedSkips, allowedFailures,
  detected,        \* "waiting", "ok", "failure", "cancelled": changed-paths job
  hits,            \* jobs whose filter it reports as changed
  results,         \* of each job, "waiting" before it ended
  gate             \* "waiting", "pass", "fail"

ciInputs == <<changes, filters, allowedSkips, allowedFailures>>
ciVars == <<ciInputs, detected, hits, results, gate>>

-----------------------------------------------------------------------------

\* compileFilter(): a path has to match a pattern and no negated one.
CompileFilter(filter) == filter.positive \ filter.negative

Touched(c) == {f.name : f \in c} \cup ({f.previous : f \in c} \ {NoPath})

\* applyFilters() and evaluateFilters() on the listed changes; a list as long
\* as the limit may be incomplete.
EvaluateFilters(listed) ==
  {j \in Gated : \/ Cardinality(listed) >= maxCompareFiles
                 \/ CompileFilter(filters[j]) \cap Touched(listed) # {}}

\* evaluate() of check-needs: each result on its own.
Accepted(job, result) ==
  \/ result = "success"
  \/ result = "skipped" /\ job \in allowedSkips
  \/ result = "failure" /\ job \in allowedFailures

-----------------------------------------------------------------------------

\* The compare API lists the changes up to its limit.  Filters that cannot be
\* parsed, commits that cannot be determined and a failing call fail the job.
Detect ==
  /\ detected = "waiting"
  /\ \/ /\ detected' = "ok"
        /\ \E listed \in SUBSET changes :
             /\ Cardinality(listed) = Min({maxCompareFiles, Cardinality(changes)})
             /\ hits' = EvaluateFilters(listed)
     \/ detected' \in {"failure", "cancelled"} /\ UNCHANGED hits
  /\ UNCHANGED <<ciInputs, results, gate>>

\* A job whose filter is not changed, or that has no answer, is skipped.
RunJob ==
  \E j \in Gated :
    /\ detected # "waiting" /\ results[j] = "waiting"
    /\ \E r \in IF detected = "ok" /\ j \in hits
                THEN {"success", "failure", "cancelled"} ELSE {"skipped"} :
         results' = [results EXCEPT ![j] = r]
    /\ UNCHANGED <<ciInputs, detected, hits, gate>>

\* The gate runs whatever its needs came to.
Evaluate ==
  /\ gate = "waiting" /\ detected # "waiting"
  /\ \A j \in Gated : results[j] # "waiting"
  /\ gate' = IF /\ \A j \in Gated : Accepted(j, results[j])
                /\ detected = "ok"
             THEN "pass" ELSE "fail"
  /\ UNCHANGED <<ciInputs, detected, hits, results>>

Changes ==
  {c \in SUBSET [name : Paths, previous : Paths \cup {NoPath}] :
     /\ IsFiniteSet(c) /\ Cardinality(c) <= MaxChanges
     /\ \A f, g \in c : f.name = g.name => f = g
     /\ \A f \in c : f.previous # f.name}

CiInit ==
  /\ changes \in Changes
  /\ filters \in [Gated -> [positive : SUBSET Paths \ {{}}, negative : SUBSET Paths]]
  /\ \A j \in Gated : Cardinality(filters[j].negative) <= 1
  /\ allowedSkips \in SUBSET Gated /\ allowedFailures \in SUBSET Gated
  /\ detected = "waiting" /\ hits = {} /\ gate = "waiting"
  /\ results = [j \in Gated |-> "waiting"]

CiNext == Detect \/ RunJob \/ Evaluate

CiDone == gate # "waiting"

\* `gh api' is called without a timeout.
CiUntimed == detected = "waiting"

-----------------------------------------------------------------------------

CiTypeOK ==
  /\ changes \in Changes /\ hits \subseteq Gated
  /\ detected \in {"waiting", "ok", "failure", "cancelled"}
  /\ gate \in {"waiting", "pass", "fail"}

\* When the gate passes, every job whose filter matches something that the
\* change touches, be it the former name of a renamed file or a file that the
\* compare API did not list any more, has run, and its failure was allowed.
NoChangeSkipped ==
  gate = "pass" =>
    \A j \in {g \in Gated : CompileFilter(filters[g]) \cap Touched(changes) # {}} :
      results[j] = "success" \/ (results[j] = "failure" /\ j \in allowedFailures)

-----------------------------------------------------------------------------
(* What the jobs rely on between their steps.                              *)

\* A filter that matches something is reported, whatever was listed.
HitsAreComplete ==
  detected = "ok" =>
    \A j \in Gated : CompileFilter(filters[j]) \cap Touched(changes) # {} => j \in hits

\* A job ends after it was told what changed, and is not skipped when it is hit.
ResultsFollow ==
  \A j \in Gated : results[j] # "waiting" =>
    detected # "waiting" /\ (detected = "ok" /\ j \in hits => results[j] # "skipped")

GateHasSeen ==
  gate = "pass" =>
    detected = "ok" /\ \A j \in Gated : results[j] # "waiting" /\ Accepted(j, results[j])

CiInv ==
  /\ IsFiniteSet(changes) /\ DOMAIN results = Gated
  /\ HitsAreComplete /\ ResultsFollow /\ GateHasSeen
=============================================================================
