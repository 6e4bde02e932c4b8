---------------------------- MODULE PublishOrder ----------------------------
(***************************************************************************)
(* The choices of planPackages and breakSoftCycle                          *)
(* (actions/cargo-publish/publish.cjs): which crates may be uploaded next. *)
(*                                                                         *)
(* A workspace is a record of the selected crates' edges: hard for normal  *)
(* and build dependencies, soft for versioned dev-dependencies, and        *)
(* onRegistry, the crates whose planned version the index already shows.   *)
(* Names are integers, for their order only.  R is always the set of       *)
(* crates not placed yet; the edges left in the code's Maps are those      *)
(* into R.                                                                 *)
(***************************************************************************)
EXTENDS SortedLists

Edges(g, R, n) == (g.hard[n] \cup g.soft[n]) \cap R

\* Mutant: dev-dependencies do not hold a crate back.
ReadyIgnoringSoft(g, R) == {n \in R : g.hard[n] \cap R = {}}
\* The crates that wait on nothing.
Ready(g, R) == {n \in R : Edges(g, R, n) = {}}

\* S has no edge that leaves it for a crate of R.
Closed(g, R, S) == \A n \in S : Edges(g, R, n) \subseteq S

\* The strongly connected components that no edge leaves: the least nonempty
\* closed sets.
Sinks(g, R) ==
  {C \in (SUBSET R) \ {{}} :
     /\ Closed(g, R, C)
     /\ \A D \in (SUBSET C) \ {{}} : Closed(g, R, D) => D = C}

\* Mutant: a crate that waits on a build dependency may be taken too.
CandidatesWithHard(g, R) ==
  UNION {C \in Sinks(g, R) : Cardinality(C) > 1}
\* The crates that a cycle may be broken at.
Candidates(g, R) ==
  {n \in UNION {C \in Sinks(g, R) : Cardinality(C) > 1} : g.hard[n] \cap R = {}}

\* Mutant: crates already on the registry count as missing.
RejectedEdgesAll(g, R, n) == g.soft[n] \cap R
\* The dev-dependencies of n that an upload before them is rejected for; a
\* published crate is not uploaded at all.
RejectedEdges(g, R, n) ==
  IF n \in g.onRegistry THEN {} ELSE (g.soft[n] \cap R) \ g.onRegistry
DroppedEdges(g, R, n) == IF n \in g.onRegistry THEN {} ELSE g.soft[n] \cap R

\* The sort order of the candidates: a comes before b.
Cheaper(g, R, a, b) ==
  LET rejected(n) == Cardinality(RejectedEdges(g, R, n))
      dropped(n) == Cardinality(DroppedEdges(g, R, n))
  IN  \/ rejected(a) < rejected(b)
      \/ rejected(a) = rejected(b) /\ dropped(a) < dropped(b)
      \/ rejected(a) = rejected(b) /\ dropped(a) = dropped(b) /\ a < b

Cheapest(g, R) ==
  {n \in Candidates(g, R) :
     \A m \in Candidates(g, R) \ {n} : Cheaper(g, R, n, m)}

\* The crates of one pass of the loop; none when planning fails.
Batch(g, R) == IF Ready(g, R) # {} THEN Ready(g, R) ELSE Cheapest(g, R)

\* What every pass over names may place.
Batches(g, names) == [R \in SUBSET names |-> Batch(g, R)]

\* The plan as a sequence, or Failed when there is none.
PlanOf(g, names) == Rounds(Batches(g, names), names)[names]

-----------------------------------------------------------------------------
(* What an order means, for the properties.                                *)

\* The edges an upload cannot do without, as the planner counts them.
Needed(g, n) ==
  g.hard[n] \cup (IF n \in g.onRegistry THEN {} ELSE g.soft[n] \ g.onRegistry)

\* A relation on crates, a function to the successors of each, has no cycle:
\* every set of crates has one with no successor in the set.
Acyclic(next, names) ==
  \A S \in (SUBSET names) \ {{}} : \E n \in S : next[n] \cap S = {}

\* m can be reached from n along edges of the workspace.
Reaches(g, names, n, m) ==
  \A S \in SUBSET names : n \in S /\ Closed(g, names, S) => m \in S
=============================================================================
