---------------------------- MODULE MCPublishPlan ----------------------------
(* Model-checking instance of PublishPlan: every workspace of the crates   *)
(* with a bounded number of edges of each kind.                            *)
EXTENDS PublishPlan

CONSTANTS
  MaxHard,      \* bound: normal and build dependencies
  MaxSoft,      \* bound: versioned dev-dependencies
  MaxPublished  \* bound: crates already on the registry

EdgeCount(e) == Cardinality({p \in Crates \X Crates : p[2] \in e[p[1]]})

\* Dependencies of a crate on itself are ignored by the planner.
EdgesUpTo(k) ==
  {e \in [Crates -> SUBSET Crates] :
     EdgeCount(e) <= k /\ \A n \in Crates : n \notin e[n]}

MCWorkspaces ==
  [hard : EdgesUpTo(MaxHard), soft : EdgesUpTo(MaxSoft),
   onRegistry : {P \in SUBSET Crates : Cardinality(P) <= MaxPublished}]
=============================================================================
