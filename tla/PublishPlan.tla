----------------------------- MODULE PublishPlan -----------------------------
(***************************************************************************)
(* planPackages of actions/cargo-publish/publish.cjs as a loop: Kahn's     *)
(* algorithm over the selected crates, where a cycle is broken by dropping *)
(* the dev-dependency edges of one crate.                                  *)
(***************************************************************************)
EXTENDS PublishOrder

CONSTANTS
  Crates,     \* names of the selected crates
  Workspaces  \* the workspaces to plan for

ASSUME PlanConstants ==
  /\ Crates \subseteq Nat \ {0}
  /\ IsFiniteSet(Crates)
  /\ Workspaces \subseteq [hard : [Crates -> SUBSET Crates],
                           soft : [Crates -> SUBSET Crates],
                           onRegistry : SUBSET Crates]
  /\ \A w \in Workspaces, n \in Crates : n \notin w.hard[n] \cup w.soft[n]

VARIABLES
  ws,         \* the workspace that is planned
  remaining,  \* crates not placed yet
  ready,      \* crates the current pass of the loop has yet to place
  order,      \* the order so far
  status      \* "planning", "planned", or "cycle" when it was refused

vars == <<ws, remaining, ready, order, status>>

PlanTypeOK ==
  /\ ws \in Workspaces
  /\ remaining \in SUBSET Crates
  /\ ready \in SUBSET remaining
  /\ order \in Seq(Crates)
  /\ status \in {"planning", "planned", "cycle"}

Init ==
  /\ ws \in Workspaces
  /\ remaining = Crates
  /\ ready = {}
  /\ order = <<>>
  /\ status = "planning"

\* A pass of the while loop finds crates that wait on nothing, or breaks a
\* cycle at one crate.
StartPass ==
  /\ status = "planning" /\ ready = {} /\ remaining # {}
  /\ Batch(ws, remaining) # {}
  /\ ready' = Batch(ws, remaining)
  /\ UNCHANGED <<ws, remaining, order, status>>

\* Mutant: the pass is not sorted by name.
PlaceUnsorted ==
  \E n \in ready :
    /\ order' = Append(order, n)
    /\ remaining' = remaining \ {n}
    /\ ready' = ready \ {n}
    /\ UNCHANGED <<ws, status>>
\* The for loop of the pass: the next crate by name joins the order and no
\* crate waits on it any more.
Place ==
  \E n \in ready :
    /\ \A m \in ready : n <= m
    /\ order' = Append(order, n)
    /\ remaining' = remaining \ {n}
    /\ ready' = ready \ {n}
    /\ UNCHANGED <<ws, status>>

\* Mutant: a null pick does not end the loop.
RefuseNever == FALSE /\ UNCHANGED vars
\* breakSoftCycle returned null: only hard edges form the cycle.
Refuse ==
  /\ status = "planning" /\ ready = {} /\ remaining # {}
  /\ Batch(ws, remaining) = {}
  /\ status' = "cycle"
  /\ UNCHANGED <<ws, remaining, ready, order>>

Finish ==
  /\ status = "planning" /\ remaining = {}
  /\ status' = "planned"
  /\ UNCHANGED <<ws, remaining, ready, order>>

Next == StartPass \/ Place \/ Refuse \/ Finish

Spec == Init /\ [][Next]_vars
FairSpec == Spec /\ WF_vars(Next)

-----------------------------------------------------------------------------
(* Properties.                                                             *)

\* The crate is in the order at or after position i, or not placed yet.
NotBefore(i, d) == d \in remaining \/ \E j \in i .. Len(order) : order[j] = d

\* The header comment of planPackages: every crate comes after the workspace
\* crates it depends on, whatever dev-dependency cycles were broken.
HardEdgesHold ==
  \A i \in 1 .. Len(order) :
    \A d \in ws.hard[order[i]] : ~NotBefore(i, d)

\* The README: a dev-dependency edge is dropped only when it would form a
\* cycle, that is when the dependency leads back to the crate.
DroppedOnlyOnCycle ==
  \A i \in 1 .. Len(order) :
    \A d \in ws.soft[order[i]] :
      NotBefore(i, d) => Reaches(ws, Crates, d, order[i])

\* breakSoftCycle gives up only when normal and build dependencies alone form
\* a cycle: no workspace that Cargo can build is refused.
RefusedOnlyHardCycle ==
  status = "cycle" => ~Acyclic(ws.hard, Crates)

\* When the edges that uploads need allow an order at all, the planner's
\* greedy choices keep every one of them.
NeededEdgesKept ==
  Acyclic([n \in Crates |-> Needed(ws, n)], Crates) =>
    \A i \in 1 .. Len(order) :
      \A d \in Needed(ws, order[i]) : ~NotBefore(i, d)

\* What a pass knows of the crates it has yet to place: no hard dependency of
\* theirs is left, a dev-dependency that is left lies on a cycle with them,
\* and no needed edge is left where they can all be kept.
PassKeepsEdges ==
  \A n \in ready :
    /\ ws.hard[n] \cap remaining = {}
    /\ \A d \in ws.soft[n] \cap remaining : Reaches(ws, Crates, d, n)
    /\ Acyclic([c \in Crates |-> Needed(ws, c)], Crates) =>
         Needed(ws, n) \cap remaining = {}

\* The loop's result is the one the closed form gives, each crate once.
MatchesPlanOf ==
  /\ status = "planned" => order = PlanOf(ws, Crates)
  /\ status = "cycle" => PlanOf(ws, Crates) = Failed

\* What the planner returns is the closed form, in the state's types, and it
\* refuses only what has no order.
PlanIsSound == PlanTypeOK /\ MatchesPlanOf /\ RefusedOnlyHardCycle

\* The order so far, the rest of the pass by name, and the closed form of what
\* the loop has not reached are together the closed form; nothing is left of a
\* pass when the loop has ended.
PlanIsAhead ==
  LET list == Rounds(Batches(ws, Crates), Crates)
      rest == list[remaining \ ready]
  IN  /\ list[Crates] =
           IF rest = Failed THEN Failed ELSE order \o (Sorted(ready) \o rest)
      /\ status # "planning" => ready = {}

\* The inductive invariant.
PlanInv ==
  /\ PlanIsSound
  /\ PlanIsAhead
  /\ PassKeepsEdges
  /\ HardEdgesHold
  /\ DroppedOnlyOnCycle
  /\ NeededEdgesKept

\* Planning ends whatever the edges are: every pass places a crate or
\* refuses the workspace.
PlanningEnds == <>(status # "planning")

\* The edges between crates that are really going to be uploaded.
UploadEdges(g, n) ==
  IF n \in g.onRegistry THEN {} ELSE (g.hard[n] \cup g.soft[n]) \ g.onRegistry

\* What the comment of the cost function says: a published crate is never
\* uploaded, so its edges cost nothing.  If some order has no upload before
\* one it needs, the planned order has none either.
PublishedEdgesCostNothing ==
  Acyclic([n \in Crates |-> UploadEdges(ws, n)], Crates) =>
    \A i \in 1 .. Len(order) :
      \A d \in UploadEdges(ws, order[i]) : ~NotBefore(i, d)
=============================================================================
