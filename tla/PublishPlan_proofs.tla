-------------------------- MODULE PublishPlan_proofs --------------------------
(***************************************************************************)
(* Proofs about PublishPlan for any finite set of crates and any           *)
(* workspaces: the order keeps every hard edge, drops a dev-dependency     *)
(* only on a cycle, and keeps every edge an upload needs when that is      *)
(* possible at all.                                                        *)
(***************************************************************************)
EXTENDS PublishPlan, PublishOrder_proofs, SequenceTheorems

\* What a workspace is made of.
LEMMA WorkspaceType ==
  ASSUME ws \in Workspaces
  PROVE  /\ ws.hard \in [Crates -> SUBSET Crates]
         /\ ws.soft \in [Crates -> SUBSET Crates]
         /\ ws.onRegistry \in SUBSET Crates
         /\ Workspace(ws, Crates)
<1>1. /\ ws.hard \in [Crates -> SUBSET Crates]
      /\ ws.soft \in [Crates -> SUBSET Crates]
      /\ ws.onRegistry \in SUBSET Crates
  BY PlanConstants
<1>2. QED
  BY <1>1, PlanConstants DEF Workspace

\* The closed form of what is left of the crates.
List(R) == Rounds(Batches(ws, Crates), Crates)[R]

\* What the loop makes of the crates that are left, one pass at a time.
LEMMA ListFacts ==
  ASSUME ws \in Workspaces, NEW R \in SUBSET Crates
  PROVE  /\ R = {} => List(R) = <<>>
         /\ R # {} /\ (Batch(ws, R) = {} \/ List(R \ Batch(ws, R)) = Failed) =>
              List(R) = Failed
         /\ R # {} /\ Batch(ws, R) # {} /\ List(R \ Batch(ws, R)) # Failed =>
              List(R) = Sorted(Batch(ws, R)) \o List(R \ Batch(ws, R))
         /\ List(R) # Failed => List(R) \in Seq(R)
<1>1. Passes(Batches(ws, Crates), Crates)
  BY WorkspaceType, PlannerPasses
<1>2. List(R) = ListOf(Batches(ws, Crates), Rounds(Batches(ws, Crates), Crates), R)
  BY <1>1, RoundsFacts DEF List
<1>3. Batches(ws, Crates)[R] = Batch(ws, R)
  BY DEF Batches
<1>4. List(R) # Failed => List(R) \in Seq(R)
  BY <1>1, RoundsPlace DEF List, Places
<1>5. QED
  BY <1>2, <1>3, <1>4 DEF ListOf, List

\* Nothing sorts to the empty list.
LEMMA NothingSorted == Sorted({}) = <<>>
<1>1. {} \in SUBSET Int /\ IsFiniteSet({}) /\ Cardinality({}) = 0
  BY FS_EmptySet
<1>2. Sorted({}) \in Seq({}) /\ Len(Sorted({})) = 0
  BY <1>1, SortedFacts
<1>3. QED
  BY <1>2

\* Starting a pass puts it, sorted, in front of what is left after it.
LEMMA StartPassIsAhead ==
  ASSUME PlanTypeOK, PlanIsAhead, StartPass
  PROVE  PlanIsAhead'
<1> DEFINE b == Batch(ws, remaining)
<1>1. /\ ready = {} /\ ready' = b /\ b # {} /\ remaining # {}
      /\ UNCHANGED <<ws, remaining, order, status>> /\ status = "planning"
  BY DEF StartPass
<1>2. ws \in Workspaces /\ remaining \in SUBSET Crates /\ order \in Seq(Crates)
  BY DEF PlanTypeOK
<1>3. b \in SUBSET remaining
  BY <1>2, WorkspaceType, BatchKeepsEdges
<1>4. List(Crates) = IF List(remaining) = Failed THEN Failed
                     ELSE order \o (<<>> \o List(remaining))
  BY <1>1, NothingSorted, remaining \ {} = remaining DEF PlanIsAhead, List
<1> HIDE DEF b
<1>5. List(Crates) = IF List(remaining \ b) = Failed THEN Failed
                     ELSE order \o (Sorted(b) \o List(remaining \ b))
  <2>1. CASE List(remaining \ b) = Failed
    BY <1>1, <1>2, <1>4, <2>1, ListFacts DEF b
  <2>2. CASE List(remaining \ b) # Failed
    <3>1. List(remaining) = Sorted(b) \o List(remaining \ b)
      BY <1>1, <1>2, <2>2, ListFacts DEF b
    <3>2. List(remaining) # Failed
      <4>1. b \in SUBSET Int /\ IsFiniteSet(b)
        <5>1. Crates \in SUBSET Int /\ IsFiniteSet(Crates) /\ b \in SUBSET Crates
          BY <1>2, <1>3, PlanConstants
        <5>2. IsFiniteSet(b)
          BY <5>1, FS_Subset
        <5>3. QED
          BY <5>1, <5>2
      <4>2. Sorted(b) \in Seq(b) /\ \A x \in b : \E i \in 1 .. Len(Sorted(b)) : Sorted(b)[i] = x
        BY <4>1, SortedFacts
      <4>3. List(remaining \ b) \in Seq(remaining \ b)
        <5>1. remaining \ b \in SUBSET Crates
          BY <1>2
        <5>2. QED
          BY <1>2, <2>2, <5>1, ListFacts
      <4>4. PICK x \in b : TRUE
        BY <1>1
      <4>5. 1 \in 1 .. Len(Sorted(b)) /\ Sorted(b)[1] \in b
        BY <4>2, <4>4
      <4>6. (Sorted(b) \o List(remaining \ b))[1] = Sorted(b)[1]
        BY <4>2, <4>3, <4>5
      <4>7. 0 \notin b
        BY <1>2, <1>3, PlanConstants
      <4>8. Failed[1] = 0
        BY DEF Failed
      <4>9. QED
        BY <3>1, <4>5, <4>6, <4>7, <4>8
    <3>3. List(remaining) \in Seq(Crates)
      BY <1>2, <3>2, ListFacts, SeqMonotonic
    <3>4. <<>> \o List(remaining) = List(remaining)
      BY <3>3, ConcatEmptySeq
    <3>5. QED
      BY <1>4, <2>2, <3>1, <3>2, <3>4
  <2>3. QED
    BY <2>1, <2>2
<1>6. QED
  BY <1>1, <1>5 DEF PlanIsAhead, List

\* Placing the first crate of the rest of the pass moves it from the one list
\* to the other.
LEMMA PlaceIsAhead ==
  ASSUME PlanTypeOK, PlanIsAhead, Place
  PROVE  PlanIsAhead'
<1>1. PICK n \in ready :
        /\ \A m \in ready : n <= m
        /\ order' = Append(order, n)
        /\ remaining' = remaining \ {n}
        /\ ready' = ready \ {n}
        /\ UNCHANGED <<ws, status>>
  BY DEF Place
<1>2. /\ ws \in Workspaces /\ order \in Seq(Crates) /\ n \in Crates
      /\ ready \in SUBSET Crates /\ remaining \in SUBSET Crates
  BY DEF PlanTypeOK
<1>3. remaining' \ ready' = remaining \ ready
  BY <1>1
<1>4. ready \in SUBSET Int /\ IsFiniteSet(ready)
  <2>1. Crates \in SUBSET Int /\ IsFiniteSet(Crates)
    BY PlanConstants
  <2>2. IsFiniteSet(ready)
    BY <1>2, <2>1, FS_Subset
  <2>3. QED
    BY <1>2, <2>1, <2>2
<1>5. Sorted(ready) = <<n>> \o Sorted(ready \ {n})
  BY <1>1, <1>4, SortedHead
<1> DEFINE rest == List(remaining \ ready)
           late == Sorted(ready \ {n})
<1>6. rest # Failed => order \o (Sorted(ready) \o rest) = Append(order, n) \o (late \o rest)
  <2>1. SUFFICES ASSUME rest # Failed
                 PROVE  order \o (Sorted(ready) \o rest) = Append(order, n) \o (late \o rest)
    OBVIOUS
  <2>2. rest \in Seq(Crates)
    <3>1. remaining \ ready \in SUBSET Crates
      BY <1>2
    <3>2. rest \in Seq(remaining \ ready)
      BY <1>2, <2>1, <3>1, ListFacts
    <3> HIDE DEF rest
    <3>3. QED
      BY <3>1, <3>2, SeqMonotonic
  <2>3. late \in Seq(Crates)
    <3>1. IsFiniteSet(ready \ {n}) /\ ready \ {n} \in SUBSET Int
      BY <1>4, FS_RemoveElement
    <3>2. late \in Seq(ready \ {n})
      BY <3>1, SortedFacts
    <3> HIDE DEF late
    <3>3. QED
      BY <1>2, <3>2, SeqMonotonic
  <2>4. <<n>> \in Seq(Crates) /\ Append(order, n) = order \o <<n>>
    BY <1>2
  <2> HIDE DEF rest, late
  <2>9. order \in Seq(Crates)
    BY <1>2
  <2>5. late \o rest \in Seq(Crates)
    BY <2>2, <2>3, ConcatProperties
  <2>6. (<<n>> \o late) \o rest = <<n>> \o (late \o rest)
    BY <2>2, <2>3, <2>4, ConcatAssociative
  <2>7. (order \o <<n>>) \o (late \o rest) = order \o (<<n>> \o (late \o rest))
    BY <2>4, <2>5, <2>9, ConcatAssociative
  <2>8. QED
    BY <1>5, <2>4, <2>6, <2>7 DEF late
<1>7. List(Crates) = IF rest = Failed THEN Failed ELSE order \o (Sorted(ready) \o rest)
  BY DEF PlanIsAhead, List
<1>8. List(Crates) = IF rest = Failed THEN Failed ELSE Append(order, n) \o (late \o rest)
  BY <1>6, <1>7
<1>9. status = "planning"
  BY <1>1 DEF PlanIsAhead, PlanTypeOK
<1>10. QED
  BY <1>1, <1>3, <1>8, <1>9 DEF PlanIsAhead, List

\* Where the loop ends, it has the closed form.
LEMMA EndIsSound ==
  ASSUME PlanInv, Refuse \/ Finish \/ UNCHANGED vars
  PROVE  PlanIsSound' /\ PlanIsAhead'
<1>1. UNCHANGED <<ws, remaining, ready, order>>
  BY DEF Refuse, Finish, vars
<1>2. PlanTypeOK'
  BY <1>1 DEF Refuse, Finish, vars, PlanInv, PlanIsSound, PlanTypeOK
<1>3. /\ ws \in Workspaces /\ remaining \in SUBSET Crates /\ order \in Seq(Crates)
      /\ ready \in SUBSET remaining
  BY DEF PlanInv, PlanIsSound, PlanTypeOK
<1>4. Refuse \/ Finish => ready = {}
  BY <1>3 DEF Refuse, Finish
<1>5. PlanIsAhead'
  BY <1>1, <1>4 DEF PlanInv, PlanIsAhead, vars
<1>6. PlanOf(ws, Crates) = List(Crates)
  BY DEF PlanOf, List
<1>7. List(Crates) = IF List(remaining \ ready) = Failed THEN Failed
                     ELSE order \o (Sorted(ready) \o List(remaining \ ready))
  BY DEF PlanInv, PlanIsAhead, List
<1>8. Finish => order = PlanOf(ws, Crates)
  <2>1. SUFFICES ASSUME Finish PROVE order = List(Crates)
    BY <1>6
  <2>2. remaining \ ready = {} /\ ready = {}
    BY <1>3, <2>1 DEF Finish
  <2>3. List({}) = <<>>
    BY <1>3, ListFacts
  <2>4. order \o (<<>> \o <<>>) = order
    BY <1>3
  <2>5. List({}) # Failed
    BY <2>3 DEF Failed
  <2>6. QED
    BY <1>7, <2>2, <2>3, <2>4, <2>5, NothingSorted
<1>9. Refuse => PlanOf(ws, Crates) = Failed /\ ~Acyclic(ws.hard, Crates)
  <2>1. SUFFICES ASSUME Refuse PROVE List(Crates) = Failed /\ ~Acyclic(ws.hard, Crates)
    BY <1>6
  <2>2. remaining \ ready = remaining /\ remaining # {} /\ Batch(ws, remaining) = {}
    BY <2>1 DEF Refuse
  <2>3. List(remaining) = Failed
    BY <1>3, <2>2, ListFacts
  <2>4. ~Acyclic(ws.hard, Crates)
    BY <1>3, <2>2, WorkspaceType, BatchExists
  <2>5. QED
    BY <1>7, <2>2, <2>3, <2>4
<1>10. PlanIsSound'
  <2>1. CASE Refuse
    BY <1>1, <1>2, <1>9, <2>1 DEF Refuse, PlanIsSound, MatchesPlanOf, RefusedOnlyHardCycle
  <2>2. CASE Finish
    BY <1>1, <1>2, <1>8, <2>2 DEF Finish, PlanIsSound, MatchesPlanOf, RefusedOnlyHardCycle
  <2>3. CASE UNCHANGED vars
    BY <1>2, <2>3 DEF vars, PlanInv, PlanIsSound, MatchesPlanOf, RefusedOnlyHardCycle
  <2>4. QED
    BY <2>1, <2>2, <2>3
<1>11. QED
  BY <1>5, <1>10

\* The invariant holds at the start.
LEMMA InitImpliesPlanInv == Init => PlanInv
<1> SUFFICES ASSUME Init PROVE PlanInv
  OBVIOUS
<1>1. /\ PassKeepsEdges /\ HardEdgesHold /\ DroppedOnlyOnCycle /\ NeededEdgesKept
      /\ PlanIsSound
  BY DEF Init, PlanTypeOK, PassKeepsEdges, HardEdgesHold,
         DroppedOnlyOnCycle, NeededEdgesKept, PlanIsSound, MatchesPlanOf,
         RefusedOnlyHardCycle
<1>2. remaining \ ready = Crates /\ order = <<>> /\ ready = {} /\ ws \in Workspaces
  BY DEF Init
<1>3. List(Crates) = IF List(Crates) = Failed THEN Failed
                     ELSE order \o (Sorted(ready) \o List(Crates))
  <2>1. List(Crates) # Failed => List(Crates) \in Seq(Crates)
    BY <1>2, ListFacts
  <2>2. List(Crates) # Failed => <<>> \o (<<>> \o List(Crates)) = List(Crates)
    BY <2>1, ConcatEmptySeq
  <2>3. QED
    BY <1>2, <2>2, NothingSorted
<1>4. PlanIsAhead
  BY <1>2, <1>3 DEF PlanIsAhead, List, Init
<1>5. QED
  BY <1>1, <1>4 DEF PlanInv

\* Placing a crate of the pass puts no crate behind one that was placed
\* earlier, and what is left of the pass keeps its edges.
LEMMA PlaceKeepsPlanInv ==
  ASSUME PlanInv, Place
  PROVE  PlanInv'
<1>1. PICK n \in ready :
        /\ order' = Append(order, n)
        /\ remaining' = remaining \ {n}
        /\ ready' = ready \ {n}
        /\ UNCHANGED <<ws, status>>
  BY DEF Place
<1>2. /\ ws \in Workspaces /\ order \in Seq(Crates) /\ n \in remaining
      /\ n \in Crates
  BY DEF PlanInv, PlanIsSound, PlanTypeOK
<1>3. /\ Len(order') = Len(order) + 1
      /\ order'[Len(order')] = n
      /\ \A i \in 1 .. Len(order) : order'[i] = order[i]
      /\ Len(order) \in Nat
  BY <1>1, <1>2
<1>4. PlanTypeOK'
  BY <1>1, <1>2 DEF PlanInv, PlanIsSound, PlanTypeOK
<1>5. PassKeepsEdges'
  BY <1>1 DEF PlanInv, PassKeepsEdges
<1>6. \A i \in 1 .. Len(order), d \in Crates :
        NotBefore(i, d)' => NotBefore(i, d)
  <2> SUFFICES ASSUME NEW i \in 1 .. Len(order), NEW d \in Crates,
                      NotBefore(i, d)'
               PROVE  NotBefore(i, d)
    OBVIOUS
  <2>1. CASE d \in remaining'
    BY <1>1, <2>1 DEF NotBefore
  <2>2. CASE \E j \in i .. Len(order') : order'[j] = d
    <3>1. PICK j \in i .. Len(order') : order'[j] = d
      BY <2>2
    <3>2. CASE j = Len(order')
      BY <3>1, <3>2, <1>2, <1>3 DEF NotBefore
    <3>3. CASE j # Len(order')
      BY <3>1, <3>3, <1>3 DEF NotBefore
    <3>4. QED
      BY <3>2, <3>3
  <2>3. QED
    BY <2>1, <2>2 DEF NotBefore
<1>7. \A i \in 1 .. Len(order'), d \in Crates :
        i = Len(order') /\ NotBefore(i, d)' => d = n \/ d \in remaining
  BY <1>1, <1>3 DEF NotBefore
<1>8. \A i \in 1 .. Len(order') : i \in 1 .. Len(order) \/ i = Len(order')
  BY <1>3
<1>9. HardEdgesHold'
  <2> SUFFICES ASSUME NEW i \in 1 .. Len(order'),
                      NEW d \in (ws.hard[order[i]])', NotBefore(i, d)'
               PROVE  FALSE
    BY DEF HardEdgesHold
  <2>1. CASE i \in 1 .. Len(order)
    <3>1. order[i] \in Crates /\ d \in ws.hard[order[i]]
      BY <2>1, <1>1, <1>2, <1>3
    <3>2. d \in Crates
      BY <3>1, <1>2, WorkspaceType
    <3>3. QED
      BY <2>1, <3>1, <3>2, <1>6 DEF PlanInv, HardEdgesHold
  <2>2. CASE i = Len(order')
    <3>1. d \in ws.hard[n]
      BY <2>2, <1>1, <1>3
    <3>2. d \in Crates
      BY <3>1, <1>2, WorkspaceType
    <3>3. d \in remaining
      BY <2>2, <3>2, <1>2, <1>7 DEF NotBefore
    <3>4. QED
      BY <3>1, <3>3 DEF PlanInv, PassKeepsEdges
  <2>3. QED
    BY <2>1, <2>2, <1>8
<1>10. DroppedOnlyOnCycle'
  <2> SUFFICES ASSUME NEW i \in 1 .. Len(order'),
                      NEW d \in (ws.soft[order[i]])', NotBefore(i, d)'
               PROVE  Reaches(ws, Crates, d, order'[i])
    BY <1>1 DEF DroppedOnlyOnCycle, Reaches, Closed, Edges
  <2>1. CASE i \in 1 .. Len(order)
    <3>1. order[i] \in Crates /\ d \in ws.soft[order[i]] /\ order'[i] = order[i]
      BY <2>1, <1>1, <1>2, <1>3
    <3>2. d \in Crates
      BY <3>1, <1>2, WorkspaceType
    <3>3. QED
      BY <2>1, <3>1, <3>2, <1>6 DEF PlanInv, DroppedOnlyOnCycle
  <2>2. CASE i = Len(order')
    <3>1. d \in ws.soft[n] /\ order'[i] = n
      BY <2>2, <1>1, <1>3
    <3>2. d \in Crates
      BY <3>1, <1>2, WorkspaceType
    <3>3. CASE d = n
      BY <3>1, <3>3 DEF Reaches
    <3>4. CASE d # n
      BY <2>2, <3>1, <3>2, <3>4, <1>7 DEF PlanInv, PassKeepsEdges
    <3>5. QED
      BY <3>3, <3>4
  <2>3. QED
    BY <2>1, <2>2, <1>8
<1>11. NeededEdgesKept'
  <2> SUFFICES ASSUME (Acyclic([c \in Crates |-> Needed(ws, c)], Crates))',
                      NEW i \in 1 .. Len(order'),
                      NEW d \in (Needed(ws, order[i]))', NotBefore(i, d)'
               PROVE  FALSE
    BY DEF NeededEdgesKept
  <2>0. Acyclic([c \in Crates |-> Needed(ws, c)], Crates)
    BY <1>1 DEF Needed
  <2>1. CASE i \in 1 .. Len(order)
    <3>1. order[i] \in Crates /\ d \in Needed(ws, order[i])
      BY <2>1, <1>1, <1>2, <1>3 DEF Needed
    <3>2. d \in Crates
      BY <3>1, <1>2, WorkspaceType DEF Needed
    <3>3. QED
      BY <2>0, <2>1, <3>1, <3>2, <1>6 DEF PlanInv, NeededEdgesKept
  <2>2. CASE i = Len(order')
    <3>1. d \in Needed(ws, n)
      BY <2>2, <1>1, <1>3 DEF Needed
    <3>2. d \in Crates
      BY <3>1, <1>2, WorkspaceType DEF Needed
    <3>3. d \in remaining
      BY <2>2, <3>2, <1>2, <1>7 DEF NotBefore
    <3>4. QED
      BY <2>0, <3>1, <3>3 DEF PlanInv, PassKeepsEdges
  <2>3. QED
    BY <2>1, <2>2, <1>8
<1>12. PlanIsAhead'
  BY PlaceIsAhead DEF PlanInv, PlanIsSound
<1>13. PlanIsSound'
  <2>1. status = "planning" /\ status' = "planning"
    BY <1>1 DEF PlanInv, PlanIsSound, PlanIsAhead, PlanTypeOK
  <2>2. QED
    BY <1>4, <2>1 DEF PlanIsSound, MatchesPlanOf, RefusedOnlyHardCycle
<1>14. QED
  BY <1>5, <1>9, <1>10, <1>11, <1>12, <1>13 DEF PlanInv

\* Every step keeps the invariant.
LEMMA NextKeepsPlanInv == PlanInv /\ [Next]_vars => PlanInv'
<1> SUFFICES ASSUME PlanInv, [Next]_vars PROVE PlanInv'
  OBVIOUS
<1>1. CASE StartPass
  <2>1. ws \in Workspaces /\ remaining \in SUBSET Crates
    BY DEF PlanInv, PlanIsSound, PlanTypeOK
  <2>2. PassKeepsEdges'
    <3> SUFFICES ASSUME NEW n \in Batch(ws, remaining)
                 PROVE  /\ ws.hard[n] \cap remaining = {}
                        /\ \A d \in ws.soft[n] \cap remaining :
                             Reaches(ws, Crates, d, n)
                        /\ Acyclic([c \in Crates |-> Needed(ws, c)], Crates) =>
                             Needed(ws, n) \cap remaining = {}
      BY <1>1 DEF StartPass, PassKeepsEdges
    <3>1. QED
      BY <2>1, WorkspaceType, BatchKeepsEdges
  <2>3. ready' \in SUBSET remaining
    BY <1>1, <2>1, WorkspaceType, BatchKeepsEdges DEF StartPass
  <2>4. PlanTypeOK'
    BY <1>1, <2>3 DEF StartPass, PlanInv, PlanIsSound, PlanTypeOK
  <2>5. PlanIsSound'
    BY <1>1, <2>4 DEF StartPass, PlanIsSound, MatchesPlanOf, RefusedOnlyHardCycle
  <2>6. PlanIsAhead'
    BY <1>1, StartPassIsAhead DEF PlanInv, PlanIsSound
  <2>7. HardEdgesHold' /\ DroppedOnlyOnCycle' /\ NeededEdgesKept'
    BY <1>1 DEF StartPass, PlanInv, HardEdgesHold, DroppedOnlyOnCycle,
       NeededEdgesKept, NotBefore
  <2>8. QED
    BY <2>2, <2>5, <2>6, <2>7 DEF PlanInv
<1>2. CASE Place
  BY <1>2, PlaceKeepsPlanInv
<1>3. CASE Refuse \/ Finish \/ UNCHANGED vars
  <2>1. UNCHANGED <<ws, remaining, ready, order>>
    BY <1>3 DEF Refuse, Finish, vars
  <2>2. PlanIsSound' /\ PlanIsAhead'
    BY <1>3, EndIsSound
  <2>3. PassKeepsEdges'
    BY <2>1 DEF PlanInv, PassKeepsEdges
  <2>4. HardEdgesHold' /\ DroppedOnlyOnCycle' /\ NeededEdgesKept'
    BY <2>1 DEF PlanInv, HardEdgesHold, DroppedOnlyOnCycle, NeededEdgesKept,
       NotBefore
  <2>5. QED
    BY <2>2, <2>3, <2>4 DEF PlanInv
<1>4. QED
  BY <1>1, <1>2, <1>3 DEF Next

\* Every state of the planner satisfies the inductive invariant.
THEOREM PlanInvariant == Spec => []PlanInv
  BY InitImpliesPlanInv, NextKeepsPlanInv, PTL DEF Spec

\* The planner returns what the closed form of its loop says, and refuses a
\* workspace only when normal and build dependencies alone form a cycle.
THEOREM PlannerIsSound == Spec => []PlanIsSound
<1>1. PlanInv => PlanIsSound
  BY DEF PlanInv
<1>2. QED
  BY <1>1, PlanInvariant, PTL

\* The planner orders every crate after the workspace crates it depends on,
\* for any workspace and whatever cycles were broken.
THEOREM HardEdgesAlwaysHold == Spec => []HardEdgesHold
<1>1. PlanInv => HardEdgesHold
  BY DEF PlanInv
<1>2. QED
  BY <1>1, PlanInvariant, PTL

\* A versioned dev-dependency is placed late only if it leads back to the
\* crate that has it.
THEOREM DropsOnlyOnCycles == Spec => []DroppedOnlyOnCycle
<1>1. PlanInv => DroppedOnlyOnCycle
  BY DEF PlanInv
<1>2. QED
  BY <1>1, PlanInvariant, PTL

\* The greedy choice of breakSoftCycle is enough: where the edges that the
\* uploads need allow an order, the planned order keeps all of them.
THEOREM GreedyIsEnough == Spec => []NeededEdgesKept
<1>1. PlanInv => NeededEdgesKept
  BY DEF PlanInv
<1>2. QED
  BY <1>1, PlanInvariant, PTL
=============================================================================
