---------------------------- MODULE SortedLists ----------------------------
(***************************************************************************)
(* The lists that the publishing scripts make of package names (npm's      *)
(* orderPackages and cargo's planPackages): sort(), filter(), and the loop *)
(* of Kahn's algorithm that both share.  Names are positive integers, for  *)
(* their order only.                                                       *)
(***************************************************************************)
EXTENDS Integers, SequencesExt

\* [...S].sort(): the names in S in their order, each once.
Sorted(S) == CHOOSE s \in SetToSeqs(S) : IsSorted(s, <)

\* s.filter(): what of s is in T, in the order of s.
Kept(s, T) ==
  LET at == Sorted({k \in DOMAIN s : s[k] \in T})
  IN  [k \in DOMAIN at |-> s[at[k]]]

\* The list is refused: a pass of the loop finds nothing to place.
Failed == <<0>>

\* The loop, for every set R of names that are not placed yet: a pass places
\* batch[R] in the order of names.
Rounds(batch, S) ==
  LET list[R \in SUBSET S] ==
        LET rest == list[R \ batch[R]]
        IN  CASE R = {} -> <<>>
              [] R # {} /\ (batch[R] = {} \/ rest = Failed) -> Failed
              [] OTHER -> Sorted(batch[R]) \o rest
  IN  list
=============================================================================
