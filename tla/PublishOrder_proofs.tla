-------------------------- MODULE PublishOrder_proofs --------------------------
(***************************************************************************)
(* Lemmas about the lists of SortedLists and the batches of PublishOrder,  *)
(* for any finite set of names: what sort() and filter() return, that the  *)
(* loop of Kahn's algorithm is a total function of what is not placed yet, *)
(* and what the list that it makes keeps of the batches.                   *)
(***************************************************************************)
EXTENDS PublishOrder, FiniteSetTheorems, WellFoundedInduction, TLAPS

\* Among the subsets of a finite set, some are least in their family.
LEMMA LeastSet ==
  ASSUME NEW U, IsFiniteSet(U), NEW F \in SUBSET (SUBSET U), F # {}
  PROVE  \E A \in F : \A B \in F : B \subseteq A => B = A
<1>1. F \subseteq FiniteSubsetsOf(U)
  BY FS_Subset DEF FiniteSubsetsOf
<1>2. PICK A \in F : \A B \in F : ~ (<<B, A>> \in StrictSubsetOrdering(U))
  BY <1>1, FS_StrictSubsetOrderingWellFounded, WFMin
<1>3. ASSUME NEW B \in F, B \subseteq A, B # A PROVE FALSE
  <2>1. <<B, A>> \in StrictSubsetOrdering(U)
    BY <1>3 DEF StrictSubsetOrdering
  <2>2. QED
    BY <2>1, <1>2
<1>4. QED
  BY <1>3

\* So a family that has a set whenever it has all smaller ones has them all.
LEMMA SetInduction ==
  ASSUME NEW U, IsFiniteSet(U), NEW F,
         \A A \in SUBSET U : (\A B \in SUBSET A : B # A => B \in F) => A \in F
  PROVE  \A A \in SUBSET U : A \in F
<1> DEFINE G == {A \in SUBSET U : A \notin F}
<1>1. SUFFICES ASSUME G # {} PROVE FALSE
  OBVIOUS
<1>2. PICK A \in G : \A B \in G : B \subseteq A => B = A
  <2>1. G \in SUBSET (SUBSET U)
    OBVIOUS
  <2> HIDE DEF G
  <2>2. QED
    BY <1>1, <2>1, LeastSet
<1>3. QED
  BY <1>2

-----------------------------------------------------------------------------
(* sort().                                                                 *)

\* A finite set of integers that is not empty has a greatest element.
LEMMA GreatestElement ==
  ASSUME NEW S \in SUBSET Int, IsFiniteSet(S), S # {}
  PROVE  \E m \in S : \A x \in S : x <= m
<1> DEFINE F == {A \in SUBSET S : A # {} => \E m \in A : \A x \in A : x <= m}
<1>1. ASSUME NEW A \in SUBSET S, \A B \in SUBSET A : B # A => B \in F
      PROVE  A \in F
  <2>1. SUFFICES ASSUME NEW y \in A PROVE \E m \in A : \A x \in A : x <= m
    OBVIOUS
  <2>2. CASE A \ {y} = {}
    BY <2>2
  <2>3. CASE A \ {y} # {}
    <3>1. PICK m \in A \ {y} : \A x \in A \ {y} : x <= m
      BY <2>3, <1>1, A \ {y} # A
    <3>2. CASE y <= m
      BY <3>1, <3>2
    <3>3. CASE ~ (y <= m)
      <4>1. \A x \in A : x <= y
        BY <3>1, <3>3
      <4>2. QED
        BY <4>1
    <3>4. QED
      BY <3>2, <3>3
  <2>4. QED
    BY <2>2, <2>3
<1>2. \A A \in SUBSET S : A \in F
  <2> HIDE DEF F
  <2>1. QED
    BY <1>1, SetInduction
<1>3. QED
  BY <1>2

\* A sorted list of all but the greatest element grows by the greatest.
LEMMA GreatestComesLast ==
  ASSUME NEW A \in SUBSET Int, NEW m \in A, \A x \in A : x <= m, NEW n \in Nat,
         NEW s \in [1 .. n -> A \ {m}], \A i, j \in 1 .. n : i < j => s[i] < s[j]
  PROVE  \E t \in [1 .. n + 1 -> A] : \A i, j \in 1 .. n + 1 : i < j => t[i] < t[j]
<1> DEFINE t == [i \in 1 .. n + 1 |-> IF i = n + 1 THEN m ELSE s[i]]
<1>1. t \in [1 .. n + 1 -> A]
  OBVIOUS
<1>2. ASSUME NEW i \in 1 .. n + 1, NEW j \in 1 .. n + 1, i < j PROVE t[i] < t[j]
  <2>1. i \in 1 .. n /\ t[i] = s[i] /\ s[i] \in A /\ s[i] # m
    BY <1>2
  <2>2. CASE j = n + 1
    <3>1. t[j] = m /\ s[i] \in Int /\ m \in Int /\ s[i] <= m
      BY <2>1, <2>2
    <3>2. QED
      BY <2>1, <3>1
  <2>3. CASE j # n + 1
    BY <2>1, <2>3, <1>2
  <2>4. QED
    BY <2>2, <2>3
<1>3. QED
  BY <1>1, <1>2

\* Every finite set of integers can be listed in its order.
LEMMA SortedExists ==
  ASSUME NEW S \in SUBSET Int, IsFiniteSet(S)
  PROVE  \E s \in [1 .. Cardinality(S) -> S] :
           \A i, j \in 1 .. Cardinality(S) : i < j => s[i] < s[j]
<1> DEFINE Has(A) == \E s \in [1 .. Cardinality(A) -> A] :
                        \A i, j \in 1 .. Cardinality(A) : i < j => s[i] < s[j]
           F == {A \in SUBSET S : Has(A)}
<1>1. ASSUME NEW A \in SUBSET S, \A B \in SUBSET A : B # A => B \in F
      PROVE  A \in F
  <2>1. IsFiniteSet(A) /\ Cardinality(A) \in Nat
    BY FS_Subset, FS_CardinalityType
  <2>2. CASE A = {}
    <3>1. Cardinality(A) = 0
      BY <2>2, FS_EmptySet
    <3>2. <<>> \in [1 .. 0 -> {}] /\ 1 .. 0 = {}
      OBVIOUS
    <3>3. QED
      BY <2>2, <3>1, <3>2
  <2>3. CASE A # {}
    <3>1. PICK m \in A : \A x \in A : x <= m
      BY <2>1, <2>3, GreatestElement
    <3>2. /\ Cardinality(A \ {m}) = Cardinality(A) - 1
          /\ Cardinality(A) - 1 \in Nat
      <4>1. IsFiniteSet(A \ {m}) /\ Cardinality(A \ {m}) = Cardinality(A) - 1
        BY <2>1, FS_RemoveElement
      <4>2. QED
        BY <4>1, FS_CardinalityType
    <3>3. PICK s \in [1 .. Cardinality(A) - 1 -> A \ {m}] :
                 \A i, j \in 1 .. Cardinality(A) - 1 : i < j => s[i] < s[j]
      BY <1>1, <3>2, A \ {m} # A, A \ {m} \in SUBSET A
    <3>4. \E t \in [1 .. (Cardinality(A) - 1) + 1 -> A] :
            \A i, j \in 1 .. (Cardinality(A) - 1) + 1 : i < j => t[i] < t[j]
      BY <3>1, <3>2, <3>3, GreatestComesLast
    <3>5. QED
      BY <2>1, <3>4
  <2>4. QED
    BY <2>2, <2>3
<1>2. \A A \in SUBSET S : A \in F
  <2> HIDE DEF F
  <2>1. QED
    BY <1>1, SetInduction
<1>3. QED
  BY <1>2

\* sort() lists every element once, in order.
LEMMA SortedFacts ==
  ASSUME NEW S \in SUBSET Int, IsFiniteSet(S)
  PROVE  /\ Sorted(S) \in Seq(S)
         /\ Len(Sorted(S)) = Cardinality(S)
         /\ \A i, j \in 1 .. Len(Sorted(S)) : i < j => Sorted(S)[i] < Sorted(S)[j]
         /\ \A x \in S : \E i \in 1 .. Len(Sorted(S)) : Sorted(S)[i] = x
<1> DEFINE n == Cardinality(S)
<1>1. n \in Nat
  BY FS_CardinalityType
<1>2. PICK s \in [1 .. n -> S] : \A i, j \in 1 .. n : i < j => s[i] < s[j]
  BY SortedExists
<1>3. s \in Seq(S) /\ Len(s) = n
  BY <1>1, <1>2
<1>4. s \in SetToSeqs(S)
  <2>1. ASSUME NEW i \in 1 .. n, NEW j \in 1 .. n, i # j PROVE s[i] # s[j]
    <3>1. i < j \/ j < i
      BY <1>1, <2>1
    <3>2. s[i] < s[j] \/ s[j] < s[i]
      BY <3>1, <1>2
    <3>3. s[i] \in Int /\ s[j] \in Int
      BY <1>2
    <3>4. QED
      BY <3>2, <3>3
  <2>2. QED
    BY <2>1 DEF SetToSeqs
<1>5. \A i, j \in 1 .. Len(s) : i < j => s[i] < s[j]
  BY <1>2, <1>3
<1>6. /\ Sorted(S) \in SetToSeqs(S)
      /\ \A i, j \in 1 .. Len(Sorted(S)) : i < j => Sorted(S)[i] < Sorted(S)[j]
  BY <1>4, <1>5 DEF Sorted, IsSorted
<1>7. Sorted(S) \in [1 .. n -> S] /\ \A i, j \in 1 .. n : i # j => Sorted(S)[i] # Sorted(S)[j]
  BY <1>6 DEF SetToSeqs
<1>8. Sorted(S) \in Seq(S) /\ Len(Sorted(S)) = n
  BY <1>1, <1>7
<1>9. Sorted(S) \in Surjection(1 .. n, S)
  <2>1. Sorted(S) \in Injection(1 .. n, S)
    BY <1>7 DEF Injection, IsInjective
  <2>2. Cardinality(1 .. n) = n
    BY <1>1, FS_Interval
  <2>3. QED
    BY <2>1, <2>2, FS_Injection
<1>10. \A x \in S : \E i \in 1 .. n : Sorted(S)[i] = x
  BY <1>9 DEF Surjection
<1>11. QED
  BY <1>6, <1>8, <1>10

\* A finite set of integers that is not empty has a least element.
LEMMA LeastElement ==
  ASSUME NEW S \in SUBSET Int, IsFiniteSet(S), S # {}
  PROVE  \E m \in S : \A x \in S : m <= x
<1>1. IsFiniteSet(S) /\ Cardinality(S) \in Nat /\ Cardinality(S) # 0
  BY FS_CardinalityType, FS_EmptySet
<1>2. 1 \in 1 .. Len(Sorted(S))
  BY <1>1, SortedFacts
<1>3. Sorted(S)[1] \in S
  BY <1>2, SortedFacts
<1>4. ASSUME NEW x \in S PROVE Sorted(S)[1] <= x
  <2>1. PICK i \in 1 .. Len(Sorted(S)) : Sorted(S)[i] = x
    BY SortedFacts
  <2>2. CASE i = 1
    BY <1>3, <2>1, <2>2
  <2>3. CASE i # 1
    <3>1. 1 < i
      BY <1>2, <2>1, <2>3
    <3>2. Sorted(S)[1] < Sorted(S)[i]
      BY <1>2, <3>1, SortedFacts
    <3>3. Sorted(S)[1] \in Int /\ x \in Int
      BY <1>3
    <3>4. QED
      BY <2>1, <3>2, <3>3
  <2>4. QED
    BY <2>2, <2>3
<1>5. QED
  BY <1>3, <1>4

\* A function from such a set to integers is least somewhere.
LEMMA LeastValue ==
  ASSUME NEW S, IsFiniteSet(S), S # {}, NEW f \in [S -> Int]
  PROVE  \E x \in S : \A y \in S : f[x] <= f[y]
<1> DEFINE V == {f[x] : x \in S}
<1>1. f \in Surjection(S, V)
  BY DEF Surjection
<1>2. IsFiniteSet(V)
  <2> HIDE DEF V
  <2>1. QED
    BY <1>1, FS_Surjection
<1>3. V \in SUBSET Int /\ V # {}
  OBVIOUS
<1>4. PICK v \in V : \A w \in V : v <= w
  <2> HIDE DEF V
  <2>1. QED
    BY <1>2, <1>3, LeastElement
<1>5. QED
  BY <1>4

\* There is only one way to list a set in its order.
LEMMA SortedIsUnique ==
  ASSUME NEW S \in SUBSET Int, NEW n \in Nat,
         NEW s \in [1 .. n -> S], NEW t \in [1 .. n -> S],
         \A i, j \in 1 .. n : i < j => s[i] < s[j] /\ t[i] < t[j],
         \A x \in S : (\E i \in 1 .. n : s[i] = x) /\ (\E i \in 1 .. n : t[i] = x)
  PROVE  s = t
<1> DEFINE D == {i \in 1 .. n : s[i] # t[i]}
<1>1. SUFFICES ASSUME D # {} PROVE FALSE
  OBVIOUS
<1>2. PICK k \in D : \A i \in D : k <= i
  <2>1. IsFiniteSet(D) /\ D \in SUBSET Int
    BY FS_Interval, FS_Subset
  <2> HIDE DEF D
  <2>2. QED
    BY <1>1, <2>1, LeastElement
<1>3. k \in 1 .. n /\ s[k] \in Int /\ t[k] \in Int /\ s[k] # t[k]
  BY <1>2
<1>4. \A i \in 1 .. n : i < k => s[i] = t[i]
  BY <1>2, <1>3
<1>5. CASE s[k] < t[k]
  <2>1. PICK j \in 1 .. n : t[j] = s[k]
    BY <1>3
  <2>2. CASE j < k
    <3>1. s[j] < s[k] /\ s[j] = s[k]
      BY <1>3, <1>4, <2>1, <2>2
    <3>2. QED
      BY <1>3, <3>1
  <2>3. CASE j = k
    BY <1>3, <2>1, <2>3
  <2>4. CASE k < j
    <3>1. t[k] < t[j]
      BY <1>3, <2>1, <2>4
    <3>2. QED
      BY <1>3, <1>5, <2>1, <3>1
  <2>5. QED
    BY <1>3, <2>1, <2>2, <2>3, <2>4
<1>6. CASE t[k] < s[k]
  <2>1. PICK j \in 1 .. n : s[j] = t[k]
    BY <1>3
  <2>2. CASE j < k
    <3>1. t[j] < t[k]
      BY <1>3, <2>1, <2>2
    <3>2. QED
      BY <1>3, <1>4, <2>1, <2>2, <3>1
  <2>3. CASE j = k
    BY <1>3, <2>1, <2>3
  <2>4. CASE k < j
    <3>1. s[k] < s[j]
      BY <1>3, <2>1, <2>4
    <3>2. QED
      BY <1>3, <1>6, <2>1, <3>1
  <2>5. QED
    BY <1>3, <2>1, <2>2, <2>3, <2>4
<1>7. QED
  BY <1>3, <1>5, <1>6

-----------------------------------------------------------------------------
(* filter().                                                               *)

\* The list t has the elements of s that are in T, at rising positions of s.
IsKept(t, s, T) ==
  \E at \in [1 .. Len(t) -> 1 .. Len(s)] :
    /\ \A k \in 1 .. Len(t) : t[k] = s[at[k]]
    /\ \A k, l \in 1 .. Len(t) : k < l => at[k] < at[l]
    /\ \A i \in 1 .. Len(s) : s[i] \in T => \E k \in 1 .. Len(t) : at[k] = i

\* filter() keeps those elements in their order, and no other.
LEMMA KeptFacts ==
  ASSUME NEW X, NEW s \in Seq(X), NEW T
  PROVE  Kept(s, T) \in Seq(X \cap T) /\ IsKept(Kept(s, T), s, T)
<1> DEFINE I == {k \in DOMAIN s : s[k] \in T}
           at == Sorted(I)
<1>1. DOMAIN s = 1 .. Len(s) /\ Len(s) \in Nat
  OBVIOUS
<1>2. I \in SUBSET Int /\ IsFiniteSet(I)
  <2>1. IsFiniteSet(1 .. Len(s))
    BY <1>1, FS_Interval
  <2>2. I \in SUBSET (1 .. Len(s))
    BY <1>1
  <2> HIDE DEF I
  <2>3. IsFiniteSet(I)
    BY <2>1, <2>2, FS_Subset
  <2>4. QED
    BY <2>2, <2>3
<1>3. /\ at \in Seq(I) /\ \A i, j \in 1 .. Len(at) : i < j => at[i] < at[j]
      /\ \A x \in I : \E i \in 1 .. Len(at) : at[i] = x
  <2> HIDE DEF I
  <2>1. QED
    BY <1>2, SortedFacts
<1>4. Kept(s, T) = [k \in DOMAIN at |-> s[at[k]]]
  BY DEF Kept
<1>5. DOMAIN at = 1 .. Len(at) /\ Len(at) \in Nat /\ \A k \in 1 .. Len(at) : at[k] \in I
  <2> HIDE DEF at
  <2>1. QED
    BY <1>3
<1> HIDE DEF at
<1>6. Kept(s, T) \in Seq(X \cap T) /\ Len(Kept(s, T)) = Len(at)
  BY <1>1, <1>4, <1>5
<1>7. at \in [1 .. Len(Kept(s, T)) -> 1 .. Len(s)]
  BY <1>1, <1>3, <1>5, <1>6
<1>8. \A k \in 1 .. Len(Kept(s, T)) : Kept(s, T)[k] = s[at[k]]
  BY <1>4, <1>5, <1>6
<1>9. \A k, l \in 1 .. Len(Kept(s, T)) : k < l => at[k] < at[l]
  BY <1>3, <1>6
<1>10. \A i \in 1 .. Len(s) : s[i] \in T => \E k \in 1 .. Len(Kept(s, T)) : at[k] = i
  BY <1>1, <1>3, <1>6
<1>11. QED
  BY <1>6, <1>7, <1>8, <1>9, <1>10 DEF IsKept

-----------------------------------------------------------------------------
(* The loop.                                                               *)

\* What a pass does for the sets that are left: it places some of them.
Passes(batch, S) ==
  /\ S \in SUBSET (Nat \ {0}) /\ IsFiniteSet(S)
  /\ batch \in [SUBSET S -> SUBSET S]
  /\ \A R \in SUBSET S : batch[R] \subseteq R

\* The list for R when f has the lists for smaller sets.
ListOf(batch, f, R) ==
  CASE R = {} -> <<>>
    [] R # {} /\ (batch[R] = {} \/ f[R \ batch[R]] = Failed) -> Failed
    [] OTHER -> Sorted(batch[R]) \o f[R \ batch[R]]

\* The list for a set depends on the lists of its proper subsets alone.
LEMMA ListLooksDown ==
  ASSUME NEW batch, NEW S, Passes(batch, S), NEW R \in SUBSET S, NEW f, NEW h,
         \A Q \in SUBSET R : Q # R => f[Q] = h[Q]
  PROVE  ListOf(batch, f, R) = ListOf(batch, h, R)
<1>1. CASE R = {}
  BY <1>1 DEF ListOf
<1>2. CASE R # {} /\ batch[R] = {}
  BY <1>2 DEF ListOf
<1>3. CASE R # {} /\ batch[R] # {}
  <2>1. f[R \ batch[R]] = h[R \ batch[R]]
    BY <1>3 DEF Passes
  <2>2. QED
    BY <1>3, <2>1 DEF ListOf
<1>4. QED
  BY <1>1, <1>2, <1>3

\* The loop's recursion is well founded: there is a function that gives every
\* set the list that the loop makes of it.
LEMMA ListsExist ==
  ASSUME NEW batch, NEW S, Passes(batch, S)
  PROVE  \E f : f = [R \in SUBSET S |-> ListOf(batch, f, R)]
<1> DEFINE UpTo(n) == {R \in SUBSET S : Cardinality(R) <= n}
           Solved(n) == \E f : f = [R \in UpTo(n) |-> ListOf(batch, f, R)]
           N == Cardinality(S)
           Open == {n \in 0 .. N : ~Solved(n)}
<1>1. \A R \in SUBSET S : IsFiniteSet(R) /\ Cardinality(R) \in Nat /\ Cardinality(R) <= N
  BY FS_Subset, FS_CardinalityType DEF Passes
<1>2. N \in Nat /\ UpTo(N) = SUBSET S
  BY <1>1
<1>3. Solved(0)
  <2>1. \A R \in UpTo(0) : R = {}
    BY <1>1, FS_EmptySet
  <2> DEFINE f == [R \in UpTo(0) |-> <<>>]
  <2>2. \A R \in UpTo(0) : ListOf(batch, f, R) = <<>>
    BY <2>1 DEF ListOf
  <2>3. f = [R \in UpTo(0) |-> ListOf(batch, f, R)]
    BY <2>2
  <2>4. QED
    BY <2>3
<1>4. ASSUME NEW n \in Nat, Solved(n) PROVE Solved(n + 1)
  <2>1. PICK f : f = [R \in UpTo(n) |-> ListOf(batch, f, R)]
    BY <1>4
  <2> DEFINE h == [R \in UpTo(n + 1) |-> ListOf(batch, f, R)]
  <2>2. \A R \in UpTo(n) : R \in UpTo(n + 1) /\ h[R] = f[R]
    BY <1>1, <2>1
  <2>3. ASSUME NEW R \in UpTo(n + 1), NEW Q \in SUBSET R, Q # R PROVE Q \in UpTo(n)
    <3>1. IsFiniteSet(R) /\ Cardinality(Q) <= Cardinality(R) /\ Cardinality(Q) # Cardinality(R)
      BY <1>1, <2>3, FS_Subset
    <3>2. QED
      BY <1>1, <3>1
  <2>4. ASSUME NEW R \in UpTo(n + 1) PROVE h[R] = ListOf(batch, h, R)
    <3>1. \A Q \in SUBSET R : Q # R => f[Q] = h[Q]
      BY <2>2, <2>3
    <3>2. R \in SUBSET S
      OBVIOUS
    <3>3. ListOf(batch, f, R) = ListOf(batch, h, R)
      <4> HIDE DEF h
      <4>1. QED
        BY <3>1, <3>2, ListLooksDown
    <3>4. QED
      BY <3>3
  <2>5. h = [R \in UpTo(n + 1) |-> ListOf(batch, h, R)]
    BY <2>4
  <2>6. QED
    BY <2>5
<1>5. Solved(N)
  <2>1. SUFFICES ASSUME Open # {} PROVE FALSE
    BY <1>2
  <2>2. PICK n \in Open : \A m \in Open : n <= m
    <3>1. Open \in SUBSET Int /\ IsFiniteSet(Open)
      <4>1. IsFiniteSet(0 .. N) /\ Open \in SUBSET (0 .. N) /\ 0 .. N \in SUBSET Int
        BY <1>2, FS_Interval
      <4> HIDE DEF Open
      <4>2. QED
        BY <4>1, FS_Subset
    <3> HIDE DEF Open
    <3>2. QED
      BY <2>1, <3>1, LeastElement
  <2>3. n # 0 /\ n \in 0 .. N /\ ~Solved(n)
    BY <1>3
  <2>4. n - 1 \in 0 .. N /\ n - 1 \notin Open
    <3>1. n - 1 \in 0 .. N /\ ~ (n <= n - 1)
      BY <1>2, <2>3
    <3> HIDE DEF Open
    <3>2. QED
      BY <2>2, <3>1
  <2>5. Solved(n - 1)
    BY <2>4
  <2>6. Solved((n - 1) + 1)
    <3> HIDE DEF Solved
    <3>1. QED
      BY <1>2, <1>4, <2>4, <2>5
  <2>7. (n - 1) + 1 = n
    BY <2>3
  <2>8. QED
    BY <2>3, <2>6, <2>7
<1>6. QED
  BY <1>2, <1>5

\* The function that the loop stands for.
LEMMA RoundsFacts ==
  ASSUME NEW batch, NEW S, Passes(batch, S), NEW R \in SUBSET S
  PROVE  Rounds(batch, S)[R] = ListOf(batch, Rounds(batch, S), R)
<1>1. \E f : f = [Q \in SUBSET S |-> ListOf(batch, f, Q)]
  BY ListsExist
<1>2. Rounds(batch, S) = [Q \in SUBSET S |-> ListOf(batch, Rounds(batch, S), Q)]
  BY <1>1 DEF Rounds, ListOf
<1>3. QED
  BY <1>2

\* What a list of R is worth: every name of R once, and each where a pass
\* placed it, which chose it from a set with every name that comes later.
Places(batch, R, l) ==
  /\ l \in Seq(R)
  /\ \A x \in R : \E i \in 1 .. Len(l) : l[i] = x
  /\ \A i, j \in 1 .. Len(l) : l[i] = l[j] => i = j
  /\ \A i \in 1 .. Len(l) : \E Q \in SUBSET R :
       l[i] \in batch[Q] /\ \A j \in i .. Len(l) : l[j] \in Q

\* A pass in front of such a list makes such a list.
LEMMA PassInFront ==
  ASSUME NEW batch, NEW R, NEW A \in SUBSET R, batch[R] = A,
         NEW a \in Seq(A), \A x \in A : \E i \in 1 .. Len(a) : a[i] = x,
         \A i, j \in 1 .. Len(a) : a[i] = a[j] => i = j,
         NEW l, Places(batch, R \ A, l)
  PROVE  Places(batch, R, a \o l)
<1> DEFINE t == a \o l
<1>1. l \in Seq(R \ A)
  BY DEF Places
<1>2. /\ Len(a) \in Nat /\ Len(l) \in Nat /\ Len(t) = Len(a) + Len(l)
      /\ t \in Seq(R)
      /\ \A i \in 1 .. Len(a) : t[i] = a[i] /\ a[i] \in A /\ i \in 1 .. Len(t)
      /\ \A i \in 1 .. Len(l) : t[Len(a) + i] = l[i] /\ l[i] \in R \ A /\ Len(a) + i \in 1 .. Len(t)
      /\ \A i \in 1 .. Len(t) :
           i \in 1 .. Len(a) \/ (i > Len(a) /\ i - Len(a) \in 1 .. Len(l) /\ t[i] = l[i - Len(a)])
  BY <1>1
<1> HIDE DEF t
<1>3. ASSUME NEW x \in R PROVE \E i \in 1 .. Len(t) : t[i] = x
  <2>1. CASE x \in A
    <3>1. PICK i \in 1 .. Len(a) : a[i] = x
      BY <2>1
    <3>2. QED
      BY <1>2, <3>1
  <2>2. CASE x \notin A
    <3>1. PICK i \in 1 .. Len(l) : l[i] = x
      BY <2>2 DEF Places
    <3>2. QED
      BY <1>2, <3>1
  <2>3. QED
    BY <2>1, <2>2
<1>4. ASSUME NEW i \in 1 .. Len(t), NEW j \in 1 .. Len(t), t[i] = t[j] PROVE i = j
  <2>1. CASE i \in 1 .. Len(a) /\ j \in 1 .. Len(a)
    <3>1. a[i] = a[j]
      BY <1>2, <1>4, <2>1
    <3>2. QED
      BY <2>1, <3>1
  <2>2. CASE i \in 1 .. Len(a) /\ j \notin 1 .. Len(a)
    <3>1. t[i] \in A /\ t[j] \in R \ A
      BY <1>2, <2>2
    <3>2. QED
      BY <1>4, <3>1
  <2>3. CASE i \notin 1 .. Len(a) /\ j \in 1 .. Len(a)
    <3>1. t[j] \in A /\ t[i] \in R \ A
      BY <1>2, <2>3
    <3>2. QED
      BY <1>4, <3>1
  <2>4. CASE i \notin 1 .. Len(a) /\ j \notin 1 .. Len(a)
    <3>1. /\ i - Len(a) \in 1 .. Len(l) /\ j - Len(a) \in 1 .. Len(l)
          /\ l[i - Len(a)] = l[j - Len(a)]
      BY <1>2, <1>4, <2>4
    <3>2. i - Len(a) = j - Len(a)
      BY <3>1 DEF Places
    <3>3. QED
      BY <1>2, <3>2
  <2>5. QED
    BY <2>1, <2>2, <2>3, <2>4
<1>5. ASSUME NEW i \in 1 .. Len(t)
      PROVE  \E Q \in SUBSET R : t[i] \in batch[Q] /\ \A j \in i .. Len(t) : t[j] \in Q
  <2>1. CASE i \in 1 .. Len(a)
    <3>1. t[i] \in batch[R]
      BY <1>2, <2>1
    <3>2. \A j \in i .. Len(t) : t[j] \in R
      BY <1>2
    <3>3. QED
      BY <3>1, <3>2
  <2>2. CASE i \notin 1 .. Len(a)
    <3>1. i > Len(a) /\ i - Len(a) \in 1 .. Len(l) /\ t[i] = l[i - Len(a)]
      BY <1>2, <2>2
    <3>2. PICK Q \in SUBSET (R \ A) :
            l[i - Len(a)] \in batch[Q] /\ \A j \in i - Len(a) .. Len(l) : l[j] \in Q
      BY <3>1 DEF Places
    <3>3. ASSUME NEW j \in i .. Len(t) PROVE t[j] \in Q
      <4>1. j \in 1 .. Len(t) /\ j > Len(a)
        BY <1>2, <3>1, <3>3
      <4>2. t[j] = l[j - Len(a)] /\ j - Len(a) \in i - Len(a) .. Len(l)
        BY <1>2, <3>3, <4>1
      <4>3. QED
        BY <3>2, <4>2
    <3>4. QED
      BY <3>1, <3>2, <3>3
  <2>3. QED
    BY <2>1, <2>2
<1>6. QED
  BY <1>2, <1>3, <1>4, <1>5 DEF Places, t

\* What a list holds belongs to the set that it is a list over.
LEMMA ElementOfList ==
  ASSUME NEW T, NEW list \in Seq(T), NEW i \in 1 .. Len(list)
  PROVE  list[i] \in T
OBVIOUS

\* A list that is not refused has every name once, where a pass placed it.
LEMMA RoundsPlace ==
  ASSUME NEW batch, NEW S, Passes(batch, S), NEW R \in SUBSET S,
         Rounds(batch, S)[R] # Failed
  PROVE  Places(batch, R, Rounds(batch, S)[R])
<1> DEFINE L == Rounds(batch, S)
           F == {A \in SUBSET S : L[A] # Failed => Places(batch, A, L[A])}
<1>1. IsFiniteSet(S) /\ \A T \in SUBSET S : T \in SUBSET Int /\ IsFiniteSet(T)
  <2>1. \A T \in SUBSET S : T \in SUBSET Int
    BY DEF Passes
  <2>2. QED
    BY <2>1, FS_Subset DEF Passes
<1>2. \A A \in SUBSET S : L[A] = ListOf(batch, L, A)
  BY RoundsFacts
<1> HIDE DEF L
<1>3. ASSUME NEW A \in SUBSET S, \A B \in SUBSET A : B # A => B \in F
      PROVE  A \in F
  <2>1. SUFFICES ASSUME L[A] # Failed PROVE Places(batch, A, L[A])
    OBVIOUS
  <2>2. CASE A = {}
    <3>1. L[A] = <<>>
      BY <1>2, <2>2 DEF ListOf
    <3>2. QED
      BY <2>2, <3>1 DEF Places
  <2>3. CASE A # {}
    <3>1. /\ batch[A] # {} /\ L[A \ batch[A]] # Failed
          /\ L[A] = Sorted(batch[A]) \o L[A \ batch[A]]
      BY <1>2, <2>1, <2>3 DEF ListOf
    <3>2. batch[A] \in SUBSET A
      BY DEF Passes
    <3>3. Places(batch, A \ batch[A], L[A \ batch[A]])
      BY <1>3, <3>1, <3>2, A \ batch[A] # A, A \ batch[A] \in SUBSET A
    <3>4. batch[A] \in SUBSET Int /\ IsFiniteSet(batch[A])
      <4>1. batch[A] \in SUBSET S
        BY <3>2
      <4>2. QED
        BY <1>1, <4>1
    <3>5. /\ Sorted(batch[A]) \in Seq(batch[A])
          /\ \A x \in batch[A] : \E i \in 1 .. Len(Sorted(batch[A])) : Sorted(batch[A])[i] = x
          /\ \A i, j \in 1 .. Len(Sorted(batch[A])) :
               i < j => Sorted(batch[A])[i] < Sorted(batch[A])[j]
      BY <3>4, SortedFacts
    <3>6. \A i, j \in 1 .. Len(Sorted(batch[A])) :
            Sorted(batch[A])[i] = Sorted(batch[A])[j] => i = j
      <4>1. SUFFICES ASSUME NEW i \in 1 .. Len(Sorted(batch[A])),
                            NEW j \in 1 .. Len(Sorted(batch[A])),
                            Sorted(batch[A])[i] = Sorted(batch[A])[j], i # j
                     PROVE  FALSE
        OBVIOUS
      <4>2. Sorted(batch[A])[i] \in Int /\ Sorted(batch[A])[j] \in Int
        <5>1. Sorted(batch[A])[i] \in batch[A] /\ Sorted(batch[A])[j] \in batch[A]
          BY <3>5, ElementOfList
        <5>2. batch[A] \subseteq Int
          BY <3>4
        <5>3. QED
          BY <5>1, <5>2, Zenon
      <4>3. i < j \/ j < i
        BY <4>1
      <4>4. QED
        BY <3>5, <4>1, <4>2, <4>3
    <3>7. QED
      BY <3>1, <3>2, <3>3, <3>5, <3>6, PassInFront
  <2>4. QED
    BY <2>2, <2>3
<1>4. \A A \in SUBSET S : A \in F
  <2> HIDE DEF F
  <2>1. QED
    BY <1>1, <1>3, SetInduction
<1>5. QED
  BY <1>4 DEF L

\* The first name of a sorted list is the least; the rest is sorted too.
LEMMA SortedHead ==
  ASSUME NEW S \in SUBSET Int, IsFiniteSet(S), NEW m \in S, \A x \in S : m <= x
  PROVE  Sorted(S) = <<m>> \o Sorted(S \ {m})
<1> DEFINE r == Sorted(S \ {m})
           s == <<m>> \o r
           n == Cardinality(S)
<1>1. /\ IsFiniteSet(S \ {m}) /\ S \ {m} \in SUBSET Int
      /\ Cardinality(S \ {m}) = n - 1
  BY FS_RemoveElement
<1>2. n \in Nat
  BY FS_CardinalityType
<1>3. /\ r \in Seq(S \ {m}) /\ Len(r) = n - 1
      /\ \A i, j \in 1 .. Len(r) : i < j => r[i] < r[j]
      /\ \A x \in S \ {m} : \E i \in 1 .. Len(r) : r[i] = x
  BY <1>1, SortedFacts
<1>4. /\ Sorted(S) \in Seq(S) /\ Len(Sorted(S)) = n
      /\ \A i, j \in 1 .. n : i < j => Sorted(S)[i] < Sorted(S)[j]
      /\ \A x \in S : \E i \in 1 .. n : Sorted(S)[i] = x
  BY SortedFacts
<1> HIDE DEF r, n
<1>5. /\ s \in [1 .. n -> S] /\ s[1] = m /\ n >= 1
      /\ \A i \in 1 .. n : i # 1 => i - 1 \in 1 .. Len(r) /\ s[i] = r[i - 1] /\ s[i] \in S \ {m}
      /\ \A i \in 1 .. Len(r) : i + 1 \in 1 .. n /\ s[i + 1] = r[i]
  <2>1. <<m>> \in Seq(S) /\ r \in Seq(S) /\ Len(<<m>>) = 1 /\ <<m>>[1] = m
    BY <1>3
  <2>2. s \in Seq(S) /\ Len(s) = n /\ n >= 1 /\ s[1] = m
    BY <1>2, <1>3, <2>1
  <2>3. \A i \in 1 .. n : i # 1 => i - 1 \in 1 .. Len(r) /\ s[i] = r[i - 1]
    BY <1>2, <1>3, <2>1, <2>2
  <2>4. \A i \in 1 .. Len(r) : i + 1 \in 1 .. n /\ s[i + 1] = r[i] /\ r[i] \in S \ {m}
    BY <1>2, <1>3, <2>1, <2>2
  <2> HIDE DEF s
  <2>5. s \in [1 .. n -> S]
    BY <1>2, <2>2
  <2>6. QED
    BY <2>2, <2>3, <2>4, <2>5
<1> HIDE DEF s
<1>6. ASSUME NEW i \in 1 .. n, NEW j \in 1 .. n, i < j PROVE s[i] < s[j]
  <2>1. j # 1 /\ s[j] \in S \ {m} /\ s[j] \in Int /\ m \in Int
    <3>1. j # 1
      BY <1>2, <1>6
    <3>2. s[j] \in S \ {m}
      BY <1>5, <3>1
    <3>3. QED
      BY <3>1, <3>2
  <2>2. CASE i = 1
    <3>1. s[i] = m /\ m <= s[j] /\ m # s[j]
      BY <1>5, <2>1, <2>2
    <3>2. QED
      BY <2>1, <3>1
  <2>3. CASE i # 1
    <3>1. s[i] = r[i - 1] /\ s[j] = r[j - 1] /\ i - 1 \in 1 .. Len(r) /\ j - 1 \in 1 .. Len(r)
      BY <1>5, <2>1, <2>3
    <3>2. QED
      BY <1>2, <1>3, <1>6, <3>1
  <2>4. QED
    BY <2>2, <2>3
<1>7. ASSUME NEW x \in S PROVE \E i \in 1 .. n : s[i] = x
  <2>1. CASE x = m
    BY <1>2, <1>5, <2>1
  <2>2. CASE x # m
    <3>1. PICK i \in 1 .. Len(r) : r[i] = x
      BY <1>3, <2>2
    <3>2. QED
      BY <1>5, <3>1
  <2>3. QED
    BY <2>1, <2>2
<1>8. Sorted(S) \in [1 .. n -> S]
  BY <1>2, <1>4
<1>9. s = Sorted(S)
  <2> DEFINE u == Sorted(S)
  <2>1. /\ s \in [1 .. n -> S] /\ u \in [1 .. n -> S]
        /\ \A i, j \in 1 .. n : i < j => s[i] < s[j] /\ u[i] < u[j]
        /\ \A x \in S : (\E i \in 1 .. n : s[i] = x) /\ (\E i \in 1 .. n : u[i] = x)
    BY <1>4, <1>5, <1>6, <1>7, <1>8
  <2> HIDE DEF u
  <2>2. s = u
    BY <1>2, <2>1, SortedIsUnique
  <2>3. QED
    BY <2>2 DEF u
<1>10. QED
  BY <1>9 DEF s, r

-----------------------------------------------------------------------------
(* The batches of the cargo planner.                                       *)

\* What planPackages is given: the edges between the selected crates, none
\* from a crate to itself.
Workspace(g, names) ==
  /\ names \in SUBSET (Nat \ {0}) /\ IsFiniteSet(names)
  /\ g.hard \in [names -> SUBSET names] /\ g.soft \in [names -> SUBSET names]
  /\ \A n \in names : n \notin g.hard[n] \cup g.soft[n]

\* Inside a component that no edge leaves, every dependency leads back to the
\* crate that depends on it.
LEMMA SinkIsConnected ==
  ASSUME NEW g, NEW names, Workspace(g, names), NEW R \in SUBSET names,
         NEW C \in Sinks(g, R), NEW n \in C, NEW d \in C
  PROVE  Reaches(g, names, d, n)
<1> SUFFICES ASSUME NEW S \in SUBSET names, d \in S, Closed(g, names, S)
             PROVE  n \in S
  BY DEF Reaches
<1>1. C \subseteq R /\ Closed(g, R, C)
  BY DEF Sinks
<1>2. Closed(g, R, S \cap C)
  BY <1>1 DEF Closed, Edges, Workspace
<1>3. S \cap C = C
  BY <1>2 DEF Sinks
<1>4. QED
  BY <1>3

\* A cycle is broken at a crate that depends on nothing left but through
\* dev-dependencies inside its component.
LEMMA CandidateEdges ==
  ASSUME NEW g, NEW names, Workspace(g, names), NEW R \in SUBSET names,
         NEW n \in Candidates(g, R)
  PROVE  /\ n \in R
         /\ g.hard[n] \cap R = {}
         /\ \A d \in g.soft[n] \cap R : Reaches(g, names, d, n)
<1>1. PICK C \in Sinks(g, R) : n \in C /\ Cardinality(C) > 1
  BY DEF Candidates
<1>2. C \subseteq R /\ Closed(g, R, C)
  BY DEF Sinks
<1>3. g.hard[n] \cap R = {}
  BY DEF Candidates
<1>4. \A d \in g.soft[n] \cap R : d \in C
  BY <1>1, <1>2 DEF Closed, Edges
<1>5. \A d \in g.soft[n] \cap R : Reaches(g, names, d, n)
  BY <1>1, <1>4, SinkIsConnected
<1>6. QED
  BY <1>1, <1>2, <1>3, <1>5

\* The costs of the candidates are numbers.
LEMMA CostsAreNumbers ==
  ASSUME NEW g, NEW names, Workspace(g, names), NEW R \in SUBSET names, NEW m
  PROVE  /\ IsFiniteSet(RejectedEdges(g, R, m))
         /\ Cardinality(RejectedEdges(g, R, m)) \in Nat
         /\ Cardinality(DroppedEdges(g, R, m)) \in Nat
<1>1. RejectedEdges(g, R, m) \in SUBSET names /\ DroppedEdges(g, R, m) \in SUBSET names
  BY DEF RejectedEdges, DroppedEdges
<1>2. \A T \in SUBSET names : IsFiniteSet(T) /\ Cardinality(T) \in Nat
  BY FS_Subset, FS_CardinalityType DEF Workspace
<1>3. QED
  BY <1>1, <1>2

\* The sort picks a crate that costs no rejected upload when there is one.
LEMMA CheapestIsFree ==
  ASSUME NEW g, NEW names, Workspace(g, names), NEW R \in SUBSET names,
         Acyclic([c \in names |-> Needed(g, c)], names),
         NEW n \in Cheapest(g, R)
  PROVE  Needed(g, n) \cap R = {}
<1>1. n \in Candidates(g, R)
  BY DEF Cheapest
<1>2. PICK C \in Sinks(g, R) : n \in C /\ Cardinality(C) > 1
  BY <1>1 DEF Candidates
<1>3. C \subseteq R /\ Closed(g, R, C) /\ C # {}
  BY DEF Sinks
<1>4. PICK u \in C : Needed(g, u) \cap C = {}
  <2>1. \E u \in C : [c \in names |-> Needed(g, c)][u] \cap C = {}
    BY <1>3 DEF Acyclic
  <2>2. QED
    BY <1>3, <2>1
<1>5. g.hard[u] \cap R = {}
  BY <1>3, <1>4 DEF Closed, Edges, Needed
<1>6. u \in Candidates(g, R)
  BY <1>2, <1>5 DEF Candidates
<1>7. RejectedEdges(g, R, u) = {}
  BY <1>3, <1>4 DEF RejectedEdges, Closed, Edges, Needed
<1>8. Cardinality(RejectedEdges(g, R, u)) = 0
  BY <1>7, FS_EmptySet
<1>9. \A m \in Candidates(g, R) :
        /\ IsFiniteSet(RejectedEdges(g, R, m))
        /\ Cardinality(RejectedEdges(g, R, m)) \in Nat
  BY CostsAreNumbers
<1>10. Cardinality(RejectedEdges(g, R, n)) = 0
  <2>1. CASE n = u
    BY <2>1, <1>8
  <2>2. CASE n # u
    <3>1. Cheaper(g, R, n, u)
      BY <2>2, <1>6 DEF Cheapest
    <3>2. Cardinality(RejectedEdges(g, R, n)) <= 0
      BY <3>1, <1>1, <1>8, <1>9 DEF Cheaper
    <3>3. QED
      BY <3>2, <1>1, <1>9
  <2>3. QED
    BY <2>1, <2>2
<1>11. RejectedEdges(g, R, n) = {}
  BY <1>1, <1>9, <1>10, FS_EmptySet
<1>12. QED
  BY <1>1, <1>11, CandidateEdges DEF Needed, RejectedEdges

\* What every crate of a pass satisfies, whether the pass found crates that
\* wait on nothing or broke a cycle.
LEMMA BatchKeepsEdges ==
  ASSUME NEW g, NEW names, Workspace(g, names), NEW R \in SUBSET names,
         NEW n \in Batch(g, R)
  PROVE  /\ n \in R
         /\ g.hard[n] \cap R = {}
         /\ \A d \in g.soft[n] \cap R : Reaches(g, names, d, n)
         /\ Acyclic([c \in names |-> Needed(g, c)], names) =>
              Needed(g, n) \cap R = {}
<1>1. CASE Ready(g, R) # {}
  <2>1. n \in R /\ Edges(g, R, n) = {}
    BY <1>1 DEF Batch, Ready
  <2>2. QED
    BY <2>1 DEF Edges, Needed
<1>2. CASE Ready(g, R) = {}
  <2>1. n \in Cheapest(g, R) /\ n \in Candidates(g, R)
    BY <1>2 DEF Batch, Cheapest
  <2>2. QED
    BY <2>1, CandidateEdges, CheapestIsFree
<1>3. QED
  BY <1>1, <1>2

\* The order of the candidates is total, so the sort has a first one.
LEMMA CheapestExists ==
  ASSUME NEW g, NEW names, Workspace(g, names), NEW R \in SUBSET names,
         Candidates(g, R) # {}
  PROVE  Cheapest(g, R) # {}
<1> DEFINE K == Candidates(g, R)
           rejected(n) == Cardinality(RejectedEdges(g, R, n))
           dropped(n) == Cardinality(DroppedEdges(g, R, n))
           K1 == {n \in K : \A m \in K : rejected(n) <= rejected(m)}
           K2 == {n \in K1 : \A m \in K1 : dropped(n) <= dropped(m)}
<1>1. K \in SUBSET names /\ K \in SUBSET Int /\ K # {}
  <2>1. K \subseteq R
    BY DEF Candidates, Sinks
  <2>2. names \subseteq Int
    BY DEF Workspace
  <2> HIDE DEF K
  <2>3. K # {}
    BY DEF K
  <2>4. QED
    BY <2>1, <2>2, <2>3
<1>2. \A n \in K : rejected(n) \in Nat /\ dropped(n) \in Nat
  BY CostsAreNumbers
<1>3. \A T \in SUBSET K : IsFiniteSet(T)
  BY <1>1, FS_Subset DEF Workspace
<1> HIDE DEF K, rejected, dropped
<1>4. K1 # {} /\ K1 \in SUBSET K
  <2> DEFINE f == [n \in K |-> rejected(n)]
  <2>1. f \in [K -> Int] /\ IsFiniteSet(K)
    BY <1>2, <1>3
  <2> HIDE DEF f
  <2>2. PICK n \in K : \A m \in K : f[n] <= f[m]
    BY <1>1, <2>1, LeastValue
  <2>3. QED
    BY <2>2 DEF f
<1>5. K2 # {} /\ K2 \in SUBSET K1
  <2> DEFINE f == [n \in K1 |-> dropped(n)]
  <2> HIDE DEF K1
  <2>1. f \in [K1 -> Int] /\ IsFiniteSet(K1)
    BY <1>2, <1>3, <1>4
  <2> HIDE DEF f
  <2>2. PICK n \in K1 : \A m \in K1 : f[n] <= f[m]
    BY <1>4, <2>1, LeastValue
  <2>3. QED
    BY <2>2 DEF f
<1>6. PICK n \in K2 : \A x \in K2 : n <= x
  <2>1. K2 \in SUBSET K
    BY <1>4, <1>5
  <2> HIDE DEF K2, K1
  <2>2. K2 \in SUBSET Int /\ K2 # {} /\ IsFiniteSet(K2)
    BY <1>1, <1>3, <1>5, <2>1
  <2>3. QED
    BY <2>2, LeastElement
<1>7. n \in K /\ n \in Int /\ \A m \in K : m \in Int
  BY <1>1
<1>8. ASSUME NEW m \in K, m # n PROVE Cheaper(g, R, n, m)
  <2>1. CASE m \notin K1
    <3>1. PICK l \in K : ~ (rejected(m) <= rejected(l))
      BY <2>1
    <3>2. rejected(n) <= rejected(l)
      BY <1>6
    <3>3. rejected(n) < rejected(m)
      BY <1>2, <1>7, <3>1, <3>2
    <3>4. QED
      BY <3>3 DEF Cheaper, rejected
  <2>2. CASE m \in K1 /\ m \notin K2
    <3>1. PICK l \in K1 : ~ (dropped(m) <= dropped(l))
      BY <2>2
    <3>2. dropped(n) <= dropped(l) /\ l \in K
      BY <1>6
    <3>3. dropped(n) < dropped(m)
      BY <1>2, <1>7, <3>1, <3>2
    <3>4. rejected(n) <= rejected(m) /\ rejected(m) <= rejected(n)
      BY <1>6, <1>7, <2>2
    <3>5. rejected(n) = rejected(m)
      BY <1>2, <1>7, <3>4
    <3>6. QED
      BY <3>3, <3>5 DEF Cheaper, rejected, dropped
  <2>3. CASE m \in K2
    <3>1. n < m
      BY <1>6, <1>7, <1>8, <2>3
    <3>2. rejected(n) <= rejected(m) /\ rejected(m) <= rejected(n)
      BY <1>6, <1>7, <2>3
    <3>3. dropped(n) <= dropped(m) /\ dropped(m) <= dropped(n)
      BY <1>6, <2>3
    <3>4. rejected(n) = rejected(m) /\ dropped(n) = dropped(m)
      BY <1>2, <1>7, <3>2, <3>3
    <3>5. QED
      BY <3>1, <3>4 DEF Cheaper, rejected, dropped
  <2>4. QED
    BY <2>1, <2>2, <2>3
<1>9. n \in Cheapest(g, R)
  BY <1>7, <1>8 DEF Cheapest, K
<1>10. QED
  BY <1>9

\* A pass finds a crate to place unless normal and build dependencies alone
\* form a cycle.
LEMMA BatchExists ==
  ASSUME NEW g, NEW names, Workspace(g, names), Acyclic(g.hard, names),
         NEW R \in SUBSET names, R # {}
  PROVE  Batch(g, R) # {}
<1>1. SUFFICES ASSUME Ready(g, R) = {} PROVE Candidates(g, R) # {}
  BY CheapestExists DEF Batch
<1> DEFINE F == {C \in (SUBSET R) \ {{}} : Closed(g, R, C)}
<1>2. R \in F
  BY DEF Closed, Edges
<1>3. PICK C \in F : \A D \in F : D \subseteq C => D = C
  <2>1. F \in SUBSET (SUBSET R) /\ F # {}
    BY <1>2
  <2>2. IsFiniteSet(R)
    BY FS_Subset DEF Workspace
  <2> HIDE DEF F
  <2>3. QED
    BY <2>1, <2>2, LeastSet
<1>4. C \in Sinks(g, R) /\ C \subseteq R /\ C # {} /\ Closed(g, R, C)
  BY <1>3 DEF Sinks
<1>5. Cardinality(C) > 1
  <2>1. PICK x \in C : TRUE
    BY <1>4
  <2>2. Edges(g, R, x) # {} /\ Edges(g, R, x) \subseteq C
    BY <1>1, <1>4 DEF Ready, Closed
  <2>3. x \notin Edges(g, R, x)
    BY <1>4 DEF Edges, Workspace
  <2>4. PICK y \in C : y # x
    BY <2>2, <2>3
  <2>5. IsFiniteSet(C)
    BY <1>4, FS_Subset DEF Workspace
  <2>6. Cardinality(C) \in Nat /\ Cardinality(C) # 0
    BY <1>4, <2>5, FS_CardinalityType, FS_EmptySet
  <2>7. Cardinality(C) # 1
    BY <2>4, <2>5, FS_Singleton
  <2>8. QED
    BY <2>6, <2>7
<1>6. PICK n \in C : g.hard[n] \cap C = {}
  BY <1>4 DEF Acyclic
<1>7. g.hard[n] \cap R = {}
  BY <1>4, <1>6 DEF Closed, Edges
<1>8. n \in Candidates(g, R)
  BY <1>4, <1>5, <1>7 DEF Candidates
<1>9. QED
  BY <1>8

\* The loop of the planner is one of those that Rounds stands for.
LEMMA PlannerPasses ==
  ASSUME NEW g, NEW names, Workspace(g, names)
  PROVE  Passes(Batches(g, names), names)
<1>1. \A R \in SUBSET names : Batch(g, R) \subseteq R
  BY BatchKeepsEdges
<1>2. QED
  BY <1>1 DEF Passes, Batches, Workspace

\* What the closed form of the plan is worth: every selected crate once, and
\* the edges that uploads need kept where they can all be kept.
LEMMA PlanFacts ==
  ASSUME NEW g, NEW names, Workspace(g, names), PlanOf(g, names) # Failed
  PROVE  /\ PlanOf(g, names) \in Seq(names)
         /\ \A n \in names : \E i \in 1 .. Len(PlanOf(g, names)) : PlanOf(g, names)[i] = n
         /\ Acyclic([c \in names |-> Needed(g, c)], names) =>
              \A i, j \in 1 .. Len(PlanOf(g, names)) :
                PlanOf(g, names)[j] \in Needed(g, PlanOf(g, names)[i]) => j < i
<1> DEFINE P == PlanOf(g, names)
           B == Batches(g, names)
<1>1. Places(B, names, P)
  BY PlannerPasses, RoundsPlace DEF PlanOf
<1>2. \A Q \in SUBSET names : B[Q] = Batch(g, Q)
  BY DEF Batches
<1> HIDE DEF P, B
<1>3. ASSUME Acyclic([c \in names |-> Needed(g, c)], names),
             NEW i \in 1 .. Len(P), NEW j \in 1 .. Len(P), P[j] \in Needed(g, P[i])
      PROVE  j < i
  <2>1. PICK Q \in SUBSET names : P[i] \in B[Q] /\ \A k \in i .. Len(P) : P[k] \in Q
    BY <1>1 DEF Places
  <2>2. Needed(g, P[i]) \cap Q = {}
    BY <1>2, <1>3, <2>1, BatchKeepsEdges
  <2>3. ~ (j >= i)
    BY <1>3, <2>1, <2>2
  <2>4. QED
    BY <2>3
<1>4. QED
  BY <1>1, <1>3 DEF Places, P
=============================================================================
