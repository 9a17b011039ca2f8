-------------------------- MODULE SequencePartsProofs --------------------------
(* Facts about positions and parts of sequences that the proofs about windows of *)
(* messages rest on, for all sequences.                                          *)
EXTENDS SequenceParts, FiniteSetTheorems, SequenceTheorems, TLAPS

\* The newest members of a sequence are its last ones.
LEMMA NewestProperties ==
  ASSUME NEW S, NEW s \in Seq(S), NEW n \in Nat
  PROVE  /\ Newest(s, n) \in Seq(S)
         /\ Len(Newest(s, n)) = IF Len(s) <= n THEN Len(s) ELSE n
         /\ \A i \in 1..Len(Newest(s, n)) :
              /\ i + (Len(s) - Len(Newest(s, n))) \in 1..Len(s)
              /\ Newest(s, n)[i] = s[i + (Len(s) - Len(Newest(s, n)))]
<1>1. Len(s) \in Nat /\ \A i \in 1..Len(s) : s[i] \in S
  BY LenProperties, ElementOfSeq
<1>2. CASE Len(s) <= n
  BY <1>1, <1>2 DEF Newest
<1>3. CASE Len(s) > n
  <2> DEFINE m == Len(s) - n + 1
  <2>1. m \in Int /\ Len(s) \in Int /\ \A i \in m..Len(s) : s[i] \in S
    BY <1>1, <1>3
  <2>2. Newest(s, n) = SubSeq(s, m, Len(s))
    BY <1>1, <1>3 DEF Newest
  <2>3. /\ SubSeq(s, m, Len(s)) \in Seq(S)
        /\ Len(SubSeq(s, m, Len(s))) = IF m <= Len(s) THEN Len(s) - m + 1 ELSE 0
        /\ \A i \in 1..(Len(s) - m + 1) : SubSeq(s, m, Len(s))[i] = s[m + i - 1]
    BY <2>1, SubSeqProperties
  <2>4. Len(Newest(s, n)) = n
    BY <1>1, <1>3, <2>2, <2>3
  <2>5. \A i \in 1..n : Newest(s, n)[i] = s[i + (Len(s) - n)]
    BY <1>1, <1>3, <2>2, <2>3
  <2>6. \A i \in 1..n : i + (Len(s) - n) \in 1..Len(s)
    BY <1>1, <1>3
  <2> QED BY <1>3, <2>2, <2>3, <2>4, <2>5, <2>6
<1> QED BY <1>1, <1>2, <1>3

\* Positions that reappear further on are not more than the positions there.
LEMMA ShiftedPositions ==
  ASSUME NEW m \in Nat, NEW B \in SUBSET (1..m), NEW A \in SUBSET Nat, NEW k \in Nat,
         \A i \in A : i + k \in B
  PROVE  /\ Cardinality(A) \in Nat /\ Cardinality(B) \in Nat
         /\ Cardinality(A) <= Cardinality(B)
<1> DEFINE f == [i \in A |-> i + k]
<1>1. IsFiniteSet(B)
  BY FS_Interval, FS_Subset, 1 \in Int, m \in Int
<1>2. f \in Injection(A, B)
  BY DEF Injection, IsInjective
<1>3. IsFiniteSet(A) /\ Cardinality(A) <= Cardinality(B)
  BY <1>1, <1>2, FS_Injection
<1> QED BY <1>1, <1>3, FS_CardinalityType

\* How many positions of I there are up to i.
RankIn(I, i) == Cardinality({j \in I : j <= i})

\* How many positions a sequence has.
LEMMA PositionCount ==
  ASSUME NEW n \in Nat
  PROVE  IsFiniteSet(1..n) /\ Cardinality(1..n) = n
<1>1. 1 \in Int /\ n \in Int
  OBVIOUS
<1>2. IsFiniteSet(1..n) /\ Cardinality(1..n) = IF 1 > n THEN 0 ELSE n - 1 + 1
  BY <1>1, FS_Interval
<1> QED BY <1>2

\* Positions of a sequence are finitely many.
LEMMA PositionsFinite ==
  ASSUME NEW n \in Nat, NEW I \in SUBSET (1..n)
  PROVE  IsFiniteSet(I) /\ Cardinality(I) \in Nat /\ Cardinality(I) <= n
<1>1. IsFiniteSet(1..n) /\ Cardinality(1..n) = n
  BY PositionCount
<1>2. IsFiniteSet(I) /\ Cardinality(I) <= n
  BY <1>1, FS_Subset
<1> QED BY <1>2, FS_CardinalityType

\* The ranks of the positions I are the numbers up to their count, each once.
LEMMA RanksAreNumbers ==
  ASSUME NEW n \in Nat, NEW I \in SUBSET (1..n)
  PROVE  /\ \A i \in I : RankIn(I, i) \in 1..Cardinality(I)
         /\ \A k \in 1..Cardinality(I) : \E i \in I : RankIn(I, i) = k
         /\ \A i, j \in I : i < j => RankIn(I, i) < RankIn(I, j)
<1> DEFINE Upto(i) == {j \in I : j <= i}
           f == [i \in I |-> RankIn(I, i)]
<1>1. IsFiniteSet(I) /\ Cardinality(I) \in Nat
  BY PositionsFinite
<1>2. ASSUME NEW i \in I PROVE RankIn(I, i) \in 1..Cardinality(I)
  <2>1. Upto(i) \in SUBSET I /\ i \in Upto(i)
    OBVIOUS
  <2>2. IsFiniteSet(Upto(i)) /\ Cardinality(Upto(i)) <= Cardinality(I) /\ Cardinality(Upto(i)) \in Nat
    BY <1>1, <2>1, FS_Subset, FS_CardinalityType
  <2>3. Cardinality(Upto(i)) # 0
    BY <2>1, <2>2, FS_EmptySet
  <2> QED BY <1>1, <2>2, <2>3 DEF RankIn
<1>3. ASSUME NEW i \in I, NEW j \in I, i < j PROVE RankIn(I, i) < RankIn(I, j)
  <2>0. i \in Nat /\ j \in Nat /\ I \subseteq Nat
    OBVIOUS
  <2>1. Upto(i) \in SUBSET Upto(j) /\ Upto(i) # Upto(j) /\ Upto(j) \in SUBSET I
    <3>1. j \in Upto(j) /\ j \notin Upto(i)
      BY <1>3, <2>0
    <3>2. ASSUME NEW x \in Upto(i) PROVE x \in Upto(j)
      <4>1. x \in I /\ x <= i /\ x \in Nat
        BY <2>0
      <4> QED BY <1>3, <2>0, <4>1
    <3> QED BY <3>1, <3>2
  <2>2. IsFiniteSet(Upto(j)) /\ IsFiniteSet(Upto(i))
    BY <1>1, <2>1, FS_Subset
  <2>3. Cardinality(Upto(i)) <= Cardinality(Upto(j)) /\ Cardinality(Upto(i)) # Cardinality(Upto(j))
    BY <2>1, <2>2, FS_Subset
  <2>4. Cardinality(Upto(i)) \in Nat /\ Cardinality(Upto(j)) \in Nat
    BY <2>2, FS_CardinalityType
  <2> QED BY <2>3, <2>4 DEF RankIn
<1>4. ASSUME NEW k \in 1..Cardinality(I) PROVE \E i \in I : RankIn(I, i) = k
  <2>1. f \in Injection(I, 1..Cardinality(I))
    <3>1. f \in [I -> 1..Cardinality(I)]
      BY <1>2
    <3>2. ASSUME NEW i \in I, NEW j \in I, f[i] = f[j] PROVE i = j
      <4>1. i \in Nat /\ j \in Nat /\ RankIn(I, i) = RankIn(I, j) /\ RankIn(I, i) \in Nat
        BY <1>2, <3>2
      <4> QED BY <1>3, <4>1
    <3> QED BY <3>1, <3>2 DEF Injection, IsInjective
  <2>2. IsFiniteSet(1..Cardinality(I)) /\ Cardinality(1..Cardinality(I)) = Cardinality(I)
    BY <1>1, PositionCount
  <2>3. f \in Surjection(I, 1..Cardinality(I))
    BY <2>1, <2>2, FS_Injection
  <2>4. \E i \in I : f[i] = k
    BY <2>3 DEF Surjection
  <2> QED BY <2>4
<1> QED BY <1>2, <1>3, <1>4

\* The part of a sequence at the positions I is a sequence of the members there.
LEMMA AtProperties ==
  ASSUME NEW S, NEW s \in Seq(S), NEW I \in SUBSET (1..Len(s))
  PROVE  /\ At(s, I) \in Seq(S) /\ Len(At(s, I)) = Cardinality(I)
         /\ Cardinality(I) \in Nat /\ Cardinality(I) <= Len(s)
         /\ \A k \in 1..Cardinality(I) : \E i \in I : At(s, I)[k] = s[i]
         /\ \A i \in I : \E k \in 1..Cardinality(I) : At(s, I)[k] = s[i]
<1>0. Len(s) \in Nat /\ \A i \in 1..Len(s) : s[i] \in S
  BY LenProperties, ElementOfSeq
<1>1. Cardinality(I) \in Nat /\ Cardinality(I) <= Len(s)
  BY <1>0, PositionsFinite
<1> DEFINE the(k) == CHOOSE i \in I : RankIn(I, i) = k
<1>2. At(s, I) = [k \in 1..Cardinality(I) |-> s[the(k)]]
  BY DEF At, RankIn
<1>3. ASSUME NEW k \in 1..Cardinality(I) PROVE the(k) \in I /\ RankIn(I, the(k)) = k
  <2>1. \E i \in I : RankIn(I, i) = k
    BY <1>0, RanksAreNumbers
  <2> QED BY <2>1
<1>4. ASSUME NEW i \in I PROVE RankIn(I, i) \in 1..Cardinality(I) /\ the(RankIn(I, i)) = i
  <2>1. RankIn(I, i) \in 1..Cardinality(I)
    BY <1>0, RanksAreNumbers
  <2>2. the(RankIn(I, i)) \in I /\ RankIn(I, the(RankIn(I, i))) = RankIn(I, i)
    BY <1>3, <2>1
  <2>3. PICK x \in I : x = the(RankIn(I, i)) /\ RankIn(I, x) = RankIn(I, i)
    BY <2>2
  <2>4. x \in Nat /\ i \in Nat /\ RankIn(I, i) \in Nat
    BY <1>0, <1>1, <2>1
  <2>5. ~(x < i) /\ ~(i < x)
    <3>1. (x < i => RankIn(I, x) < RankIn(I, i)) /\ (i < x => RankIn(I, i) < RankIn(I, x))
      BY <1>0, RanksAreNumbers
    <3> QED BY <2>3, <2>4, <3>1
  <2> HIDE DEF the
  <2> QED BY <2>1, <2>3, <2>4, <2>5
<1>5. \A k \in 1..Cardinality(I) : At(s, I)[k] = s[the(k)]
  BY <1>2
<1> HIDE DEF the
<1>6. At(s, I) \in Seq(S) /\ Len(At(s, I)) = Cardinality(I)
  <2>1. \A k \in 1..Cardinality(I) : s[the(k)] \in S
    BY <1>0, <1>3
  <2> QED BY <1>1, <1>2, <2>1
<1> QED BY <1>1, <1>3, <1>4, <1>5, <1>6

\* Different members of a part stand at different positions of the sequence.
LEMMA AtPositionsDiffer ==
  ASSUME NEW S, NEW s \in Seq(S), NEW I \in SUBSET (1..Len(s)),
         NEW k \in 1..Cardinality(I), NEW l \in 1..Cardinality(I), k # l
  PROVE  \E i \in I, j \in I : i # j /\ At(s, I)[k] = s[i] /\ At(s, I)[l] = s[j]
<1> DEFINE the(m) == CHOOSE i \in I : RankIn(I, i) = m
<1>0. Len(s) \in Nat
  BY LenProperties
<1>1. At(s, I) = [m \in 1..Cardinality(I) |-> s[the(m)]]
  BY DEF At, RankIn
<1>2. ASSUME NEW m \in 1..Cardinality(I) PROVE the(m) \in I /\ RankIn(I, the(m)) = m
  <2>1. \E i \in I : RankIn(I, i) = m
    BY <1>0, RanksAreNumbers
  <2> QED BY <2>1
<1> HIDE DEF the
<1>3. At(s, I)[k] = s[the(k)] /\ At(s, I)[l] = s[the(l)]
  BY <1>1
<1>4. the(k) \in I /\ the(l) \in I /\ the(k) # the(l)
  BY <1>2
<1> QED BY <1>3, <1>4

\* Among positions there is a first and a last one.
LEMMA EndPositions ==
  ASSUME NEW n \in Nat, NEW I \in SUBSET (1..n), I # {}
  PROVE  /\ \E i \in I : \A j \in I : i <= j
         /\ \E i \in I : \A j \in I : j <= i
<1>1. IsFiniteSet(I) /\ Cardinality(I) \in Nat /\ Cardinality(I) # 0
  BY PositionsFinite, FS_EmptySet
<1>2. /\ \A i \in I : RankIn(I, i) \in 1..Cardinality(I)
      /\ \A k \in 1..Cardinality(I) : \E i \in I : RankIn(I, i) = k
      /\ \A i, j \in I : i < j => RankIn(I, i) < RankIn(I, j)
  BY RanksAreNumbers
<1>3. PICK i \in I : RankIn(I, i) = 1
  BY <1>1, <1>2
<1>4. PICK l \in I : RankIn(I, l) = Cardinality(I)
  BY <1>1, <1>2
<1>5. ASSUME NEW j \in I PROVE i <= j /\ j <= l
  <2>1. RankIn(I, j) \in 1..Cardinality(I) /\ j \in Nat /\ i \in Nat /\ l \in Nat
    BY <1>2
  <2>2. ~(j < i) /\ ~(l < j)
    <3>1. (j < i => RankIn(I, j) < RankIn(I, i)) /\ (l < j => RankIn(I, l) < RankIn(I, j))
      BY <1>2
    <3> QED BY <1>1, <1>3, <1>4, <2>1, <3>1
  <2> QED BY <2>1, <2>2
<1> QED BY <1>5

\* A set of numbers that is not empty has a least one.
LEMMA LeastNumber ==
  ASSUME NEW T \in SUBSET Nat, T # {}
  PROVE  \E n \in T : \A m \in T : n <= m
<1>1. PICK n \in T : TRUE
  OBVIOUS
<1>2. CASE 0 \in T
  BY <1>2
<1>3. CASE 0 \notin T
  <2> DEFINE I == T \cap 1..n
  <2>1. I \in SUBSET (1..n) /\ I # {} /\ n \in Nat
    BY <1>1, <1>3
  <2>2. PICK i \in I : \A j \in I : i <= j
    BY <2>1, EndPositions
  <2>3. \A m \in T : i <= m
    BY <2>1, <2>2, <1>3
  <2> QED BY <2>2, <2>3
<1> QED BY <1>2, <1>3

\* Induction: what holds of 0 and goes over to the successor holds of all numbers.
LEMMA Induction ==
  ASSUME NEW T \in SUBSET Nat, 0 \in T, \A n \in T : n + 1 \in T
  PROVE  T = Nat
<1>1. SUFFICES ASSUME Nat \ T # {} PROVE FALSE
  OBVIOUS
<1>2. PICK n \in Nat \ T : \A m \in Nat \ T : n <= m
  BY <1>1, LeastNumber
<1>3. n - 1 \in Nat /\ n - 1 \in T
  BY <1>2
<1> QED BY <1>2, <1>3

\* R is a strict order of S in which every set has a least member.
WellOrders(R, S) ==
  /\ \A x, y, z \in S : <<x, y>> \in R /\ <<y, z>> \in R => <<x, z>> \in R
  /\ \A T \in SUBSET S : T # {} => \E x \in T : \A y \in T : <<y, x>> \notin R

\* What G says of x depends on the values at what is before x only.
LooksBack(G, R, S, V) ==
  \A x \in S, f, h \in [S -> V] :
    (\A y \in S : <<y, x>> \in R => f[y] = h[y]) => G[x][f] = G[x][h]

\* f is as G says at x and at all that is before x.
GivenTo(f, x, G, R, S, V) ==
  f \in [S -> V] /\ \A y \in S : y = x \/ <<y, x>> \in R => f[y] = G[y][f]

\* Two functions that are as G says up to x are equal up to x.
LEMMA RecursionAgrees ==
  ASSUME NEW S, NEW V, NEW R, WellOrders(R, S), NEW G, LooksBack(G, R, S, V),
         NEW x \in S, NEW f, GivenTo(f, x, G, R, S, V), NEW h, GivenTo(h, x, G, R, S, V)
  PROVE  \A y \in S : y = x \/ <<y, x>> \in R => f[y] = h[y]
<1> DEFINE Below(y) == y = x \/ <<y, x>> \in R
           T == {y \in S : Below(y) /\ f[y] # h[y]}
<1>1. SUFFICES ASSUME T # {} PROVE FALSE
  OBVIOUS
<1>2. PICK y \in T : \A z \in T : <<z, y>> \notin R
  <2>1. T \in SUBSET S
    OBVIOUS
  <2> QED BY <1>1, <2>1 DEF WellOrders
<1>3. ASSUME NEW z \in S, <<z, y>> \in R PROVE f[z] = h[z]
  <2>1. Below(z)
    BY <1>2, <1>3 DEF WellOrders
  <2> QED BY <1>2, <1>3, <2>1
<1>4. G[y][f] = G[y][h]
  BY <1>2, <1>3 DEF LooksBack, GivenTo
<1> QED BY <1>2, <1>4 DEF GivenTo

\* A recursive definition of a function of S whose values are in V, and what solves it.
Recursive(G, R, S, V) == V # {} /\ G \in [S -> [[S -> V] -> V]] /\ LooksBack(G, R, S, V)
Solvable(G, S, V) == \E f \in [S -> V] : \A x \in S : f[x] = G[x][f]

\* A recursive definition has a solution.
LEMMA RecursionExists ==
  ASSUME NEW S, NEW V, NEW R, NEW G, WellOrders(R, S), Recursive(G, R, S, V)
  PROVE  Solvable(G, S, V)
<1> SUFFICES ASSUME G \in [S -> [[S -> V] -> V]], LooksBack(G, R, S, V), V # {}
             PROVE  \E f \in [S -> V] : \A x \in S : f[x] = G[x][f]
  BY DEF Recursive, Solvable
<1>1. PICK v \in V : TRUE
  OBVIOUS
<1> DEFINE Given(f, x) == GivenTo(f, x, G, R, S, V)
           the(x) == CHOOSE f : Given(f, x)
           whole == [y \in S |-> the(y)[y]]
<1>2. ASSUME NEW x \in S, NEW W \in SUBSET S, \A y \in S : <<y, x>> \in R => y \in W,
             \A y \in W, z \in S : <<z, y>> \in R => z \in W,
             \A y \in W : Given(the(y), y)
      PROVE  \A h \in [S -> V] : (\A y \in W : h[y] = the(y)[y]) => \A y \in W : h[y] = G[y][h]
  <2> SUFFICES ASSUME NEW h \in [S -> V], \A y \in W : h[y] = the(y)[y], NEW y \in W
               PROVE  h[y] = G[y][h]
    OBVIOUS
  <2>1. the(y) \in [S -> V] /\ the(y)[y] = G[y][the(y)]
    BY <1>2 DEF GivenTo
  <2>2. ASSUME NEW z \in S, <<z, y>> \in R PROVE the(y)[z] = h[z]
    <3>1. z \in W /\ Given(the(z), z)
      BY <1>2, <2>2
    <3>2. Given(the(y), z)
      BY <1>2, <2>2 DEF GivenTo, WellOrders
    <3>3. the(y)[z] = the(z)[z]
      BY <3>1, <3>2, RecursionAgrees
    <3> QED BY <3>1, <3>3
  <2>3. G[y][the(y)] = G[y][h]
    BY <2>1, <2>2 DEF LooksBack
  <2> QED BY <2>1, <2>3
<1>3. \A x \in S : \E f : Given(f, x)
  <2> DEFINE T == {x \in S : ~\E f : Given(f, x)}
  <2>1. SUFFICES ASSUME T # {} PROVE FALSE
    OBVIOUS
  <2>2. PICK x \in T : \A y \in T : <<y, x>> \notin R
    BY <2>1 DEF WellOrders
  <2> DEFINE W == {y \in S : <<y, x>> \in R}
             g == [y \in S |-> IF y \in W THEN the(y)[y] ELSE v]
             f == [y \in S |-> IF y = x THEN G[x][g] ELSE g[y]]
  <2>3. \A y \in W : Given(the(y), y)
    BY <2>2
  <2>4. g \in [S -> V] /\ \A y \in W : g[y] = the(y)[y]
    BY <2>3 DEF GivenTo
  <2>5. f \in [S -> V]
    BY <2>4
  <2>6. x \notin W
    <3>1. {x} \in SUBSET S /\ {x} # {}
      OBVIOUS
    <3> QED BY <3>1 DEF WellOrders
  <2>7. \A y \in W, z \in S : <<z, y>> \in R => z \in W
    BY DEF WellOrders
  <2>8. \A y \in W : f[y] = the(y)[y]
    BY <2>4, <2>6
  <2>9. \A y \in W : f[y] = G[y][f]
    BY <1>2, <2>3, <2>5, <2>7, <2>8
  <2>10. f[x] = G[x][f]
    <3>1. \A y \in S : <<y, x>> \in R => f[y] = g[y]
      BY <2>6
    <3>2. G[x][f] = G[x][g]
      <4> HIDE DEF f, g
      <4> QED BY <2>4, <2>5, <3>1 DEF LooksBack
    <3> QED BY <3>2
  <2>11. Given(f, x)
    BY <2>5, <2>9, <2>10 DEF GivenTo
  <2> QED BY <2>11
<1>4. \A x \in S : Given(the(x), x)
  BY <1>3
<1>5. whole \in [S -> V]
  BY <1>4 DEF GivenTo
<1>6. \A x \in S : whole[x] = G[x][whole]
  <2> HIDE DEF the
  <2>1. \A y \in S : whole[y] = the(y)[y]
    OBVIOUS
  <2> HIDE DEF whole
  <2> SUFFICES ASSUME NEW x \in S PROVE whole[x] = G[x][whole]
    OBVIOUS
  <2> QED BY <1>2, <1>4, <1>5, <2>1
<1> QED BY <1>5, <1>6
=============================================================================
