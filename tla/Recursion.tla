------------------------------ MODULE Recursion ------------------------------
(***************************************************************************)
(* Induction in a form that needs no operator for a predicate: a least     *)
(* member of any set of numbers, functions defined by recursion, and the   *)
(* numbers of a set in order.                                              *)
(***************************************************************************)
EXTENDS Places, PathNames, FiniteSetTheorems, WellFoundedInduction, TLAPS

(* Every nonempty set of natural numbers has a least member. *)
LEMMA LeastMember ==
    ASSUME NEW T \in SUBSET Nat, T # {}
    PROVE  \E m \in T : \A k \in T : m <= k
  <1> DEFINE R == OpToRel(<, Nat)
  <1>1. IsWellFoundedOn(R, Nat)
    BY NatLessThanWellFounded
  <1>2. \A k, m \in Nat : k < m => <<k, m>> \in R
    BY DEF OpToRel
  <1> HIDE DEF R
  <1>3. \E m \in T : \A k \in T : ~ (<<k, m>> \in R)
    BY <1>1, WFMin
  <1>4. T \subseteq Nat
    OBVIOUS
  <1>5. \A k, m \in T : ~(k < m) => m <= k
    BY <1>4
  <1> QED
    BY <1>2, <1>3, <1>4, <1>5

(* An interval lies in a set that holds each of its numbers once it holds those
   below. *)
LEMMA StrongInduction ==
    ASSUME NEW a \in Nat, NEW n \in Nat, NEW S,
           \A i \in a .. n : (\A j \in a .. i - 1 : j \in S) => i \in S
    PROVE  \A i \in a .. n : i \in S
  <1> DEFINE T == {i \in a .. n : i \notin S}
  <1>1. ASSUME T # {} PROVE FALSE
    <2>1. T \in SUBSET Nat
      OBVIOUS
    <2>2. PICK m \in T : \A k \in T : m <= k
      BY <1>1, <2>1, LeastMember
    <2>3. \A j \in a .. m - 1 : j \in a .. n /\ ~(m <= j)
      BY <2>1
    <2>4. \A j \in a .. m - 1 : j \in S
      BY <2>2, <2>3
    <2> QED
      BY <2>2, <2>4
  <1> QED
    BY <1>1

(* A step F from a function on an interval to its value at each point, with values
   in V, that reads only the values below the point. *)
Causal(a, n, V, F) ==
    /\ V # {}
    /\ F \in [a .. n -> [[a .. n -> V] -> V]]
    /\ \A i \in a .. n : \A g, h \in [a .. n -> V] :
          (\A j \in a .. i - 1 : g[j] = h[j]) => F[i][g] = F[i][h]

(* Some function over the interval takes every one of its values by such a step. *)
LEMMA RecursiveFunction ==
    ASSUME NEW a \in Nat, NEW n \in Nat, NEW V, NEW F, Causal(a, n, V, F)
    PROVE  \E f \in [a .. n -> V] : \A i \in a .. n : f[i] = F[i][f]
  <1> DEFINE D == a .. n
             Upto(m) == \E f \in [D -> V] : \A i \in D : i < m => f[i] = F[i][f]
             T == {m \in Nat : ~Upto(m)}
  <1>1. ASSUME T # {} PROVE FALSE
    <2>1. PICK m \in T : \A k \in T : m <= k
      BY <1>1, LeastMember
    <2>2. m \in Nat /\ ~Upto(m) /\ (m # 0 => Upto(m - 1))
      <3> HIDE DEF Upto
      <3> QED
        BY <2>1
    <2>3. m > a
      <3>1. SUFFICES ASSUME m <= a PROVE Upto(m)
        BY <2>2
      <3>2. PICK v \in V : TRUE
        BY DEF Causal
      <3>3. [i \in D |-> v] \in [D -> V]
        OBVIOUS
      <3>4. \A i \in D : ~(i < m)
        BY <2>2, <3>1
      <3> QED
        BY <3>3, <3>4
    <2>4. PICK f \in [D -> V] : \A i \in D : i < m - 1 => f[i] = F[i][f]
      BY <2>2, <2>3
    <2>5. CASE m - 1 \notin D
      BY <2>2, <2>3, <2>4, <2>5
    <2>6. CASE m - 1 \in D
      <3> DEFINE g == [f EXCEPT ![m - 1] = F[m - 1][f]]
      <3>1. F[m - 1][f] \in V
        BY <2>6 DEF Causal
      <3>2. /\ g \in [D -> V] /\ g[m - 1] = F[m - 1][f]
            /\ \A i \in D : i # m - 1 => g[i] = f[i]
        BY <2>6, <3>1
      <3> HIDE DEF g
      <3>3. ASSUME NEW i \in D, i < m PROVE g[i] = F[i][g]
        <4>1. \A j \in a .. i - 1 : f[j] = g[j]
          BY <2>2, <3>2, <3>3
        <4>2. F[i][f] = F[i][g]
          BY <3>2, <4>1 DEF Causal
        <4>3. CASE i = m - 1
          BY <3>2, <4>2, <4>3
        <4>4. CASE i # m - 1
          BY <2>2, <2>4, <3>2, <3>3, <4>2, <4>4
        <4> QED
          BY <4>3, <4>4
      <3> QED
        BY <2>2, <3>2, <3>3
    <2> QED
      BY <2>5, <2>6
  <1>2. Upto(n + 1)
    <2> HIDE DEF Upto
    <2> QED
      BY <1>1
  <1> QED
    BY <1>2

\* G has n steps, each of which takes a value to a value.
Steps(n, V, G) == G \in [1 .. n -> [V -> V]]

\* f takes a first value through the n steps of G.
Iterates(n, first, G, f) == f[0] = first /\ \A i \in 1 .. n : f[i] = G[i][f[i - 1]]

\* A value taken through n steps, each a function of the value before it.
LEMMA Iteration ==
    ASSUME NEW n \in Nat, NEW V, NEW first \in V, NEW G, Steps(n, V, G)
    PROVE  \E f \in [0 .. n -> V] : Iterates(n, first, G, f)
  <1> DEFINE at(i, g) == IF i = 0 THEN first ELSE G[i][g[i - 1]]
             F == [i \in 0 .. n |-> [g \in [0 .. n -> V] |-> at(i, g)]]
  <1>1. ASSUME NEW i \in 0 .. n, NEW g \in [0 .. n -> V] PROVE at(i, g) \in V
    <2>1. CASE i = 0
      BY <2>1
    <2>2. CASE i # 0
      <3>1. i \in 1 .. n /\ g[i - 1] \in V
        BY <2>2
      <3> QED
        BY <2>2, <3>1 DEF Steps
    <2> QED
      BY <2>1, <2>2
  <1>2. ASSUME NEW i \in 0 .. n, NEW g, NEW h, \A j \in 0 .. i - 1 : g[j] = h[j]
        PROVE  at(i, g) = at(i, h)
    <2>1. i # 0 => i - 1 \in 0 .. i - 1
      OBVIOUS
    <2> QED
      BY <1>2, <2>1
  <1>3. /\ at(0, F) = first
        /\ \A f, i \in 1 .. n : at(i, f) = G[i][f[i - 1]]
    OBVIOUS
  <1> HIDE DEF at
  <1>4. F \in [0 .. n -> [[0 .. n -> V] -> V]]
    <2>1. \A i \in 0 .. n : [g \in [0 .. n -> V] |-> at(i, g)] \in [[0 .. n -> V] -> V]
      BY <1>1
    <2> QED
      BY <2>1
  <1>5. \A i \in 0 .. n : \A g \in [0 .. n -> V] : F[i][g] = at(i, g)
    OBVIOUS
  <1> HIDE DEF F
  <1>6. Causal(0, n, V, F)
    <2>1. ASSUME NEW i \in 0 .. n, NEW g \in [0 .. n -> V], NEW h \in [0 .. n -> V],
                 \A j \in 0 .. i - 1 : g[j] = h[j]
          PROVE  F[i][g] = F[i][h]
      <3>1. at(i, g) = at(i, h)
        BY <1>2, <2>1
      <3> QED
        BY <1>5, <3>1
    <2>2. V # {}
      OBVIOUS
    <2> QED
      BY <1>4, <2>1, <2>2 DEF Causal
  <1>7. PICK f \in [0 .. n -> V] : \A i \in 0 .. n : f[i] = F[i][f]
    BY <1>6, RecursiveFunction
  <1> QED
    BY <1>3, <1>5, <1>7 DEF at, Iterates

\* A member of a larger one's rank is below it: ranks tell members apart.
LEMMA RanksDiffer ==
    ASSUME NEW S \in SUBSET Int, IsFiniteSet(S), NEW t \in S, NEW u \in S, t < u
    PROVE  Rank(S, t) < Rank(S, u)
  <1> DEFINE A == {v \in S : v < t}
             B == {v \in S : v < u}
  <1>1. A \in SUBSET B /\ A # B
    <2>1. t \in B /\ t \notin A
      OBVIOUS
    <2>2. \A v \in A : v \in B
      OBVIOUS
    <2> QED
      BY <2>1, <2>2
  <1>2. B \in SUBSET S
    OBVIOUS
  <1> HIDE DEF A, B
  <1>3. IsFiniteSet(B)
    BY <1>2, FS_Subset
  <1>4. Cardinality(A) <= Cardinality(B) /\ Cardinality(A) # Cardinality(B) /\ IsFiniteSet(A)
    BY <1>1, <1>3, FS_Subset
  <1>5. Cardinality(A) \in Nat /\ Cardinality(B) \in Nat
    BY <1>3, <1>4, FS_CardinalityType
  <1>6. Rank(S, t) = Cardinality(A) /\ Rank(S, u) = Cardinality(B)
    BY DEF Rank, A, B
  <1> QED
    BY <1>4, <1>5, <1>6

\* Fewer members are below a member than there are.
LEMMA RankRange ==
    ASSUME NEW S, IsFiniteSet(S), NEW t \in S, t \in Int
    PROVE  Rank(S, t) \in 0 .. Cardinality(S) - 1
  <1> DEFINE A == {v \in S : v < t}
  <1>1. A \in SUBSET S /\ A # S
    <2>1. t \notin A
      OBVIOUS
    <2> QED
      BY <2>1
  <1> HIDE DEF A
  <1>2. IsFiniteSet(A) /\ Cardinality(A) <= Cardinality(S) /\ Cardinality(A) # Cardinality(S)
    BY <1>1, FS_Subset
  <1>3. Cardinality(A) \in Nat /\ Cardinality(S) \in Nat
    BY <1>2, FS_CardinalityType
  <1>4. Rank(S, t) = Cardinality(A)
    BY DEF Rank, A
  <1> QED
    BY <1>2, <1>3, <1>4

\* Every rank below the number of members is some member's.
LEMMA EveryRankIsTaken ==
    ASSUME NEW S \in SUBSET Int, IsFiniteSet(S), NEW r \in 0 .. Cardinality(S) - 1
    PROVE  \E t \in S : Rank(S, t) = r
  <1> DEFINE n == Cardinality(S)
             T == (0 .. n - 1) \ {r}
             f == [t \in S |-> Rank(S, t)]
  <1>1. n \in Nat /\ IsFiniteSet(0 .. n - 1) /\ Cardinality(0 .. n - 1) = n
    <2>1. n \in Nat
      BY FS_CardinalityType
    <2> HIDE DEF n
    <2>2. PICK m \in Int : m = n - 1
      BY <2>1
    <2>3. IsFiniteSet(0 .. m) /\ Cardinality(0 .. m) = IF 0 > m THEN 0 ELSE m - 0 + 1
      BY FS_Interval
    <2> QED
      BY <2>1, <2>2, <2>3
  <1>2. IsFiniteSet(T) /\ Cardinality(T) = n - 1
    BY <1>1, FS_RemoveElement
  <1> SUFFICES ASSUME \A t \in S : Rank(S, t) # r PROVE FALSE
    OBVIOUS
  <1>3. f \in [S -> T]
    BY RankRange
  <1>4. \A t \in S : f[t] = Rank(S, t)
    OBVIOUS
  <1> HIDE DEF f, T, n
  <1>5. Cardinality(T) < Cardinality(S)
    BY <1>1, <1>2 DEF n
  <1>6. PICK t \in S, u \in S : t # u /\ f[t] = f[u]
    BY <1>2, <1>3, <1>5, FS_PigeonHole
  <1>7. t < u \/ u < t
    BY <1>6
  <1>8. \A x \in S : Rank(S, x) \in 0 .. Cardinality(S) - 1
    BY RankRange
  <1> QED
    BY <1>4, <1>6, <1>7, <1>8, RanksDiffer

\* A rank is one member's.
LEMMA SameRank ==
    ASSUME NEW S \in SUBSET Int, IsFiniteSet(S), NEW t \in S, NEW u \in S, Rank(S, t) = Rank(S, u)
    PROVE  t = u
  <1>1. ASSUME t < u PROVE FALSE
    <2>1. Rank(S, t) < Rank(S, u)
      BY <1>1, RanksDiffer
    <2>2. Cardinality(S) \in Nat /\ Rank(S, t) \in 0 .. Cardinality(S) - 1
      BY RankRange, FS_CardinalityType
    <2> QED
      BY <2>1, <2>2
  <1>2. ASSUME u < t PROVE FALSE
    <2>1. Rank(S, u) < Rank(S, t)
      BY <1>2, RanksDiffer
    <2>2. Cardinality(S) \in Nat /\ Rank(S, t) \in 0 .. Cardinality(S) - 1
      BY RankRange, FS_CardinalityType
    <2> QED
      BY <2>1, <2>2
  <1> QED
    BY <1>1, <1>2

\* InOrder lists the set: each member once, ascending.
LEMMA InOrderLists ==
    ASSUME NEW S \in SUBSET Int, IsFiniteSet(S)
    PROVE  /\ Cardinality(S) \in Nat
           /\ InOrder(S) \in [1 .. Cardinality(S) -> S]
           /\ \A m, n \in 1 .. Cardinality(S) : m < n => InOrder(S)[m] < InOrder(S)[n]
           /\ \A x \in S : \E k \in 1 .. Cardinality(S) : InOrder(S)[k] = x
  <1> DEFINE n == Cardinality(S)
             s == InOrder(S)
  <1>1. n \in Nat
    BY FS_CardinalityType
  <1>2. s = [i \in 1 .. n |-> CHOOSE t \in S : Rank(S, t) = i - 1]
    BY DEF InOrder
  <1> HIDE DEF s
  <1>3. ASSUME NEW i \in 1 .. n PROVE s[i] \in S /\ Rank(S, s[i]) = i - 1
    <2>1. i - 1 \in 0 .. n - 1
      BY <1>1
    <2>2. \E t \in S : Rank(S, t) = i - 1
      BY <2>1, EveryRankIsTaken
    <2>3. s[i] = CHOOSE t \in S : Rank(S, t) = i - 1
      BY <1>2
    <2> QED
      BY <2>2, <2>3
  <1>4. ASSUME NEW x \in S PROVE \E k \in 1 .. n : s[k] = x
    <2>1. Rank(S, x) + 1 \in 1 .. n /\ Rank(S, x) \in Nat
      BY <1>1, RankRange
    <2>2. s[Rank(S, x) + 1] \in S /\ Rank(S, s[Rank(S, x) + 1]) = Rank(S, x)
      BY <1>3, <2>1
    <2>3. PICK y \in S : y = s[Rank(S, x) + 1] /\ Rank(S, y) = Rank(S, x)
      BY <2>2
    <2>4. y = x
      BY <2>3, SameRank
    <2> QED
      BY <2>1, <2>3, <2>4
  <1>5. ASSUME NEW i \in 1 .. n, NEW k \in 1 .. n, i < k PROVE s[i] < s[k]
    <2>1. PICK x \in S, y \in S : x = s[i] /\ y = s[k] /\ Rank(S, x) = i - 1 /\ Rank(S, y) = k - 1
      BY <1>3
    <2>2. Rank(S, x) < Rank(S, y)
      BY <1>1, <1>5, <2>1
    <2>3. ~(y < x) /\ y # x
      <3>1. ASSUME y < x PROVE Rank(S, y) < Rank(S, x)
        BY <3>1, RanksDiffer
      <3> QED
        BY <1>1, <2>1, <2>2, <3>1
    <2> QED
      BY <2>1, <2>3
  <1>6. s \in [1 .. n -> S]
    BY <1>2, <1>3
  <1> HIDE DEF n
  <1> QED
    BY <1>1, <1>4, <1>5, <1>6 DEF n, s

\* The entries of a list at some of its places are those, each at a place of its own.
LEMMA EntriesAre ==
    ASSUME NEW n \in Nat, NEW s, NEW P \in SUBSET (1 .. n)
    PROVE  /\ Cardinality(P) \in Nat
           /\ Entries(s, P) = [i \in 1 .. Cardinality(P) |-> s[InOrder(P)[i]]]
           /\ \A i \in 1 .. Cardinality(P) : InOrder(P)[i] \in P
           /\ \A p \in P : \E i \in 1 .. Cardinality(P) : InOrder(P)[i] = p
           /\ \A i, k \in 1 .. Cardinality(P) : i < k => InOrder(P)[i] < InOrder(P)[k]
  <1>1. IsFiniteSet(P) /\ P \in SUBSET Int
    <2>1. PICK I \in {1 .. n} : IsFiniteSet(I)
      BY FS_Interval
    <2>2. P \in SUBSET I
      BY <2>1
    <2>3. IsFiniteSet(P)
      BY <2>1, <2>2, FS_Subset
    <2> QED
      BY <2>3
  <1> QED
    BY <1>1, InOrderLists DEF Entries

\* A non-empty set of numbers up to n has a greatest one.
LEMMA GreatestMember ==
    ASSUME NEW n \in Nat, NEW S \in SUBSET (1 .. n), S # {}
    PROVE  Max(S) \in S /\ \A k \in S : k <= Max(S)
  <1> DEFINE U == {n - k : k \in S}
  <1>1. U \in SUBSET Nat /\ U # {}
    <2>1. \A k \in S : n - k \in Nat
      OBVIOUS
    <2> QED
      BY <2>1
  <1>2. PICK u \in U : \A v \in U : u <= v
    BY <1>1, LeastMember
  <1>3. PICK m \in S : u = n - m
    BY <1>2
  <1>4. \A k \in S : m >= k
    BY <1>2, <1>3
  <1> QED
    BY <1>4 DEF Max

-----------------------------------------------------------------------------
(* Lists and names *)

\* A list: a sequence of its own members.
IsList(s) == s \in Seq({s[i] : i \in DOMAIN s})

\* A list holds none of its members twice.
NoneTwice(s) == \A i, k \in DOMAIN s : s[i] = s[k] => i = k

\* What a name is made of: parts of a set that has the numerals.
HasNumerals(P) == \A k \in Nat : Numeral(k) \in P

\* A name that is not claimed is found.
LEMMA FreeNameIsFree ==
    ASSUME NEW claimed, IsFiniteSet(claimed), NEW P, HasNumerals(P), NEW base \in Seq(P)
    PROVE  FreeName(claimed, base) \in Seq(P) /\ FreeName(claimed, base) \notin claimed
  <1> DEFINE c == Cardinality(claimed)
             numbered(k) == Append(base, Numeral(k))
             free == {k \in 2 .. c + 2 : numbered(k) \notin claimed}
  <1>1. c \in Nat
    BY FS_CardinalityType
  <1>2. ASSUME NEW k \in Nat PROVE numbered(k) \in Seq(P)
    BY DEF HasNumerals
  <1>3. ASSUME NEW k \in Nat, NEW l \in Nat, numbered(k) = numbered(l) PROVE k = l
    <2>1. \A j \in Nat : Append(base, Numeral(j))[Len(base) + 1] = Numeral(j)
      BY DEF HasNumerals
    <2>2. Numeral(k) = Numeral(l)
      BY <1>3, <2>1
    <2> QED
      BY <2>2 DEF Numeral, Numbered
  <1> HIDE DEF numbered, c
  <1>4. ASSUME free = {} PROVE FALSE
    <2> DEFINE f == [k \in 2 .. c + 2 |-> numbered(k)]
    <2>1. IsFiniteSet(2 .. c + 2) /\ Cardinality(2 .. c + 2) = c + 1
      <3>1. PICK m \in Int : m = c + 2
        BY <1>1
      <3>2. IsFiniteSet(2 .. m) /\ Cardinality(2 .. m) = IF 2 > m THEN 0 ELSE m - 2 + 1
        BY FS_Interval
      <3> QED
        BY <1>1, <3>1, <3>2
    <2>2. f \in [2 .. c + 2 -> claimed]
      BY <1>4
    <2>3. \A k \in 2 .. c + 2 : f[k] = numbered(k) /\ k \in Nat
      BY <1>1
    <2> HIDE DEF f
    <2>4. Cardinality(claimed) < Cardinality(2 .. c + 2)
      BY <1>1, <2>1 DEF c
    <2>5. \E k, l \in 2 .. c + 2 : k # l /\ f[k] = f[l]
      <3>1. PICK D : D = 2 .. c + 2
        OBVIOUS
      <3>2. \E k, l \in D : k # l /\ f[k] = f[l]
        BY <2>1, <2>2, <2>4, <3>1, FS_PigeonHole
      <3> QED
        BY <3>1, <3>2
    <2> QED
      BY <1>3, <2>3, <2>5
  <1>5. Min(free) \in free /\ Min(free) \in Nat
    <2>1. free \in SUBSET Nat
      BY <1>1
    <2> HIDE DEF free
    <2>2. \E m \in free : \A k \in free : m <= k
      BY <1>4, <2>1, LeastMember
    <2> QED
      BY <2>1, <2>2 DEF Min
  <1>6. FreeName(claimed, base) = IF base \notin claimed THEN base ELSE numbered(Min(free))
    BY DEF FreeName, c, numbered
  <1>7. numbered(Min(free)) \notin claimed
    <2>1. PICK k : k = Min(free)
      OBVIOUS
    <2>2. k \in free
      BY <1>5, <2>1
    <2> QED
      BY <2>1, <2>2
  <1> HIDE DEF free
  <1> QED
    BY <1>2, <1>5, <1>6, <1>7

\* A member more, and not one of those there, leaves a list without repetition.
LEMMA AppendNew ==
    ASSUME NEW V, NEW s \in Seq(V), NEW v \in V, v \notin Range(s), NoneTwice(s)
    PROVE  NoneTwice(Append(s, v))
  <1> DEFINE t == Append(s, v)
  <1>1. /\ Len(s) \in Nat
        /\ DOMAIN s = 1 .. Len(s) /\ DOMAIN t = 1 .. Len(s) + 1
        /\ t[Len(s) + 1] = v /\ \A i \in DOMAIN s : t[i] = s[i]
    OBVIOUS
  <1> HIDE DEF t
  <1>2. \A i \in DOMAIN t : i = Len(s) + 1 \/ i \in DOMAIN s
    BY <1>1
  <1>3. \A i \in DOMAIN s : s[i] # v
    BY DEF Range
  <1>4. NoneTwice(t)
    BY <1>1, <1>2, <1>3 DEF NoneTwice
  <1> QED
    BY <1>4 DEF t

\* A list's members are finitely many.
LEMMA FinitelyMany ==
    ASSUME NEW V, NEW s \in Seq(V)
    PROVE  IsFiniteSet(Range(s))
  <1>1. Len(s) \in Nat /\ DOMAIN s = 1 .. Len(s)
    OBVIOUS
  <1>2. IsFiniteSet(DOMAIN s)
    BY <1>1, FS_Interval
  <1>3. s \in Surjection(DOMAIN s, Range(s))
    BY DEF Surjection, Range
  <1> QED
    BY <1>2, <1>3, FS_Surjection

\* Names that differ: one for each base, all of them made of the same parts.
LEMMA DifferentNames ==
    ASSUME NEW P, HasNumerals(P), NEW bases \in Seq(Seq(P))
    PROVE  LET names == AllDifferent(bases)
           IN  /\ IsList(names) /\ Len(names) = Len(bases) /\ DOMAIN names = DOMAIN bases
               /\ NoneTwice(names)
               /\ \A i \in DOMAIN names : IsList(names[i])
  <1> DEFINE n == Len(bases)
             V == Seq(Seq(P))
             after(s, i) == Append(s, FreeName(Range(s), bases[i]))
             Fits(g) == g = [i \in 0 .. Len(bases) |->
                                IF i = 0 THEN << >>
                                ELSE LET earlier == g[i - 1]
                                     IN  Append(earlier, FreeName(Range(earlier), bases[i]))]
             w == CHOOSE g : Fits(g)
  <1>1. n \in Nat /\ DOMAIN bases = 1 .. n
    OBVIOUS
  <1>2. AllDifferent(bases) = w[n]
    <2> HIDE DEF V
    <2> QED
      BY DEF AllDifferent
  <1>4. ASSUME NEW i \in 1 .. n PROVE bases[i] \in Seq(P)
    BY <1>1
  <1>5. ASSUME NEW s \in V, NEW i \in 1 .. n
        PROVE  /\ after(s, i) \in V /\ Len(after(s, i)) = Len(s) + 1
               /\ NoneTwice(s) => NoneTwice(after(s, i))
    <2> DEFINE v == FreeName(Range(s), bases[i])
    <2>1. IsFiniteSet(Range(s))
      BY FinitelyMany
    <2>2. PICK b \in Seq(P) : b = bases[i]
      BY <1>4
    <2>3. v \in Seq(P) /\ v \notin Range(s)
      BY <2>1, <2>2, FreeNameIsFree
    <2> HIDE DEF v
    <2>4. Append(s, v) \in V /\ Len(Append(s, v)) = Len(s) + 1
      BY <2>3
    <2>5. NoneTwice(s) => NoneTwice(Append(s, v))
      BY <2>3, AppendNew
    <2> QED
      BY <2>4, <2>5 DEF v
  <1> HIDE DEF after, n
  <1>6. Fits(w)
    <2> DEFINE G == [i \in 1 .. n |-> [s \in V |-> after(s, i)]]
    <2>1. Steps(n, V, G)
      <3>1. \A i \in 1 .. n : [s \in V |-> after(s, i)] \in [V -> V]
        BY <1>5
      <3> QED
        BY <3>1 DEF Steps
    <2>2. << >> \in V /\ n \in Nat
      BY <1>1
    <2>3. \A i \in 1 .. n : \A s \in V : G[i][s] = after(s, i)
      OBVIOUS
    <2> HIDE DEF G, V
    <2>4. PICK f \in [0 .. n -> V] : Iterates(n, << >>, G, f)
      BY <2>1, <2>2, Iteration
    <2>5. ASSUME NEW i \in 1 .. n PROVE f[i] = after(f[i - 1], i)
      <3>1. i - 1 \in 0 .. n
        BY <1>1
      <3> QED
        BY <2>3, <2>4, <3>1 DEF Iterates
    <2>6. f = [i \in 0 .. n |-> IF i = 0 THEN << >> ELSE after(f[i - 1], i)]
      <3>1. f = [i \in 0 .. n |-> f[i]]
        OBVIOUS
      <3>2. \A i \in 0 .. n : f[i] = IF i = 0 THEN << >> ELSE after(f[i - 1], i)
        BY <1>1, <2>4, <2>5 DEF Iterates
      <3> QED
        BY <3>1, <3>2
    <2>7. Fits(f)
      BY <2>6 DEF n, after
    <2> HIDE DEF Fits
    <2> QED
      BY <2>7
  <1>7. w[0] = << >> /\ \A i \in 1 .. n : w[i] = after(w[i - 1], i)
    <2>1. w = [i \in 0 .. n |-> IF i = 0 THEN << >> ELSE after(w[i - 1], i)]
      BY <1>6 DEF n, after
    <2> HIDE DEF w
    <2> QED
      BY <1>1, <2>1
  <1> HIDE DEF w
  <1> DEFINE Lists(i) == w[i] \in V /\ Len(w[i]) = i /\ NoneTwice(w[i])
             S == {i \in 0 .. n : Lists(i)}
  <1>8. ASSUME NEW i \in 0 .. n, \A j \in 0 .. i - 1 : j \in S PROVE i \in S
    <2>1. CASE i = 0
      <3>1. << >> \in V /\ Len(<< >>) = 0 /\ NoneTwice(<< >>)
        BY DEF NoneTwice
      <3> HIDE DEF V
      <3> QED
        BY <1>7, <2>1, <3>1
    <2>2. CASE i # 0
      <3>1. i \in 1 .. n /\ i - 1 \in 0 .. i - 1
        BY <1>1, <2>2
      <3>2. Lists(i - 1)
        BY <1>8, <3>1
      <3>3. w[i] = after(w[i - 1], i)
        BY <1>7, <3>1
      <3> HIDE DEF V
      <3>4. Lists(i)
        BY <1>5, <3>1, <3>2, <3>3
      <3> QED
        BY <3>4
    <2> QED
      BY <2>1, <2>2
  <1> HIDE DEF S
  <1>9. \A i \in 0 .. n : i \in S
    BY <1>1, <1>8, StrongInduction
  <1>10. Lists(n)
    <2> HIDE DEF Lists
    <2> QED
      BY <1>1, <1>9 DEF S
  <1>11. w[n] \in Seq(Seq(P)) /\ Len(w[n]) = n /\ NoneTwice(w[n])
    BY <1>10
  <1>12. IsList(w[n]) /\ DOMAIN w[n] = 1 .. n /\ \A i \in 1 .. n : w[n][i] \in Seq(P)
    <2>1. PICK s \in Seq(Seq(P)) : s = w[n]
      BY <1>11
    <2>2. IsList(s) /\ DOMAIN s = 1 .. Len(s) /\ \A i \in 1 .. Len(s) : s[i] \in Seq(P)
      BY DEF IsList
    <2> QED
      BY <1>11, <2>1, <2>2
  <1>13. \A i \in 1 .. n : IsList(w[n][i])
    <2>1. ASSUME NEW x \in Seq(P) PROVE IsList(x)
      BY DEF IsList
    <2> QED
      BY <1>12, <2>1
  <1> QED
    BY <1>1, <1>2, <1>11, <1>12, <1>13 DEF n
=============================================================================
