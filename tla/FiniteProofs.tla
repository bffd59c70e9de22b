---------------------------- MODULE FiniteProofs ----------------------------
(***************************************************************************)
(* What several proofs need of finite sets.                                *)
(*                                                                         *)
(* Sums, and other folds.  A fold is the value of a function that is       *)
(* defined by itself, and says nothing as long as it is not known that     *)
(* there is such a function.  Here it is always given: the cardinality of  *)
(* a set, for sums.  Induction over a finite set is stated with the set of *)
(* its good subsets, not with a predicate.                                 *)
(*                                                                         *)
(* Slugs: generateUniqueSlug ends with a new one, whatever slugs there     *)
(* are.                                                                    *)
(***************************************************************************)
EXTENDS UniqueSlug, FiniteSetTheorems, FiniteSetsExt, TLAPS

\* If the empty set is good, and each subset from which an element can be
\* removed so that it is good then, the whole set is.
LEMMA SetInduction ==
  ASSUME NEW S, IsFiniteSet(S), NEW Good, {} \in Good,
         \A s \in SUBSET S : s # {} =>
           \E x \in s : s \ {x} \in Good => s \in Good
  PROVE  S \in Good
<1> DEFINE Bad == (SUBSET S) \ Good
           Sizes == {n \in Nat : \E s \in Bad : Cardinality(s) = n}
<1>1. \A s \in SUBSET S : IsFiniteSet(s) /\ Cardinality(s) \in Nat
  BY FS_Subset, FS_CardinalityType
<1>2. SUFFICES ASSUME S \notin Good
               PROVE  FALSE
  OBVIOUS
<1>3. Cardinality(S) \in Sizes
  BY <1>1, <1>2
<1>4. PICK n \in Sizes : \A m \in Sizes : n <= m
  <2> HIDE DEF Sizes
  <2>1. Sizes \subseteq Nat
    BY DEF Sizes
  <2>2. PICK n \in Sizes : \A m \in Sizes : <<m, n>> \notin OpToRel(<, Nat)
    BY <1>3, <2>1, NatLessThanWellFounded, WFMin
  <2>3. \A m \in Sizes : ~(m < n)
    BY <2>1, <2>2 DEF OpToRel
  <2> QED
    BY <2>1, <2>3
<1>5. PICK s \in Bad : Cardinality(s) = n
  OBVIOUS
<1>6. PICK x \in s : s \ {x} \in Good => s \in Good
  <2>1. s \in SUBSET S /\ s # {}
    BY <1>5
  <2> QED
    BY <2>1
<1>7. s \ {x} \in Bad
  BY <1>5, <1>6
<1>8. Cardinality(s \ {x}) = n - 1
  BY <1>1, <1>5, FS_RemoveElement
<1>9. n - 1 \in Sizes
  BY <1>1, <1>7, <1>8
<1> QED
  BY <1>4, <1>9

\* Two functions that make the same of each set, if they made the same of what
\* is left of it, make the same of the whole set.
LEMMA SameFold ==
  ASSUME NEW S, IsFiniteSet(S), NEW f, NEW g, f[{}] = g[{}],
         \A s \in SUBSET S : s # {} =>
           \E x \in s : f[s \ {x}] = g[s \ {x}] => f[s] = g[s]
  PROVE  f[S] = g[S]
<1> DEFINE Good == {s \in SUBSET S : f[s] = g[s]}
<1>1. {} \in Good
  OBVIOUS
<1>2. \A s \in SUBSET S : s # {} => \E x \in s : s \ {x} \in Good => s \in Good
  OBVIOUS
<1>3. S \in Good
  <2> HIDE DEF Good
  <2> QED
    BY <1>1, <1>2, SetInduction
<1> QED
  BY <1>3

-----------------------------------------------------------------------------
(* Sums. *)

\* As many units for each element of S as f says.
Units(f, S) == {u \in S \X Nat : u[2] \in 1..f[u[1]]}

LEMMA UnitsOfOne ==
  ASSUME NEW f, NEW x, f[x] \in Nat
  PROVE  IsFiniteSet(Units(f, {x})) /\ Cardinality(Units(f, {x})) = f[x]
<1> DEFINE n == f[x]
           g == [k \in 1..n |-> <<x, k>>]
<1>1. IsFiniteSet(1..n) /\ Cardinality(1..n) = n
  <2>1. n \in Nat
    OBVIOUS
  <2> HIDE DEF n
  <2> QED
    BY <2>1, FS_Interval
<1>2. g \in Bijection(1..n, Units(f, {x}))
  <2>1. g \in [1..n -> Units(f, {x})]
    BY DEF Units
  <2>2. \A u \in Units(f, {x}) : \E k \in 1..n : g[k] = u
    BY DEF Units
  <2>3. \A j, k \in 1..n : g[j] = g[k] => j = k
    OBVIOUS
  <2> HIDE DEF g
  <2> QED
    BY <2>1, <2>2, <2>3 DEF Bijection, Injection, Surjection, IsInjective
<1>3. ExistsBijection(1..n, Units(f, {x}))
  <2> HIDE DEF g, n
  <2> QED
    BY <1>2 DEF ExistsBijection
<1> QED
  BY <1>1, <1>3, FS_Bijection

\* One element more adds its units.
LEMMA UnitsAdd ==
  ASSUME NEW f, NEW S, NEW x \in S, f[x] \in Nat, IsFiniteSet(Units(f, S \ {x}))
  PROVE  /\ IsFiniteSet(Units(f, S))
         /\ Cardinality(Units(f, S)) = f[x] + Cardinality(Units(f, S \ {x}))
<1> DEFINE A == Units(f, {x})
           B == Units(f, S \ {x})
<1>1. IsFiniteSet(A) /\ Cardinality(A) = f[x]
  BY UnitsOfOne
<1>2. Units(f, S) = A \cup B /\ A \cap B = {}
  BY DEF Units
<1>3. IsFiniteSet(B) /\ Cardinality(B) \in Nat
  BY FS_CardinalityType
<1> HIDE DEF A, B
<1>4. IsFiniteSet(A \cup B)
      /\ Cardinality(A \cup B) = Cardinality(A) + Cardinality(B) - Cardinality(A \cap B)
  BY <1>1, <1>3, FS_Union
<1>5. Cardinality(A \cap B) = 0
  BY <1>2, FS_EmptySet
<1> QED
  BY <1>1, <1>2, <1>3, <1>4, <1>5 DEF B

LEMMA UnitsFinite ==
  ASSUME NEW f, NEW S, IsFiniteSet(S), \A x \in S : f[x] \in Nat
  PROVE  IsFiniteSet(Units(f, S))
<1> DEFINE Good == {s \in SUBSET S : IsFiniteSet(Units(f, s))}
<1>1. {} \in Good
  <2>1. Units(f, {}) = {}
    BY DEF Units
  <2> QED
    BY <2>1, FS_EmptySet
<1>2. ASSUME NEW s \in SUBSET S, s # {}
      PROVE  \E x \in s : s \ {x} \in Good => s \in Good
  <2>1. PICK x \in s : TRUE
    BY <1>2
  <2>2. s \ {x} \in Good => s \in Good
    BY UnitsAdd
  <2> QED
    BY <2>2
<1>3. S \in Good
  <2> HIDE DEF Good
  <2> QED
    BY <1>1, <1>2, SetInduction
<1> QED
  BY <1>3

Pick(s) == CHOOSE x \in s : TRUE

\* What a sum is defined by: sum is the sum of f over each subset of S.
Sums(sum, f, S) ==
  sum = [s \in SUBSET S |-> IF s = {} THEN 0 ELSE f[Pick(s)] + sum[s \ {Pick(s)}]]

LEMMA UnitsSum ==
  ASSUME NEW f, NEW S, IsFiniteSet(S), \A x \in S : f[x] \in Nat
  PROVE  Sums([s \in SUBSET S |-> Cardinality(Units(f, s))], f, S)
<1> DEFINE sum == [s \in SUBSET S |-> Cardinality(Units(f, s))]
<1>1. ASSUME NEW s \in SUBSET S
      PROVE  sum[s] = IF s = {} THEN 0 ELSE f[Pick(s)] + sum[s \ {Pick(s)}]
  <2>1. CASE s = {}
    <3>1. Units(f, {}) = {}
      BY DEF Units
    <3> QED
      BY <2>1, <3>1, FS_EmptySet
  <2>2. CASE s # {}
    <3>1. Pick(s) \in s
      BY <2>2 DEF Pick
    <3>2. IsFiniteSet(s \ {Pick(s)})
      BY FS_Subset
    <3>3. IsFiniteSet(Units(f, s \ {Pick(s)}))
      BY <3>2, UnitsFinite
    <3>4. f[Pick(s)] \in Nat
      BY <3>1
    <3>5. Cardinality(Units(f, s)) = f[Pick(s)] + Cardinality(Units(f, s \ {Pick(s)}))
      BY <3>1, <3>3, <3>4, UnitsAdd
    <3>6. s \ {Pick(s)} \in SUBSET S
      OBVIOUS
    <3> QED
      BY <2>2, <3>5, <3>6
  <2> QED
    BY <2>1, <2>2
<1> HIDE DEF sum
<1>2. sum = [s \in SUBSET S |-> sum[s]]
  BY DEF sum
<1> QED
  BY <1>1, <1>2 DEF Sums, sum

\* A sum is the number of units.
LEMMA SumIsCount ==
  ASSUME NEW f, NEW S, IsFiniteSet(S), \A x \in S : f[x] \in Nat, NEW sum, Sums(sum, f, S)
  PROVE  sum[S] = Cardinality(Units(f, S))
<1> DEFINE count == [s \in SUBSET S |-> Cardinality(Units(f, s))]
<1>1. Sums(count, f, S)
  BY UnitsSum
<1>2. count[S] = Cardinality(Units(f, S))
  OBVIOUS
<1> HIDE DEF count
<1>3. sum[{}] = count[{}]
  BY <1>1 DEF Sums
<1>4. ASSUME NEW s \in SUBSET S, s # {}
      PROVE  \E x \in s : sum[s \ {x}] = count[s \ {x}] => sum[s] = count[s]
  <2>1. Pick(s) \in s
    BY <1>4 DEF Pick
  <2>2. /\ sum[s] = f[Pick(s)] + sum[s \ {Pick(s)}]
        /\ count[s] = f[Pick(s)] + count[s \ {Pick(s)}]
    BY <1>1, <1>4 DEF Sums
  <2> QED
    BY <2>1, <2>2
<1> QED
  BY <1>2, <1>3, <1>4, SameFold

\* MapThenSumSet is such a sum.
LEMMA MapSums ==
  ASSUME NEW f, NEW S, IsFiniteSet(S), \A x \in S : f[x] \in Nat
  PROVE  MapThenSumSet(LAMBDA x : f[x], S) = Cardinality(Units(f, S))
<1> DEFINE sum == CHOOSE g : Sums(g, f, S)
<1>1. MapThenSumSet(LAMBDA x : f[x], S) = sum[S]
  BY DEF MapThenSumSet, MapThenFoldSet, Sums, Pick
<1>2. \E g : Sums(g, f, S)
  BY UnitsSum
<1>3. Sums(sum, f, S)
  BY <1>2
<1> HIDE DEF sum
<1> QED
  BY <1>1, <1>3, SumIsCount

\* The sum of f over S.
Total(f, S) == MapThenSumSet(LAMBDA x : f[x], S)

\* The part of S that belongs to i.
PartOf(S, part, i) == {x \in S : part[x] = i}

\* A set has as many elements as its parts together.
LEMMA PartsSum ==
  ASSUME NEW S, IsFiniteSet(S), NEW I, IsFiniteSet(I), NEW part,
         \A x \in S : part[x] \in I,
         NEW n, \A i \in I : n[i] = Cardinality(PartOf(S, part, i))
  PROVE  Total(n, I) = Cardinality(S)
<1> DEFINE Of(J) == {x \in S : part[x] \in J}
           Good == {J \in SUBSET I : /\ IsFiniteSet(Units(n, J))
                                     /\ Cardinality(Units(n, J)) = Cardinality(Of(J))}
<1>1. \A J : IsFiniteSet(Of(J)) /\ Cardinality(Of(J)) \in Nat
  BY FS_Subset, FS_CardinalityType
<1>2. \A i \in I : n[i] = Cardinality(Of({i})) /\ n[i] \in Nat
  <2> SUFFICES ASSUME NEW i \in I
               PROVE  n[i] = Cardinality(Of({i})) /\ n[i] \in Nat
    OBVIOUS
  <2>1. PartOf(S, part, i) = Of({i})
    BY DEF PartOf
  <2> HIDE DEF Of
  <2> QED
    BY <1>1, <2>1
<1>3. {} \in Good
  <2>1. Units(n, {}) = {} /\ Of({}) = {}
    BY DEF Units
  <2> QED
    BY <2>1, FS_EmptySet
<1>4. ASSUME NEW J \in SUBSET I, J # {}
      PROVE  \E i \in J : J \ {i} \in Good => J \in Good
  <2>1. PICK i \in J : TRUE
    BY <1>4
  <2>2. SUFFICES ASSUME J \ {i} \in Good
                 PROVE  J \in Good
    OBVIOUS
  <2>3. /\ IsFiniteSet(Units(n, J))
        /\ Cardinality(Units(n, J)) = n[i] + Cardinality(Units(n, J \ {i}))
    <3>1. n[i] \in Nat /\ IsFiniteSet(Units(n, J \ {i}))
      BY <1>2, <2>2
    <3> HIDE DEF Good, Of
    <3> QED
      BY <3>1, UnitsAdd
  <2>4. Cardinality(Of(J)) = Cardinality(Of({i})) + Cardinality(Of(J \ {i}))
    <3> DEFINE A == Of({i})
               B == Of(J \ {i})
    <3>1. Of(J) = A \cup B /\ A \cap B = {}
      OBVIOUS
    <3>2. /\ IsFiniteSet(A) /\ Cardinality(A) \in Nat
          /\ IsFiniteSet(B) /\ Cardinality(B) \in Nat
      BY <1>1
    <3> HIDE DEF A, B, Of
    <3>3. Cardinality(A \cup B) = Cardinality(A) + Cardinality(B) - Cardinality(A \cap B)
      BY <3>2, FS_Union
    <3>4. Cardinality(A \cap B) = 0
      BY <3>1, FS_EmptySet
    <3>5. Cardinality(A \cup B) = Cardinality(A) + Cardinality(B)
      BY <3>2, <3>3, <3>4
    <3> QED
      BY <3>1, <3>5 DEF A, B
  <2> QED
    BY <1>2, <2>2, <2>3, <2>4
<1>5. I \in Good
  <2> HIDE DEF Good
  <2> QED
    BY <1>3, <1>4, SetInduction
<1>6. Of(I) = S
  OBVIOUS
<1>7. Total(n, I) = Cardinality(Units(n, I))
  <2> HIDE DEF Of, Good
  <2> QED
    BY <1>2, MapSums DEF Total
<1> QED
  BY <1>5, <1>6, <1>7
-----------------------------------------------------------------------------
(* Slugs. *)

\* Of n + 1 slugs of a title, n slugs leave one out.
LEMMA OneIsFree ==
  ASSUME NEW title, NEW slugs, IsFiniteSet(slugs)
  PROVE  \E n \in 1..Cardinality(slugs) + 1 : <<title, n>> \notin slugs
<1> DEFINE N == Cardinality(slugs)
           f == [n \in 1..N + 1 |-> <<title, n>>]
<1>1. N \in Nat
  BY FS_CardinalityType
<1>2. IsFiniteSet(1..N + 1) /\ Cardinality(slugs) < Cardinality(1..N + 1)
  BY <1>1, FS_Interval
<1>3. ASSUME \A n \in 1..N + 1 : <<title, n>> \in slugs
      PROVE  FALSE
  <2>1. f \in [1..N + 1 -> slugs]
    BY <1>3
  <2> HIDE DEF f
  <2>2. \E x, y \in 1..N + 1 : x # y /\ f[x] = f[y]
    BY ONLY <1>2, <2>1, IsFiniteSet(slugs), FS_PigeonHole
  <2> QED
    BY <2>2 DEF f
<1> QED
  BY <1>3

\* A finite set of naturals that has 0, and with a number all smaller ones, is
\* an interval: its cardinality is the first number it lacks.
LEMMA InitialSegment ==
  ASSUME NEW A \in SUBSET Nat, IsFiniteSet(A), 0 \in A,
         \A a \in A : 0..a \subseteq A
  PROVE  Cardinality(A) \in Nat \ {0} /\ A = 0..Cardinality(A) - 1
<1> DEFINE c == Cardinality(A)
<1>1. c \in Nat
  BY FS_CardinalityType
<1>2. \A a \in A : a <= c - 1
  <2> SUFFICES ASSUME NEW a \in A
               PROVE  a <= c - 1
    OBVIOUS
  <2>1. Cardinality(0..a) = a + 1
    BY FS_Interval
  <2>2. 0..a \in SUBSET A
    OBVIOUS
  <2>3. Cardinality(0..a) <= c
    BY ONLY <2>2, IsFiniteSet(A), FS_Subset
  <2> QED
    BY <1>1, <2>1, <2>3
<1>3. A \in SUBSET (0..c - 1)
  BY <1>1, <1>2
<1>4. c # 0
  BY <1>1, <1>2
<1>5. IsFiniteSet(0..c - 1) /\ Cardinality(0..c - 1) = c
  <2>1. 0 \in Int /\ c - 1 \in Int /\ 0 <= c - 1 /\ (c - 1) - 0 + 1 = c
    BY <1>1, <1>4
  <2> HIDE DEF c
  <2> QED
    BY <2>1, FS_Interval
<1>6. A = 0..c - 1
  BY ONLY <1>3, <1>5, FS_Subset
<1> QED
  BY <1>1, <1>4, <1>6

\* The loop of generateUniqueSlug ends, whatever slugs there are, with the
\* first slug of the title that is not among them.
THEOREM UniqueSlugIsNew ==
  ASSUME NEW title, NEW slugs, IsFiniteSet(slugs)
  PROVE  LET n == UniqueNumber(title, slugs) IN
         /\ n \in 1..Cardinality(slugs) + 1
         /\ <<title, n>> \notin slugs
         /\ \A m \in 1..n - 1 : <<title, m>> \in slugs
<1> DEFINE N == Cardinality(slugs)
           A == {m \in 0..N + 1 : \A j \in 1..m : <<title, j>> \in slugs}
           c == Cardinality(A)
<1>1. N \in Nat
  BY FS_CardinalityType
<1>2. IsFiniteSet(0..N + 1)
  BY <1>1, FS_Interval
<1>3. IsFiniteSet(A)
  BY <1>2, FS_Subset
<1>4. c \in Nat \ {0} /\ A = 0..c - 1
  <2>1. A \in SUBSET Nat /\ 0 \in A /\ \A a \in A : 0..a \subseteq A
    BY <1>1
  <2> HIDE DEF A
  <2> QED
    BY <1>3, <2>1, InitialSegment
<1>5. PICK k \in 1..N + 1 : <<title, k>> \notin slugs
  BY OneIsFree
<1>6. \A m \in 0..N + 1 : m < c <=> \A j \in 1..m : <<title, j>> \in slugs
  <2>1. \A m \in 0..N + 1 : m \in A <=> \A j \in 1..m : <<title, j>> \in slugs
    OBVIOUS
  <2> HIDE DEF A, c
  <2> QED
    BY <1>1, <1>4, <2>1
<1>7. c \in Nat \ {0}
  BY <1>4
<1> HIDE DEF A, c
<1>8. c <= k
  BY <1>1, <1>5, <1>6, <1>7
<1>9. \A j \in 1..c - 1 : <<title, j>> \in slugs
  BY <1>1, <1>6, <1>7, <1>8
<1>10. <<title, c>> \notin slugs
  <2> SUFFICES ASSUME <<title, c>> \in slugs
               PROVE  FALSE
    OBVIOUS
  <2>1. c \in 0..N + 1 /\ \A j \in 1..c : <<title, j>> \in slugs
    BY <1>1, <1>7, <1>8, <1>9
  <2> QED
    BY <1>6, <1>7, <2>1
<1>11. c \in 1..N + 1
  BY <1>1, <1>7, <1>8
<1> QED
  BY <1>9, <1>10, <1>11 DEF UniqueNumber
=============================================================================
