---------------------------- MODULE NatInduction ----------------------------
(***************************************************************************)
(* Induction over an initial segment of the naturals, stated with a set    *)
(* instead of a predicate, and what it says of sequences and of sums over  *)
(* finite sets: the facts that the proofs about linked lists, counters and *)
(* searches rest on.                                                       *)
(***************************************************************************)
EXTENDS Integers, Sequences, Functions, WellFoundedInduction, FiniteSetTheorems, TLAPS

(* A non-empty set of naturals has a least element.                        *)
LEMMA NatMin ==
  ASSUME NEW S, S \subseteq Nat, S # {}
  PROVE  \E x \in S : \A y \in S : x <= y
  <1> DEFINE Below == {p \in Nat \X Nat : p[1] < p[2]}
  <1>1. OpToRel(<, Nat) = Below
    BY Zenon DEF OpToRel
  <1>2. IsWellFoundedOn(OpToRel(<, Nat), Nat)
    BY NatLessThanWellFounded, Zenon
  <1>3. IsWellFoundedOn(Below, Nat)
    BY <1>1, <1>2, Zenon
  <1> HIDE <1>1, <1>2 DEF Below
  <1>4. PICK x \in S : \A y \in S : ~ (<<y, x>> \in Below)
    BY <1>3, WFMin, Zenon
  <1>5. \A i, j \in Nat : i < j => <<i, j>> \in Below
    BY DEF Below
  <1>6. \A y \in S : ~ (y < x)
    BY <1>4, <1>5
  <1>7. \A y \in S : x <= y
    BY <1>6
  <1>8. QED
    BY <1>7

(* What holds of 0 and of the successor of what it holds of, up to K.      *)
LEMMA UpTo ==
  ASSUME NEW K \in Nat, NEW S, 0 \in S, \A k \in 1 .. K : k - 1 \in S => k \in S
  PROVE  \A k \in 0 .. K : k \in S
  <1> DEFINE Bad == (0 .. K) \ S
  <1> SUFFICES ASSUME Bad # {} PROVE FALSE
    OBVIOUS
  <1>1. Bad \subseteq Nat
    OBVIOUS
  <1>2. PICK k \in Bad : \A j \in Bad : k <= j
    BY <1>1, NatMin
  <1>3. k \in 1 .. K /\ k - 1 \in 0 .. K
    OBVIOUS
  <1>4. k - 1 \notin Bad
    BY <1>2, <1>3
  <1>5. QED
    BY <1>3, <1>4

(* Two functions that begin alike and go on alike are alike.               *)
LEMMA SameWalk ==
  ASSUME NEW K \in Nat, NEW f, NEW g, f[0] = g[0],
         \A k \in 1 .. K : f[k - 1] = g[k - 1] => f[k] = g[k]
  PROVE  \A k \in 0 .. K : f[k] = g[k]
  <1> DEFINE S == {k \in 0 .. K : f[k] = g[k]}
  <1>1. 0 \in S
    OBVIOUS
  <1>2. \A k \in 1 .. K : k - 1 \in S => k \in S
    OBVIOUS
  <1>3. \A k \in 0 .. K : k \in S
    <2> HIDE DEF S
    <2>1. QED
      BY <1>1, <1>2, UpTo
  <1>4. QED
    BY <1>3

LEMMA SeqElements ==
  ASSUME NEW S, NEW s \in Seq(S)
  PROVE  \A i \in DOMAIN s : s[i] \in S
  OBVIOUS

(* Induction downwards.                                                    *)
LEMMA DownTo ==
  ASSUME NEW K \in Nat, NEW S, K \in S, \A k \in 1 .. K : k \in S => k - 1 \in S
  PROVE  \A k \in 0 .. K : k \in S
  <1> DEFINE T == {k \in 0 .. K : K - k \in S}
  <1>1. 0 \in T
    OBVIOUS
  <1>2. ASSUME NEW k \in 1 .. K, k - 1 \in T PROVE k \in T
    <2>1. PICK m \in 1 .. K : m = K - (k - 1)
      OBVIOUS
    <2>2. m \in S /\ m - 1 = K - k
      BY <1>2, <2>1
    <2>3. QED
      BY <2>2
  <1>3. \A k \in 0 .. K : k \in T
    <2> HIDE DEF T
    <2>1. QED
      BY <1>1, <1>2, UpTo
  <1>4. ASSUME NEW k \in 0 .. K PROVE k \in S
    <2>1. K - k \in T /\ K - (K - k) = k
      BY <1>3
    <2>2. QED
      BY <2>1
  <1>5. QED
    BY <1>4

(* What a recursion over the first numbers defines exists, whether its     *)
(* steps depend on the number or not.                                      *)
IteratedBy(N, D, a, G) ==
  \E f \in [0 .. N -> D] : f[0] = a /\ \A k \in 1 .. N : f[k] = G[k][f[k - 1]]

Iterated(N, D, a, G) ==
  \E f \in [0 .. N -> D] : f[0] = a /\ \A k \in 1 .. N : f[k] = G[f[k - 1]]

LEMMA IteratesBy ==
  ASSUME NEW N \in Nat, NEW D, NEW a \in D, NEW G \in [1 .. N -> [D -> D]]
  PROVE  IteratedBy(N, D, a, G)
  <1> DEFINE Upto == {k \in 0 .. N : IteratedBy(k, D, a, G)}
  <1>1. IteratedBy(0, D, a, G)
    <2>1. PICK f : f = [i \in 0 .. 0 |-> a]
      OBVIOUS
    <2>2. f \in [0 .. 0 -> D] /\ f[0] = a /\ \A i \in 1 .. 0 : f[i] = G[i][f[i - 1]]
      BY <2>1
    <2>3. QED
      BY <2>2 DEF IteratedBy
  <1>2. ASSUME NEW k \in 1 .. N, IteratedBy(k - 1, D, a, G) PROVE IteratedBy(k, D, a, G)
    <2>1. PICK f \in [0 .. k - 1 -> D] :
            f[0] = a /\ \A i \in 1 .. k - 1 : f[i] = G[i][f[i - 1]]
      BY <1>2 DEF IteratedBy
    <2>2. PICK g : g = [i \in 0 .. k |-> IF i = k THEN G[k][f[k - 1]] ELSE f[i]]
      OBVIOUS
    <2>3. f[k - 1] \in D /\ G[k] \in [D -> D]
      BY <2>1
    <2>4. \A i \in 0 .. k : g[i] = IF i = k THEN G[k][f[k - 1]] ELSE f[i]
      BY <2>2
    <2>5. \A i \in 0 .. k : g[i] \in D
      BY <2>1, <2>3, <2>4
    <2>6. g \in [0 .. k -> D]
      BY <2>2, <2>5
    <2>7. \A i \in 1 .. k : g[i] = G[i][g[i - 1]]
      BY <2>1, <2>4
    <2>8. g[0] = a
      BY <2>1, <2>4
    <2>9. QED
      BY <2>6, <2>7, <2>8 DEF IteratedBy
  <1>3. 0 \in Upto
    BY <1>1
  <1>4. \A k \in 1 .. N : k - 1 \in Upto => k \in Upto
    BY <1>2
  <1>5. N \in Upto
    <2> HIDE DEF Upto
    <2>1. \A k \in 0 .. N : k \in Upto
      BY <1>3, <1>4, UpTo
    <2>2. QED
      BY <2>1
  <1>6. QED
    BY <1>5

LEMMA Iterates ==
  ASSUME NEW N \in Nat, NEW D, NEW a \in D, NEW G \in [D -> D]
  PROVE  Iterated(N, D, a, G)
  <1>1. PICK H : H = [k \in 1 .. N |-> G]
    OBVIOUS
  <1>2. H \in [1 .. N -> [D -> D]] /\ \A k \in 1 .. N : H[k] = G
    BY <1>1
  <1>3. IteratedBy(N, D, a, H)
    BY <1>2, IteratesBy
  <1>4. QED
    BY <1>2, <1>3 DEF IteratedBy, Iterated

(* A numbering without repetitions is no longer than the set it is from.   *)
LEMMA InjectiveLength ==
  ASSUME NEW S, IsFiniteSet(S), NEW n \in Nat, NEW s \in [1 .. n -> S],
         \A i, j \in 1 .. n : s[i] = s[j] => i = j
  PROVE  n <= Cardinality(S)
  <1>1. Cardinality(1 .. n) = n
    <2>1. Cardinality(1 .. n) = IF 1 > n THEN 0 ELSE n - 1 + 1
      BY FS_Interval
    <2>2. QED
      BY <2>1
  <1>2. s \in Injection(1 .. n, S)
    BY DEF Injection, IsInjective
  <1>3. QED
    BY <1>1, <1>2, FS_Injection

-----------------------------------------------------------------------------
(* Sums.  SumFunctionOnSet is defined by recursion over the subsets of the *)
(* set, which takes out whichever element CHOOSE picks: the recursion has  *)
(* a solution, only one, and the order in which it adds does not matter.   *)

SumBody(f, s, h) ==
  IF s = {} THEN 0 ELSE LET x == CHOOSE x \in s : TRUE IN f[x] + h[s \ {x}]

SumRecursion(f, S, h) == h = [s \in SUBSET S |-> SumBody(f, s, h)]

Total(f, S) == SumFunctionOnSet(f, S)

LEMMA SumIsChosen ==
  ASSUME NEW f, NEW S
  PROVE  Total(f, S) = (CHOOSE h : SumRecursion(f, S, h))[S]
  BY Zenon DEF Total, SumRecursion, SumBody, SumFunctionOnSet, FoldFunctionOnSet, MapThenFoldSet

LEMMA Smaller ==
  ASSUME NEW S, IsFiniteSet(S), NEW s \in SUBSET S, NEW x \in s
  PROVE  /\ IsFiniteSet(s) /\ Cardinality(s) \in Nat \ {0}
         /\ s \ {x} \in SUBSET S
         /\ Cardinality(s \ {x}) = Cardinality(s) - 1
  <1>1. IsFiniteSet(s)
    BY FS_Subset
  <1>2. Cardinality(s) \in Nat /\ Cardinality(s) # 0
    BY <1>1, FS_CardinalityType, FS_EmptySet
  <1>3. Cardinality(s \ {x}) = Cardinality(s) - 1
    BY <1>1, FS_RemoveElement
  <1>4. QED
    BY <1>1, <1>2, <1>3

(* What holds of the empty set, and of a set if it holds of the smaller    *)
(* ones, holds of every subset of a finite set.                            *)
LEMMA SubsetInduction ==
  ASSUME NEW S, IsFiniteSet(S), NEW Good, {} \in Good,
         \A s \in SUBSET S : s # {} /\ (\A x \in s : s \ {x} \in Good) => s \in Good
  PROVE  \A s \in SUBSET S : s \in Good
  <1> DEFINE N == Cardinality(S)
             Upto == {k \in 0 .. N : \A s \in SUBSET S : Cardinality(s) = k => s \in Good}
  <1>1. N \in Nat
    BY FS_CardinalityType
  <1>2. \A s \in SUBSET S : IsFiniteSet(s) /\ Cardinality(s) \in 0 .. N
    BY FS_Subset, FS_CardinalityType
  <1>3. 0 \in Upto
    BY <1>1, <1>2, FS_EmptySet
  <1>4. ASSUME NEW k \in 1 .. N, k - 1 \in Upto PROVE k \in Upto
    <2>1. ASSUME NEW s \in SUBSET S, Cardinality(s) = k PROVE s \in Good
      <3>1. s # {}
        BY <1>2, <2>1, <1>4, FS_EmptySet
      <3>2. \A x \in s : s \ {x} \in Good
        BY <1>4, <2>1, Smaller
      <3>3. QED
        BY <3>1, <3>2
    <2>2. QED
      BY <2>1
  <1>5. \A k \in 0 .. N : k \in Upto
    <2> HIDE DEF Upto
    <2>1. QED
      BY <1>1, <1>3, <1>4, UpTo
  <1>6. QED
    BY <1>2, <1>5

LEMMA SumExists ==
  ASSUME NEW S, IsFiniteSet(S), NEW f, \A x \in S : f[x] \in Int
  PROVE  \E h \in [SUBSET S -> Int] : SumRecursion(f, S, h)
  <1> DEFINE N == Cardinality(S)
             Right(k, h) == \A s \in SUBSET S : Cardinality(s) <= k => h[s] = SumBody(f, s, h)
             Upto == {k \in 0 .. N : \E h \in [SUBSET S -> Int] : Right(k, h)}
  <1>1. N \in Nat /\ \A s \in SUBSET S : IsFiniteSet(s) /\ Cardinality(s) \in 0 .. N
    BY FS_Subset, FS_CardinalityType
  <1>2. \A s \in SUBSET S : s # {} => (CHOOSE x \in s : TRUE) \in s
    OBVIOUS
  <1>3. 0 \in Upto
    <2>1. PICK h : h = [s \in SUBSET S |-> 0]
      OBVIOUS
    <2>2. h \in [SUBSET S -> Int] /\ Right(0, h)
      BY <1>1, <2>1, FS_EmptySet DEF SumBody
    <2>3. 0 \in 0 .. N
      BY <1>1
    <2>4. QED
      BY <2>2, <2>3, Zenon
  <1>4. ASSUME NEW k \in 1 .. N, k - 1 \in Upto PROVE k \in Upto
    <2>1. PICK g \in [SUBSET S -> Int] : Right(k - 1, g)
      BY <1>4
    <2> DEFINE h == [s \in SUBSET S |-> SumBody(f, s, g)]
    <2>2. ASSUME NEW s \in SUBSET S PROVE SumBody(f, s, g) \in Int
      <3>1. CASE s = {}
        BY <3>1 DEF SumBody
      <3>2. CASE s # {}
        <4>1. PICK x \in s : x = CHOOSE y \in s : TRUE
          BY <3>2, <1>2
        <4>2. f[x] \in Int /\ g[s \ {x}] \in Int
          OBVIOUS
        <4>3. QED
          BY <3>2, <4>1, <4>2 DEF SumBody
      <3>3. QED
        BY <3>1, <3>2
    <2>3. h \in [SUBSET S -> Int]
      BY <2>2
    <2>4. ASSUME NEW s \in SUBSET S, Cardinality(s) <= k PROVE h[s] = SumBody(f, s, h)
      <3>1. CASE s = {}
        BY <3>1 DEF SumBody
      <3>2. CASE s # {}
        <4>1. PICK x \in s : x = CHOOSE y \in s : TRUE
          BY <3>2, <1>2
        <4>2. s \ {x} \in SUBSET S /\ Cardinality(s \ {x}) <= k - 1
          BY <1>1, <1>4, <2>4, Smaller
        <4>3. g[s \ {x}] = h[s \ {x}]
          BY <2>1, <4>2
        <4>4. SumBody(f, s, h) = f[x] + h[s \ {x}] /\ SumBody(f, s, g) = f[x] + g[s \ {x}]
          BY <3>2, <4>1, Zenon DEF SumBody
        <4>5. QED
          BY <4>3, <4>4
      <3>3. QED
        BY <3>1, <3>2
    <2>5. Right(k, h)
      BY <2>4
    <2>6. k \in 0 .. N
      BY <1>1, <1>4
    <2>7. QED
      BY <2>3, <2>5, <2>6, Zenon
  <1>5. N \in Upto
    <2> HIDE DEF Upto
    <2>1. QED
      BY <1>1, <1>3, <1>4, UpTo
  <1>6. PICK h \in [SUBSET S -> Int] : Right(N, h)
    BY <1>5
  <1>7. \A s \in SUBSET S : h[s] = SumBody(f, s, h)
    BY <1>1, <1>6
  <1>8. h = [s \in SUBSET S |-> SumBody(f, s, h)]
    BY <1>7
  <1>9. QED
    BY <1>8 DEF SumRecursion

LEMMA SumUnique ==
  ASSUME NEW S, IsFiniteSet(S), NEW f, NEW g, NEW h, NEW T,
         S \in SUBSET T, SumRecursion(f, S, g), SumRecursion(f, T, h)
  PROVE  \A s \in SUBSET S : g[s] = h[s]
  <1> DEFINE Good == {s \in SUBSET S : g[s] = h[s]}
  <1>1. \A s \in SUBSET S : g[s] = SumBody(f, s, g) /\ h[s] = SumBody(f, s, h)
    BY DEF SumRecursion
  <1>2. {} \in Good
    BY <1>1 DEF SumBody
  <1>3. ASSUME NEW s \in SUBSET S, s # {}, \A x \in s : s \ {x} \in Good PROVE s \in Good
    <2>1. PICK x \in s : x = CHOOSE y \in s : TRUE
      BY <1>3
    <2>2. g[s \ {x}] = h[s \ {x}]
      BY <1>3
    <2>3. SumBody(f, s, g) = f[x] + g[s \ {x}] /\ SumBody(f, s, h) = f[x] + h[s \ {x}]
      BY <1>3, <2>1, Zenon DEF SumBody
    <2>4. QED
      BY <1>1, <2>2, <2>3
  <1>4. \A s \in SUBSET S : s \in Good
    <2> HIDE DEF Good
    <2>1. QED
      BY <1>2, <1>3, SubsetInduction
  <1>5. QED
    BY <1>4

(* The sums over the subsets of a set.                                     *)
SumTable(f, S, h) ==
  /\ h \in [SUBSET S -> Int]
  /\ SumRecursion(f, S, h)
  /\ \A s \in SUBSET S : Total(f, s) = h[s]

LEMMA SumsOfSubsets ==
  ASSUME NEW S, IsFiniteSet(S), NEW f, \A x \in S : f[x] \in Int
  PROVE  \E h : SumTable(f, S, h)
  <1>1. PICK h \in [SUBSET S -> Int] : SumRecursion(f, S, h)
    BY SumExists
  <1>2. ASSUME NEW s \in SUBSET S PROVE Total(f, s) = h[s]
    <2>1. IsFiniteSet(s) /\ \A x \in s : f[x] \in Int
      BY FS_Subset
    <2>2. \E g : SumRecursion(f, s, g)
      BY <2>1, SumExists
    <2>3. PICK g : g = (CHOOSE h0 : SumRecursion(f, s, h0)) /\ SumRecursion(f, s, g)
      BY <2>2, Zenon
    <2>4. g[s] = h[s]
      BY <1>1, <2>1, <2>3, SumUnique
    <2>5. QED
      BY <2>3, <2>4, SumIsChosen
  <1>3. QED
    BY <1>1, <1>2 DEF SumTable

LEMMA SumEmpty == ASSUME NEW f PROVE Total(f, {}) = 0
  <1>1. IsFiniteSet({})
    BY FS_EmptySet
  <1>2. PICK h : SumTable(f, {}, h)
    BY <1>1, SumsOfSubsets
  <1>3. QED
    BY <1>2 DEF SumTable, SumRecursion, SumBody

(* Whichever element is taken out, the rest adds up to the rest.           *)
LEMMA SumTakeOut ==
  ASSUME NEW S, IsFiniteSet(S), NEW f, \A x \in S : f[x] \in Int
  PROVE  /\ Total(f, S) \in Int
         /\ \A x \in S : Total(f, S) = f[x] + Total(f, S \ {x})
  <1>0. PICK h : SumTable(f, S, h)
    BY SumsOfSubsets
  <1>1. /\ h \in [SUBSET S -> Int]
        /\ SumRecursion(f, S, h)
        /\ \A s \in SUBSET S : Total(f, s) = h[s]
    BY <1>0 DEF SumTable
  <1> DEFINE Good == {s \in SUBSET S : \A x \in s : h[s] = f[x] + h[s \ {x}]}
  <1>2. {} \in Good
    OBVIOUS
  <1>3. ASSUME NEW s \in SUBSET S, s # {}, \A x \in s : s \ {x} \in Good PROVE s \in Good
    <2>1. PICK y \in s : y = CHOOSE x \in s : TRUE
      BY <1>3
    <2>2. h[s] = f[y] + h[s \ {y}]
      <3>1. SumBody(f, s, h) = f[y] + h[s \ {y}]
        BY <1>3, <2>1, Zenon DEF SumBody
      <3>2. h[s] = SumBody(f, s, h)
        BY <1>1 DEF SumRecursion
      <3>3. QED
        BY <3>1, <3>2
    <2>3. ASSUME NEW x \in s, x # y PROVE h[s] = f[x] + h[s \ {x}]
      <3>1. h[s \ {y}] = f[x] + h[(s \ {y}) \ {x}]
        BY <1>3, <2>3
      <3>2. h[s \ {x}] = f[y] + h[(s \ {x}) \ {y}]
        BY <1>3, <2>3
      <3>3. (s \ {y}) \ {x} = (s \ {x}) \ {y}
        OBVIOUS
      <3>4. f[x] \in Int /\ f[y] \in Int /\ h[(s \ {x}) \ {y}] \in Int
        BY <1>1
      <3>5. f[y] + (f[x] + h[(s \ {x}) \ {y}]) = f[x] + (f[y] + h[(s \ {x}) \ {y}])
        BY <3>4
      <3>6. QED
        BY <2>2, <3>1, <3>2, <3>3, <3>5, Zenon
    <2>4. QED
      BY <2>2, <2>3
  <1>4. \A s \in SUBSET S : s \in Good
    <2> HIDE DEF Good
    <2>1. QED
      BY <1>2, <1>3, SubsetInduction
  <1>5. QED
    BY <1>1, <1>4

LEMMA SumAdd ==
  ASSUME NEW S, IsFiniteSet(S), NEW f, NEW x, x \notin S,
         \A y \in S \cup {x} : f[y] \in Int
  PROVE  Total(f, S \cup {x}) = Total(f, S) + f[x] /\ Total(f, S) \in Int
  <1>1. IsFiniteSet(S \cup {x})
    BY FS_AddElement
  <1>2. Total(f, S \cup {x}) = f[x] + Total(f, (S \cup {x}) \ {x})
    BY <1>1, SumTakeOut
  <1>3. (S \cup {x}) \ {x} = S
    OBVIOUS
  <1>4. Total(f, S) \in Int /\ f[x] \in Int
    BY SumTakeOut
  <1>5. Total(f, S \cup {x}) = f[x] + Total(f, S)
    BY <1>2, <1>3, Zenon
  <1>6. QED
    BY <1>4, <1>5

(* The sum of the first n values of a sequence.                            *)
LEMMA SumPrefix ==
  ASSUME NEW n \in Nat, NEW f, \A i \in 1 .. n + 1 : f[i] \in Int
  PROVE  /\ Total(f, 1 .. n) \in Int
         /\ Total(f, 1 .. n + 1) = Total(f, 1 .. n) + f[n + 1]
  <1>1. 1 .. n + 1 = (1 .. n) \cup {n + 1} /\ n + 1 \notin 1 .. n
    OBVIOUS
  <1>2. IsFiniteSet(1 .. n)
    BY FS_Interval
  <1>3. \A y \in (1 .. n) \cup {n + 1} : f[y] \in Int
    BY <1>1
  <1>4. /\ Total(f, (1 .. n) \cup {n + 1}) = Total(f, 1 .. n) + f[n + 1]
        /\ Total(f, 1 .. n) \in Int
    BY <1>1, <1>2, <1>3, SumAdd
  <1>5. QED
    BY <1>1, <1>4, Zenon

(* Sums of the same values are the same.                                   *)
LEMMA SumSame ==
  ASSUME NEW n \in Nat, NEW f, NEW g,
         \A i \in 1 .. n : f[i] \in Int /\ f[i] = g[i]
  PROVE  Total(f, 1 .. n) = Total(g, 1 .. n)
  <1> DEFINE S == {k \in 0 .. n : Total(f, 1 .. k) = Total(g, 1 .. k)}
  <1>1. 0 \in S
    <2>1. 1 .. 0 = {}
      OBVIOUS
    <2>2. QED
      BY <2>1, SumEmpty
  <1>2. ASSUME NEW k \in 1 .. n, k - 1 \in S PROVE k \in S
    <2>1. PICK j \in Nat : j = k - 1 /\ j + 1 = k
      OBVIOUS
    <2>2. \A i \in 1 .. j + 1 : f[i] \in Int /\ g[i] \in Int /\ f[i] = g[i]
      BY <2>1
    <2>3. /\ Total(f, 1 .. j + 1) = Total(f, 1 .. j) + f[j + 1]
          /\ Total(g, 1 .. j + 1) = Total(g, 1 .. j) + g[j + 1]
      BY <2>2, SumPrefix
    <2>4. QED
      BY <1>2, <2>1, <2>2, <2>3
  <1>3. \A k \in 0 .. n : k \in S
    <2> HIDE DEF S
    <2>1. QED
      BY <1>1, <1>2, UpTo
  <1>4. QED
    BY <1>3

(* g is the sequence f of length n with one value more, at place k.        *)
Inserts(f, n, k, g) ==
  /\ \A i \in 1 .. n : i < k => g[i] = f[i]
  /\ \A i \in 1 .. n : i >= k => g[i + 1] = f[i]

LEMMA SumInsert ==
  ASSUME NEW n \in Nat, NEW f, NEW g, NEW k \in 1 .. n + 1,
         \A i \in 1 .. n : f[i] \in Int,
         g[k] \in Int, Inserts(f, n, k, g)
  PROVE  /\ Total(g, 1 .. n + 1) = Total(f, 1 .. n) + g[k]
         /\ Total(f, 1 .. n) \in Int
  <1> USE DEF Inserts
  <1>0. \A i \in 1 .. n + 1 : g[i] \in Int
    <2>1. ASSUME NEW i \in 1 .. n + 1, i > k PROVE g[i] \in Int
      <3>1. i - 1 \in 1 .. n /\ i - 1 >= k /\ (i - 1) + 1 = i
        BY <2>1
      <3>2. QED
        BY <3>1
    <2>2. ASSUME NEW i \in 1 .. n + 1, i < k PROVE g[i] \in Int
      BY <2>2
    <2>3. QED
      BY <2>1, <2>2
  <1> DEFINE S == {m \in 0 .. n : m >= k - 1 => Total(g, 1 .. m + 1) = Total(f, 1 .. m) + g[k]}
  <1>1. ASSUME NEW m \in 0 .. n, m = k - 1 PROVE Total(g, 1 .. m + 1) = Total(f, 1 .. m) + g[k]
    <2>1. \A i \in 1 .. m + 1 : g[i] \in Int
      BY <1>0
    <2>2. Total(g, 1 .. m + 1) = Total(g, 1 .. m) + g[m + 1]
      BY <2>1, SumPrefix
    <2>3. Total(g, 1 .. m) = Total(f, 1 .. m)
      BY <1>1, SumSame
    <2>4. QED
      BY <1>1, <2>2, <2>3
  <1>2. 0 \in S
    <2>1. PICK z \in 0 .. n : z = 0
      OBVIOUS
    <2>2. z >= k - 1 => z = k - 1
      BY <2>1
    <2>3. z >= k - 1 => Total(g, 1 .. z + 1) = Total(f, 1 .. z) + g[k]
      BY <1>1, <2>2
    <2>4. z \in S
      BY <2>3, Zenon
    <2>5. QED
      BY <2>1, <2>4, Zenon
  <1>3. ASSUME NEW m \in 1 .. n, m - 1 \in S PROVE m \in S
    <2>1. CASE m < k - 1
      BY <2>1
    <2>2. CASE m = k - 1
      BY <2>2, <1>1
    <2>3. CASE m > k - 1
      <3>1. PICK j \in Nat : j = m - 1 /\ j + 1 = m
        OBVIOUS
      <3>2. Total(g, 1 .. j + 1) = Total(f, 1 .. j) + g[k]
        BY <1>3, <2>3, <3>1
      <3>3. \A i \in 1 .. j + 1 : f[i] \in Int
        BY <3>1
      <3>4. Total(f, 1 .. j + 1) = Total(f, 1 .. j) + f[j + 1] /\ Total(f, 1 .. j) \in Int
        BY <3>3, SumPrefix
      <3>5. \A i \in 1 .. m + 1 : g[i] \in Int
        BY <1>0
      <3>6. Total(g, 1 .. m + 1) = Total(g, 1 .. m) + g[m + 1]
        BY <3>5, SumPrefix
      <3>7. g[m + 1] = f[m] /\ f[m] \in Int
        BY <2>3
      <3>8. QED
        BY <3>1, <3>2, <3>4, <3>6, <3>7
    <2>4. QED
      BY <2>1, <2>2, <2>3
  <1>4. \A m \in 0 .. n : m \in S
    <2> HIDE DEF S
    <2>1. QED
      BY <1>2, <1>3, UpTo
  <1>5. Total(f, 1 .. n) \in Int
    <2>1. IsFiniteSet(1 .. n)
      BY FS_Interval
    <2>2. QED
      BY <2>1, SumTakeOut
  <1>6. QED
    BY <1>4, <1>5

(* One value changed.                                                      *)
LEMMA SumReplace ==
  ASSUME NEW n \in Nat, NEW f, NEW g, NEW k \in 1 .. n,
         \A i \in 1 .. n : f[i] \in Int,
         g[k] \in Int, \A i \in 1 .. n : i # k => g[i] = f[i]
  PROVE  /\ Total(g, 1 .. n) = Total(f, 1 .. n) - f[k] + g[k]
         /\ Total(f, 1 .. n) \in Int
  <1>1. PICK m \in Nat : n = m + 1
    <2>1. n - 1 \in Nat /\ n = (n - 1) + 1
      OBVIOUS
    <2>2. QED
      BY <2>1
  <1>2. PICK h : h = [i \in 1 .. m |-> IF i < k THEN f[i] ELSE f[i + 1]]
    OBVIOUS
  <1>3. \A i \in 1 .. m : h[i] \in Int
    BY <1>1, <1>2
  <1>4. Inserts(h, m, k, f) /\ Inserts(h, m, k, g)
    BY <1>1, <1>2 DEF Inserts
  <1>5. k \in 1 .. m + 1 /\ f[k] \in Int
    BY <1>1
  <1>6. Total(f, 1 .. m + 1) = Total(h, 1 .. m) + f[k] /\ Total(h, 1 .. m) \in Int
    BY <1>3, <1>4, <1>5, SumInsert
  <1>7. Total(g, 1 .. m + 1) = Total(h, 1 .. m) + g[k]
    BY <1>3, <1>4, <1>5, SumInsert
  <1>8. QED
    BY <1>1, <1>5, <1>6, <1>7

LEMMA ChosenInside ==
  ASSUME NEW S, NEW s \in SUBSET S, s # {}
  PROVE  (CHOOSE x \in s : TRUE) \in S
  <1>1. PICK x \in s : x = CHOOSE y \in s : TRUE
    OBVIOUS
  <1>2. QED
    BY <1>1

(* What is defined by the recursion is the sum, whatever was chosen.       *)
LEMMA SumByRecursion ==
  ASSUME NEW S, IsFiniteSet(S), NEW f, \A x \in S : f[x] \in Int,
         NEW c, SumRecursion(f, S, c)
  PROVE  c[S] = Total(f, S)
  <1>1. PICK h : SumTable(f, S, h)
    BY SumsOfSubsets
  <1>2. SumRecursion(f, S, h) /\ Total(f, S) = h[S]
    BY <1>1 DEF SumTable
  <1>3. c[S] = h[S]
    BY <1>2, SumUnique
  <1>4. QED
    BY <1>2, <1>3

LEMMA SumNatural ==
  ASSUME NEW n \in Nat, NEW f, \A i \in 1 .. n : f[i] \in Nat
  PROVE  Total(f, 1 .. n) \in Nat
  <1> DEFINE S == {k \in 0 .. n : Total(f, 1 .. k) \in Nat}
  <1>1. 0 \in S
    <2>1. 1 .. 0 = {}
      OBVIOUS
    <2>2. QED
      BY <2>1, SumEmpty
  <1>2. ASSUME NEW k \in 1 .. n, k - 1 \in S PROVE k \in S
    <2>1. PICK j \in Nat : j = k - 1 /\ j + 1 = k
      OBVIOUS
    <2>2. \A i \in 1 .. j + 1 : f[i] \in Int /\ f[i] \in Nat
      BY <2>1
    <2>3. Total(f, 1 .. j + 1) = Total(f, 1 .. j) + f[j + 1]
      BY <2>2, SumPrefix
    <2>4. j + 1 \in 1 .. j + 1
      BY <2>1
    <2>5. Total(f, 1 .. j + 1) \in Nat
      BY <1>2, <2>1, <2>2, <2>3, <2>4
    <2>6. QED
      BY <2>1, <2>5
  <1>3. \A k \in 0 .. n : k \in S
    <2> HIDE DEF S
    <2>1. QED
      BY <1>1, <1>2, UpTo
  <1>4. QED
    BY <1>3

(* u is f + g * c + d, value by value.                                     *)
Linear(n, u, f, g, c, d) ==
  \A i \in 1 .. n : f[i] \in Int /\ g[i] \in Int /\ u[i] = f[i] + g[i] * c + d

LEMMA SumLinear ==
  ASSUME NEW n \in Nat, NEW f, NEW g, NEW u, NEW c \in Int, NEW d \in Int,
         Linear(n, u, f, g, c, d)
  PROVE  Total(u, 1 .. n) = Total(f, 1 .. n) + Total(g, 1 .. n) * c + n * d
  <1> DEFINE S == {k \in 0 .. n :
                     Total(u, 1 .. k) = Total(f, 1 .. k) + Total(g, 1 .. k) * c + k * d}
  <1>1. 0 \in S
    <2>1. 1 .. 0 = {}
      OBVIOUS
    <2>2. Total(u, {}) = 0 /\ Total(f, {}) = 0 /\ Total(g, {}) = 0
      BY SumEmpty
    <2>3. QED
      BY <2>1, <2>2
  <1>2. ASSUME NEW k \in 1 .. n, k - 1 \in S PROVE k \in S
    <2>1. PICK j \in Nat : j = k - 1 /\ j + 1 = k
      OBVIOUS
    <2>2. \A i \in 1 .. j + 1 : /\ f[i] \in Int /\ g[i] \in Int /\ u[i] \in Int
                                /\ u[i] = f[i] + g[i] * c + d
      BY <2>1 DEF Linear
    <2>3. /\ Total(f, 1 .. j + 1) = Total(f, 1 .. j) + f[j + 1]
          /\ Total(g, 1 .. j + 1) = Total(g, 1 .. j) + g[j + 1]
          /\ Total(u, 1 .. j + 1) = Total(u, 1 .. j) + u[j + 1]
          /\ Total(f, 1 .. j) \in Int /\ Total(g, 1 .. j) \in Int
      BY <2>2, SumPrefix
    <2>4. Total(u, 1 .. j) = Total(f, 1 .. j) + Total(g, 1 .. j) * c + j * d
      BY <1>2, <2>1
    <2>5. PICK F \in Int, G \in Int, x \in Int, y \in Int :
            F = Total(f, 1 .. j) /\ G = Total(g, 1 .. j) /\ x = f[j + 1] /\ y = g[j + 1]
      BY <2>1, <2>2, <2>3
    <2>6. j + 1 \in 1 .. j + 1
      BY <2>1
    <2>7. Total(u, 1 .. j + 1) = (F + G * c + j * d) + (x + y * c + d)
      BY <2>2, <2>3, <2>4, <2>5, <2>6
    <2>8. (F + G * c + j * d) + (x + y * c + d) = (F + x) + (G + y) * c + (j + 1) * d
      <3>1. (G + y) * c = G * c + y * c /\ (j + 1) * d = j * d + d
        BY <2>5
      <3>2. PICK p \in Int, q \in Int, r \in Int : p = G * c /\ q = y * c /\ r = j * d
        BY <2>5
      <3>3. (F + p + r) + (x + q + d) = (F + x) + (p + q) + (r + d)
        OBVIOUS
      <3>4. QED
        BY <3>1, <3>2, <3>3
    <2>9. Total(f, 1 .. k) = F + x /\ Total(g, 1 .. k) = G + y /\ k = j + 1
      BY <2>1, <2>3, <2>5
    <2>10. Total(u, 1 .. k) = Total(f, 1 .. k) + Total(g, 1 .. k) * c + k * d
      BY <2>1, <2>7, <2>8, <2>9, Zenon
    <2>11. QED
      BY <2>10
  <1>3. \A k \in 0 .. n : k \in S
    <2> HIDE DEF S
    <2>1. QED
      BY <1>1, <1>2, UpTo
  <1>4. QED
    BY <1>3
=============================================================================
