---------------------------- MODULE B2GInfoProofs ----------------------------
(***************************************************************************)
(* Proofs about B2GInfo: its types, that a report shows the right          *)
(* processes once each, that a row tells one story about its process, and  *)
(* that the total is the sum of the rows.  Then, of the two tables that    *)
(* b2g-info prints below the processes (SystemInfo), that each file is     *)
(* read as one text, a text taken for the number that it denotes, that the *)
(* figures add up and that the lists are paired; and of any table          *)
(* (TableClient), that its columns are aligned and its header encloses its *)
(* columns.                                                                *)
(***************************************************************************)
EXTENDS B2GInfo, SystemInfo, TableClient, ProcFSProofs, FiniteSetTheorems, SequenceTheorems,
        WellFoundedInduction

(***************************************************************************)
(* Induction over the numbers, functions that are defined by recursion,    *)
(* and sums.                                                               *)
(***************************************************************************)
\* A set of numbers that is not empty has a least one.
LEMMA LeastNumber ==
  ASSUME NEW S, S \subseteq Nat, S # {}
  PROVE  \E k \in S : \A j \in S : k <= j
<1>1. \E k \in S : \A j \in S : ~(<<j, k>> \in OpToRel(<, Nat))
  BY NatLessThanWellFounded, WFMin
<1>2. PICK k \in S : \A j \in S : ~(<<j, k>> \in OpToRel(<, Nat))
  BY <1>1
<1>3. ASSUME NEW j \in S
      PROVE  k <= j
  <2>1. ~(<<j, k>> \in {ss \in Nat \X Nat : ss[1] < ss[2]})
    BY <1>2 DEF OpToRel
  <2>2. j \in Nat /\ k \in Nat
    OBVIOUS
  <2>3. ~(j < k)
    BY <2>1, <2>2
  <2> QED BY <2>2, <2>3
<1> QED BY <1>3

\* Induction: a set with 0 and, with each number, the next.
LEMMA InductionUp ==
  ASSUME NEW S, 0 \in S, \A n \in Nat : n \in S => n + 1 \in S
  PROVE  Nat \subseteq S
<1> DEFINE rest == Nat \ S
<1>1. CASE rest = {}
  BY <1>1
<1>2. CASE rest # {}
  <2>1. PICK k \in rest : \A j \in rest : k <= j
    BY <1>2, LeastNumber
  <2>2. k # 0 /\ k - 1 \in Nat
    BY <2>1
  <2>3. k - 1 \in S
    BY <2>1, <2>2
  <2>4. (k - 1) + 1 \in S
    BY <2>2, <2>3
  <2> QED BY <2>1, <2>4
<1> QED BY <1>1, <1>2

\* What a definition by recursion on a rank needs, and what it defines.
Recursive(D, V, rank, prev, base, step) ==
  /\ rank \in [D -> Nat] /\ prev \in [D -> D]
  /\ \A d \in D : rank[d] # 0 => rank[prev[d]] < rank[d]
  /\ base \in [D -> V] /\ step \in [D -> [V -> V]]

Defined(f, D, V, rank, prev, base, step) ==
  /\ f \in [D -> V]
  /\ \A d \in D : f[d] = IF rank[d] = 0 THEN base[d] ELSE step[d][f[prev[d]]]

\* A function that is defined by recursion on a rank exists.
LEMMA Recursion ==
  ASSUME NEW D, NEW V, NEW rank, NEW prev, NEW base, NEW step,
         Recursive(D, V, rank, prev, base, step)
  PROVE  \E f : Defined(f, D, V, rank, prev, base, step)
<1> USE DEF Recursive
<1> DEFINE Holds(f, d) == f[d] = IF rank[d] = 0 THEN base[d] ELSE step[d][f[prev[d]]]
           Good(f, n) == \A d \in D : rank[d] <= n => Holds(f, d)
<1>1. \A n \in Nat : \E f \in [D -> V] : Good(f, n)
  <2> DEFINE S == {n \in Nat : \E f \in [D -> V] : Good(f, n)}
  <2>1. 0 \in S
    <3>1. Good(base, 0)
      OBVIOUS
    <3> QED BY <3>1
  <2>2. ASSUME NEW n \in Nat, n \in S
        PROVE  n + 1 \in S
    <3>1. PICK f \in [D -> V] : Good(f, n)
      BY <2>2
    <3> DEFINE g == [d \in D |-> IF rank[d] = 0 THEN base[d] ELSE step[d][f[prev[d]]]]
    <3>2. g \in [D -> V]
      OBVIOUS
    <3>3. ASSUME NEW d \in D, rank[d] <= n
          PROVE  g[d] = f[d]
      BY <3>1, <3>3
    <3>4. ASSUME NEW d \in D, rank[d] <= n + 1
          PROVE  Holds(g, d)
      <4>1. CASE rank[d] = 0
        BY <4>1
      <4>2. CASE rank[d] # 0
        <5>1. prev[d] \in D /\ rank[prev[d]] \in Nat /\ rank[d] \in Nat /\ rank[prev[d]] <= n
          BY <3>4, <4>2
        <5>2. g[prev[d]] = f[prev[d]]
          BY <3>3, <5>1
        <5> QED BY <4>2, <5>2
      <4> QED BY <4>1, <4>2
    <3>5. Good(g, n + 1)
      BY <3>4
    <3> HIDE DEF g, Good
    <3> QED BY <3>2, <3>5
  <2> HIDE DEF S
  <2>3. Nat \subseteq S
    BY <2>1, <2>2, InductionUp
  <2> QED BY <2>3 DEF S
<1>2. ASSUME NEW f \in [D -> V], NEW g \in [D -> V], NEW n \in Nat, Good(f, n), Good(g, n)
      PROVE  \A d \in D : rank[d] <= n => f[d] = g[d]
  <2> DEFINE S == {m \in Nat : \A d \in D : rank[d] <= n /\ rank[d] <= m => f[d] = g[d]}
  <2>1. 0 \in S
    BY <1>2
  <2>2. ASSUME NEW m \in Nat, m \in S
        PROVE  m + 1 \in S
    <3>1. ASSUME NEW d \in D, rank[d] <= n, rank[d] <= m + 1
          PROVE  f[d] = g[d]
      <4>1. CASE rank[d] = 0
        BY <1>2, <3>1, <4>1
      <4>2. CASE rank[d] # 0
        <5>1. prev[d] \in D /\ rank[prev[d]] <= n /\ rank[prev[d]] <= m
          BY <3>1, <4>2
        <5>2. f[prev[d]] = g[prev[d]]
          BY <2>2, <5>1
        <5> QED BY <1>2, <3>1, <4>2, <5>2
      <4> QED BY <4>1, <4>2
    <3> QED BY <3>1
  <2> HIDE DEF S
  <2>3. Nat \subseteq S
    BY <2>1, <2>2, InductionUp
  <2> QED BY <2>3 DEF S
<1> DEFINE upTo == [n \in Nat |-> CHOOSE f \in [D -> V] : Good(f, n)]
           h == [d \in D |-> upTo[rank[d]][d]]
<1>3. \A n \in Nat : upTo[n] \in [D -> V] /\ Good(upTo[n], n)
  BY <1>1
<1> HIDE DEF upTo
<1>4. h \in [D -> V]
  BY <1>3
<1>5. ASSUME NEW d \in D
      PROVE  Holds(h, d)
  <2>1. h[d] = upTo[rank[d]][d] /\ Holds(upTo[rank[d]], d) /\ rank[d] \in Nat
    BY <1>3
  <2>2. CASE rank[d] = 0
    BY <2>1, <2>2
  <2>3. CASE rank[d] # 0
    <3> DEFINE e == prev[d]
               n == rank[d]
               k == rank[e]
    <3>1. e \in D /\ k \in Nat /\ n \in Nat /\ k <= n
      BY <2>3
    <3>2. Good(upTo[n], k) /\ Good(upTo[k], k)
      BY <1>3, <3>1
    <3>3. upTo[n][e] = upTo[k][e]
      <4>1. upTo[n] \in [D -> V] /\ upTo[k] \in [D -> V]
        BY <1>3, <3>1
      <4> HIDE DEF Good, n, k, e
      <4>2. \A d1 \in D : rank[d1] <= k => upTo[n][d1] = upTo[k][d1]
        BY <1>2, <3>1, <3>2, <4>1
      <4> QED BY <3>1, <4>2 DEF k
    <3>4. h[e] = upTo[k][e]
      BY <3>1
    <3> QED BY <2>1, <2>3, <3>3, <3>4
  <2> QED BY <2>2, <2>3
<1> HIDE DEF h
<1> QED BY <1>4, <1>5 DEF Defined

\* What folds the subsets of S, taking from each the element that pick says.
Folded(f, S, V, pick, base, step) ==
  /\ f \in [SUBSET S -> V]
  /\ \A s \in SUBSET S :
       f[s] = IF s = {} THEN base ELSE step[pick[s]][f[s \ {pick[s]}]]

\* A fold over a finite set, which takes its elements in the order that pick
\* says, is what its equation says.
LEMMA FoldExists ==
  ASSUME NEW S, IsFiniteSet(S), NEW V, NEW base \in V, NEW step \in [S -> [V -> V]],
         NEW pick, \A s \in SUBSET S : s # {} => pick[s] \in s
  PROVE  \E f : Folded(f, S, V, pick, base, step)
<1> DEFINE rank == [s \in SUBSET S |-> Cardinality(s)]
           prev == [s \in SUBSET S |-> s \ {pick[s]}]
           first == [s \in SUBSET S |-> base]
           next == [s \in SUBSET S |-> IF s = {} THEN [v \in V |-> v] ELSE step[pick[s]]]
<1>1. /\ rank \in [SUBSET S -> Nat]
      /\ \A s \in SUBSET S : rank[s] = 0 <=> s = {}
  BY FS_Subset, FS_CardinalityType, FS_EmptySet
<1>2. prev \in [SUBSET S -> SUBSET S]
  OBVIOUS
<1>3. first \in [SUBSET S -> V] /\ next \in [SUBSET S -> [V -> V]]
  OBVIOUS
<1>4. ASSUME NEW s \in SUBSET S, rank[s] # 0
      PROVE  rank[prev[s]] < rank[s]
  <2>1. s # {} /\ IsFiniteSet(s) /\ pick[s] \in s /\ s \ {pick[s]} \in SUBSET S
    BY <1>1, <1>4, FS_Subset
  <2>2. Cardinality(s \ {pick[s]}) = Cardinality(s) - 1 /\ Cardinality(s) \in Nat
    BY <2>1, FS_RemoveElement, FS_CardinalityType
  <2> QED BY <2>1, <2>2
<1> HIDE DEF rank, prev, first, next
<1>5. PICK f \in [SUBSET S -> V] : \A s \in SUBSET S :
        f[s] = IF rank[s] = 0 THEN first[s] ELSE next[s][f[prev[s]]]
  <2>1. Recursive(SUBSET S, V, rank, prev, first, next)
    BY <1>1, <1>2, <1>3, <1>4 DEF Recursive
  <2>2. \E f : Defined(f, SUBSET S, V, rank, prev, first, next)
    BY ONLY <2>1, Recursion
  <2> QED BY <2>2 DEF Defined
<1>6. ASSUME NEW s \in SUBSET S
      PROVE  f[s] = IF s = {} THEN base ELSE step[pick[s]][f[s \ {pick[s]}]]
  BY <1>1, <1>5 DEF first, next, prev
<1> QED BY <1>6 DEF Folded

\* The sums of g over the subsets of S.
IsSum(f, S, g) ==
  /\ f \in [SUBSET S -> Int] /\ f[{}] = 0
  /\ \A s \in SUBSET S : \A x \in s : f[s] = g[x] + f[s \ {x}]

\* A function that adds them up as MapThenSumSet() does.
AddsUp(f, S, g) ==
  /\ f \in [SUBSET S -> Int]
  /\ \A s \in SUBSET S :
       f[s] = IF s = {} THEN 0
              ELSE g[CHOOSE x \in s : TRUE] + f[s \ {CHOOSE x \in s : TRUE}]

\* In whatever order they are taken, numbers add up to the same.
LEMMA SumOrder ==
  ASSUME NEW S, IsFiniteSet(S), NEW g, \A x \in S : g[x] \in Int,
         NEW f, AddsUp(f, S, g)
  PROVE  IsSum(f, S, g)
<1> USE DEF AddsUp
<1> DEFINE T == {n \in Nat : \A s \in SUBSET S : Cardinality(s) = n =>
                               \A x \in s : f[s] = g[x] + f[s \ {x}]}
<1>0. \A s \in SUBSET S : IsFiniteSet(s) /\ Cardinality(s) \in Nat
  BY FS_Subset, FS_CardinalityType
<1>1. 0 \in T
  BY <1>0, FS_EmptySet
<1>2. ASSUME NEW n \in Nat, n \in T
      PROVE  n + 1 \in T
  <2>1. ASSUME NEW s \in SUBSET S, Cardinality(s) = n + 1, NEW x \in s
        PROVE  f[s] = g[x] + f[s \ {x}]
    <3> DEFINE y == CHOOSE y \in s : TRUE
    <3>1. y \in s /\ f[s] = g[y] + f[s \ {y}]
      BY <2>1
    <3> HIDE DEF y
    <3>2. CASE x = y
      BY <3>1, <3>2
    <3>3. CASE x # y
      <4>1. /\ s \ {y} \in SUBSET S /\ s \ {x} \in SUBSET S
            /\ x \in s \ {y} /\ y \in s \ {x}
        BY <3>1, <3>3
      <4>2. Cardinality(s \ {y}) = n /\ Cardinality(s \ {x}) = n
        <5>1. IsFiniteSet(s) /\ Cardinality(s) = n + 1 /\ n \in Nat /\ x \in s /\ y \in s
          BY <1>0, <2>1, <3>1
        <5>2. /\ Cardinality(s \ {y}) = Cardinality(s) - 1
              /\ Cardinality(s \ {x}) = Cardinality(s) - 1
          BY ONLY <5>1, FS_RemoveElement
        <5> QED BY <5>1, <5>2
      <4>3. f[s \ {y}] = g[x] + f[(s \ {y}) \ {x}] /\ f[s \ {x}] = g[y] + f[(s \ {x}) \ {y}]
        BY <1>2, <4>1, <4>2
      <4>4. (s \ {y}) \ {x} = (s \ {x}) \ {y} /\ (s \ {y}) \ {x} \in SUBSET S
        OBVIOUS
      <4>5. f[(s \ {y}) \ {x}] \in Int /\ g[x] \in Int /\ g[y] \in Int
        BY <3>1, <4>4
      <4>6. f[s] = g[y] + (g[x] + f[(s \ {y}) \ {x}])
        BY <3>1, <4>3
      <4>7. f[s \ {x}] = g[y] + f[(s \ {y}) \ {x}]
        BY <4>3, <4>4
      <4> HIDE DEF T
      <4> QED BY <4>5, <4>6, <4>7
    <3> QED BY <3>2, <3>3
  <2> QED BY <2>1
<1> HIDE DEF T
<1>3. Nat \subseteq T
  BY <1>1, <1>2, InductionUp
<1>4. \A s \in SUBSET S : \A x \in s : f[s] = g[x] + f[s \ {x}]
  BY <1>0, <1>3 DEF T
<1>5. f[{}] = 0
  OBVIOUS
<1> QED BY <1>4, <1>5 DEF IsSum

\* MapThenSumSet() adds up.
LEMMA SumExists ==
  ASSUME NEW S, IsFiniteSet(S), NEW g, \A x \in S : g[x] \in Int
  PROVE  \E f : AddsUp(f, S, g)
<1> DEFINE pick == [s \in SUBSET S |-> CHOOSE x \in s : TRUE]
           step == [x \in S |-> [v \in Int |-> g[x] + v]]
<1>1. \A s \in SUBSET S : s # {} => pick[s] \in s
  OBVIOUS
<1>2. step \in [S -> [Int -> Int]]
  OBVIOUS
<1>3. 0 \in Int
  OBVIOUS
<1> HIDE DEF pick, step
<1>31. IsFiniteSet(S)
  OBVIOUS
<1>4. PICK f \in [SUBSET S -> Int] : \A s \in SUBSET S :
        f[s] = IF s = {} THEN 0 ELSE step[pick[s]][f[s \ {pick[s]}]]
  <2>1. \E f : Folded(f, S, Int, pick, 0, step)
    BY ONLY <1>1, <1>2, <1>3, <1>31, FoldExists
  <2> QED BY <2>1 DEF Folded
<1>5. ASSUME NEW s \in SUBSET S
      PROVE  f[s] = IF s = {} THEN 0
                    ELSE g[CHOOSE x \in s : TRUE] + f[s \ {CHOOSE x \in s : TRUE}]
  <2>1. f[s] = IF s = {} THEN 0 ELSE step[pick[s]][f[s \ {pick[s]}]]
    BY <1>4
  <2>2. CASE s = {}
    BY <2>1, <2>2
  <2>3. CASE s # {}
    <3>1. pick[s] \in S /\ f[s \ {pick[s]}] \in Int
      BY <1>1, <2>3
    <3>2. step[pick[s]][f[s \ {pick[s]}]] = g[pick[s]] + f[s \ {pick[s]}]
      BY <3>1 DEF step
    <3>3. pick[s] = CHOOSE x \in s : TRUE
      BY DEF pick
    <3> QED BY <2>1, <2>3, <3>2, <3>3
  <2> QED BY <2>2, <2>3
<1> QED BY <1>5 DEF AddsUp

\* The sum over a set depends on its numbers only.
LEMMA SumsAgree ==
  ASSUME NEW S, IsFiniteSet(S), NEW T, IsFiniteSet(T), NEW g, NEW h, NEW e, NEW f,
         IsSum(e, S, g), IsSum(f, T, h), NEW s, s \subseteq S, s \subseteq T,
         \A x \in s : g[x] = h[x]
  PROVE  e[s] = f[s]
<1> DEFINE N == {n \in Nat : \A r \in SUBSET s : Cardinality(r) = n => e[r] = f[r]}
<1>0. \A r \in SUBSET s : IsFiniteSet(r) /\ Cardinality(r) \in Nat
  BY FS_Subset, FS_CardinalityType
<1>1. 0 \in N
  BY <1>0, FS_EmptySet DEF IsSum
<1>2. ASSUME NEW n \in Nat, n \in N
      PROVE  n + 1 \in N
  <2>1. ASSUME NEW r \in SUBSET s, Cardinality(r) = n + 1
        PROVE  e[r] = f[r]
    <3>1. PICK x \in r : TRUE
      BY <2>1, <1>0, FS_EmptySet
    <3>2. Cardinality(r \ {x}) = n
      <4>1. IsFiniteSet(r) /\ Cardinality(r) = n + 1 /\ x \in r /\ n \in Nat
        BY <1>0, <2>1, <3>1
      <4>2. Cardinality(r \ {x}) = Cardinality(r) - 1
        BY ONLY <4>1, FS_RemoveElement
      <4> QED BY <4>1, <4>2
    <3>3. e[r \ {x}] = f[r \ {x}]
      BY <1>2, <3>2
    <3>4. e[r] = g[x] + e[r \ {x}] /\ f[r] = h[x] + f[r \ {x}]
      BY <3>1 DEF IsSum
    <3> QED BY <3>1, <3>3, <3>4
  <2> QED BY <2>1
<1> HIDE DEF N
<1>3. Nat \subseteq N
  BY <1>1, <1>2, InductionUp
<1> QED BY <1>0, <1>3 DEF N

-----------------------------------------------------------------------------
\* A set of numbers from zero up that is not empty has a least one, which Min()
\* gives.
LEMMA Least ==
  ASSUME NEW S, S \subseteq Nat, S # {}
  PROVE  Min(S) \in S /\ \A x \in S : Min(S) <= x
<1>1. \E k \in S : \A j \in S : k <= j
  BY LeastNumber
<1> QED BY <1>1 DEF Min

\* A finite set of numbers that is not empty has a greatest one.
LEMMA Greatest ==
  ASSUME NEW S, S \subseteq Int, IsFiniteSet(S), S # {}
  PROVE  Max(S) \in S /\ \A x \in S : x <= Max(S)
<1> DEFINE Has(s) == \E x \in s : \A y \in s : x >= y
           N == {n \in Nat : \A s \in SUBSET S : Cardinality(s) = n /\ s # {} => Has(s)}
<1>0. \A s \in SUBSET S : IsFiniteSet(s) /\ Cardinality(s) \in Nat
  BY FS_Subset, FS_CardinalityType
<1>1. 0 \in N
  BY <1>0, FS_EmptySet
<1>2. ASSUME NEW n \in Nat, n \in N
      PROVE  n + 1 \in N
  <2>1. ASSUME NEW s \in SUBSET S, Cardinality(s) = n + 1, s # {}
        PROVE  Has(s)
    <3>1. PICK x \in s : TRUE
      BY <2>1
    <3>2. CASE s = {x}
      BY <3>1, <3>2
    <3>3. CASE s # {x}
      <4>1. IsFiniteSet(s) /\ Cardinality(s) = n + 1 /\ x \in s /\ n \in Nat
        BY <1>0, <2>1, <3>1
      <4>2. Cardinality(s \ {x}) = Cardinality(s) - 1
        BY ONLY <4>1, FS_RemoveElement
      <4>3. s \ {x} \in SUBSET S /\ s \ {x} # {} /\ Cardinality(s \ {x}) = n
        BY <3>1, <3>3, <4>1, <4>2
      <4>4. Has(s \ {x})
        BY <1>2, <4>3
      <4>5. PICK y \in s \ {x} : \A z \in s \ {x} : y >= z
        BY <4>4
      <4>6. x \in Int /\ y \in Int
        BY <3>1
      <4>7. CASE x >= y
        BY <3>1, <4>5, <4>6, <4>7
      <4>8. CASE ~(x >= y)
        BY <4>5, <4>6, <4>8
      <4> QED BY <4>7, <4>8
    <3> QED BY <3>2, <3>3
  <2> QED BY <2>1
<1> HIDE DEF N
<1>3. Nat \subseteq N
  BY <1>1, <1>2, InductionUp
<1>4. \E x \in S : \A y \in S : x >= y
  BY <1>0, <1>3 DEF N
<1>5. Max(S) \in S /\ \A y \in S : Max(S) >= y
  BY <1>4 DEF Max
<1> QED BY <1>5

\* Numbers with other names add up to the same.
LEMMA SumsRenamed ==
  ASSUME NEW S, IsFiniteSet(S), NEW T, NEW b \in Injection(S, T),
         NEW g, NEW h, NEW e, NEW f, IsSum(e, S, g), IsSum(f, T, h),
         \A x \in S : g[x] = h[b[x]]
  PROVE  e[S] = f[{b[x] : x \in S}]
<1> DEFINE Image(s) == {b[x] : x \in s}
           N == {n \in Nat : \A s \in SUBSET S : Cardinality(s) = n => e[s] = f[Image(s)]}
<1>0. /\ \A s \in SUBSET S : IsFiniteSet(s) /\ Cardinality(s) \in Nat
      /\ \A x, y \in S : b[x] = b[y] => x = y
      /\ \A x \in S : b[x] \in T
  BY FS_Subset, FS_CardinalityType DEF Injection, IsInjective
<1>1. 0 \in N
  <2>1. e[{}] = 0 /\ f[{}] = 0 /\ Image({}) = {}
    BY DEF IsSum
  <2>2. \A s \in SUBSET S : Cardinality(s) = 0 => s = {}
    BY <1>0, FS_EmptySet
  <2> HIDE DEF Image
  <2> QED BY <2>1, <2>2
<1>2. ASSUME NEW n \in Nat, n \in N
      PROVE  n + 1 \in N
  <2>1. ASSUME NEW s \in SUBSET S, Cardinality(s) = n + 1
        PROVE  e[s] = f[Image(s)]
    <3>1. PICK x \in s : TRUE
      BY <2>1, <1>0, FS_EmptySet
    <3>2. Cardinality(s \ {x}) = n
      <4>1. IsFiniteSet(s) /\ Cardinality(s) = n + 1 /\ x \in s /\ n \in Nat
        BY <1>0, <2>1, <3>1
      <4>2. Cardinality(s \ {x}) = Cardinality(s) - 1
        BY ONLY <4>1, FS_RemoveElement
      <4> QED BY <4>1, <4>2
    <3>3. e[s \ {x}] = f[Image(s \ {x})]
      BY <1>2, <3>2
    <3>4. /\ Image(s) \in SUBSET T /\ b[x] \in Image(s)
          /\ Image(s \ {x}) = Image(s) \ {b[x]}
      BY <1>0, <3>1
    <3>5. e[s] = g[x] + e[s \ {x}]
      BY <3>1 DEF IsSum
    <3>6. f[Image(s)] = h[b[x]] + f[Image(s) \ {b[x]}]
      <4> HIDE DEF Image
      <4> QED BY <3>4 DEF IsSum
    <3> HIDE DEF Image
    <3> QED BY <3>1, <3>3, <3>4, <3>5, <3>6
  <2> QED BY <2>1
<1> HIDE DEF N
<1>3. Nat \subseteq N
  BY <1>1, <1>2, InductionUp
<1> QED BY <1>0, <1>3 DEF N

\* What MapThenSumSet() is the sum of.
LEMMA SumIs ==
  ASSUME NEW S, IsFiniteSet(S), NEW g, \A x \in S : g[x] \in Int, NEW h,
         \A s \in SUBSET S :
           h[s] = IF s = {} THEN 0
                  ELSE g[CHOOSE x \in s : TRUE] + h[s \ {CHOOSE x \in s : TRUE}]
  PROVE  \E f : IsSum(f, S, g) /\ f[S] = h[S]
<1>1. PICK f : AddsUp(f, S, g)
  <2>1. IsFiniteSet(S) /\ \A x \in S : g[x] \in Int
    OBVIOUS
  <2> QED BY ONLY <2>1, SumExists
<1>2. IsSum(f, S, g)
  <2>1. IsFiniteSet(S) /\ \A x \in S : g[x] \in Int
    OBVIOUS
  <2> QED BY ONLY <1>1, <2>1, SumOrder
<1> USE DEF AddsUp
<1> DEFINE N == {n \in Nat : \A s \in SUBSET S : Cardinality(s) = n => h[s] = f[s]}
<1>0. \A s \in SUBSET S : IsFiniteSet(s) /\ Cardinality(s) \in Nat
  BY FS_Subset, FS_CardinalityType
<1>3. 0 \in N
  BY <1>0, <1>1, FS_EmptySet
<1>4. ASSUME NEW n \in Nat, n \in N
      PROVE  n + 1 \in N
  <2>1. ASSUME NEW s \in SUBSET S, Cardinality(s) = n + 1
        PROVE  h[s] = f[s]
    <3> DEFINE x == CHOOSE x \in s : TRUE
    <3>1. s # {} /\ x \in s
      BY <1>0, <2>1, FS_EmptySet
    <3>2. h[s] = g[x] + h[s \ {x}] /\ f[s] = g[x] + f[s \ {x}]
      BY <1>1, <3>1
    <3> HIDE DEF x
    <3>3. Cardinality(s \ {x}) = n
      <4>1. IsFiniteSet(s) /\ Cardinality(s) = n + 1 /\ x \in s /\ n \in Nat
        BY <1>0, <2>1, <3>1
      <4>2. Cardinality(s \ {x}) = Cardinality(s) - 1
        BY ONLY <4>1, FS_RemoveElement
      <4> QED BY <4>1, <4>2
    <3>4. h[s \ {x}] = f[s \ {x}]
      BY <1>4, <3>3
    <3> QED BY <3>2, <3>4
  <2> QED BY <2>1
<1> HIDE DEF N
<1>5. Nat \subseteq N
  BY <1>3, <1>4, InductionUp
<1>6. h[S] = f[S]
  BY <1>0, <1>5 DEF N
<1> QED BY <1>2, <1>6

\* The values of a function on a finite set are finitely many.
LEMMA FiniteImage ==
  ASSUME NEW S, IsFiniteSet(S), NEW f, f = [x \in S |-> f[x]]
  PROVE  IsFiniteSet({f[x] : x \in S})
<1> DEFINE T == {f[x] : x \in S}
<1>1. f \in Surjection(S, T)
  BY DEF Surjection
<1> HIDE DEF T
<1>2. IsFiniteSet(T)
  BY <1>1, FS_Surjection
<1> QED BY <1>2 DEF T

\* Sequences over a set are sequences over a larger one.
LEMMA SeqOfMore ==
  ASSUME NEW A, NEW B, A \subseteq B
  PROVE  Seq(A) \subseteq Seq(B)
  OBVIOUS

\* The sum over an interval is its last number and the sum over the rest.
LEMMA LastOfSum ==
  ASSUME NEW a \in Int, NEW b \in Int, a <= b, NEW g, NEW h, NEW e, NEW f,
         IsSum(f, a..b, g), IsSum(e, a..b - 1, h), \A i \in a..b - 1 : h[i] = g[i]
  PROVE  f[a..b] = g[b] + e[a..b - 1]
<1>1. IsFiniteSet(a..b) /\ IsFiniteSet(a..b - 1)
  BY FS_Interval
<1>2. (a..b) \ {b} = a..b - 1 /\ b \in a..b /\ a..b - 1 \subseteq a..b
  OBVIOUS
<1>3. f[a..b] = g[b] + f[a..b - 1]
  <2>1. f[a..b] = g[b] + f[(a..b) \ {b}]
    BY <1>2 DEF IsSum
  <2> QED BY <1>2, <2>1
<1>4. e[a..b - 1] = f[a..b - 1]
  BY <1>1, <1>2, SumsAgree
<1> QED BY <1>3, <1>4

\* What takes the steps of a fold, where it knows that they are steps.
TakesSteps(h, S, V, pick, base, step) ==
  /\ \A s \in SUBSET S : s # {} => pick[s] \in s
  /\ h[{}] = base
  /\ \A s \in SUBSET S : s # {} /\ h[s \ {pick[s]}] \in V =>
       h[s] = step[pick[s]][h[s \ {pick[s]}]]

Agrees(h, f, S) == \A s \in SUBSET S : h[s] = f[s]

\* A fold that is written as MapThenFoldSet() writes it is the one that exists.
LEMMA FoldAgrees ==
  ASSUME NEW S, IsFiniteSet(S), NEW V, NEW base, NEW step, NEW pick,
         NEW f, Folded(f, S, V, pick, base, step),
         NEW h, TakesSteps(h, S, V, pick, base, step)
  PROVE  Agrees(h, f, S)
<1> USE DEF TakesSteps, Agrees
<1> DEFINE N == {n \in Nat : \A s \in SUBSET S : Cardinality(s) = n => h[s] = f[s]}
<1>0. \A s \in SUBSET S : IsFiniteSet(s) /\ Cardinality(s) \in Nat
  BY FS_Subset, FS_CardinalityType
<1>1. 0 \in N
  <2>1. \A s \in SUBSET S : Cardinality(s) = 0 => s = {}
    BY <1>0, FS_EmptySet
  <2>2. f[{}] = base
    BY DEF Folded
  <2> QED BY <2>1, <2>2
<1>2. ASSUME NEW n \in Nat, n \in N
      PROVE  n + 1 \in N
  <2>1. ASSUME NEW s \in SUBSET S, Cardinality(s) = n + 1
        PROVE  h[s] = f[s]
    <3> DEFINE x == pick[s]
    <3>1. s # {} /\ x \in s
      BY <1>0, <2>1, FS_EmptySet
    <3> HIDE DEF x
    <3>2. Cardinality(s \ {x}) = n
      <4>1. IsFiniteSet(s) /\ Cardinality(s) = n + 1 /\ x \in s /\ n \in Nat
        BY <1>0, <2>1, <3>1
      <4>2. Cardinality(s \ {x}) = Cardinality(s) - 1
        BY ONLY <4>1, FS_RemoveElement
      <4> QED BY <4>1, <4>2
    <3>3. h[s \ {x}] = f[s \ {x}] /\ f[s \ {x}] \in V
      BY <1>2, <3>2 DEF Folded
    <3>4. f[s] = step[x][f[s \ {x}]]
      BY <3>1 DEF Folded, x
    <3>5. h[s] = step[x][h[s \ {x}]]
      BY <3>1, <3>3 DEF x
    <3> QED BY <3>3, <3>4, <3>5
  <2> QED BY <2>1
<1> HIDE DEF N
<1>3. Nat \subseteq N
  BY <1>1, <1>2, InductionUp
<1> QED BY <1>0, <1>3 DEF N

-----------------------------------------------------------------------------
(***************************************************************************)
(* The report on the B2G processes (B2GInfo).                              *)
(***************************************************************************)
\* The headings of the cells, and the cells.
Titles == {"NAME", "PID", "TID", "PPID", "CPU(s)", "NICE", "USS", "PSS", "RSS", "SWAP",
           "VSIZE", "OOM_ADJ", "USER"}
RowCells == Seq(Titles \X Int)
TableRows == [delimiter : BOOLEAN, cells : RowCells]
TableTypes == [rows : Seq(TableRows), label : Int, start : Int, end : Int]

\* What the program does with a process at a time, and after all of them.
InRow == {"smaps", "oom", "user", "tasks", "thread", "next"}
AfterRows == {"print", "meminfo", "sum", "lmk"}

(***************************************************************************)
(* The inductive invariant.                                                *)
(***************************************************************************)
WorldInv ==
  /\ ProcTypeOK /\ Live(InitPid)
  /\ \A p \in Pids : Exists(p) => p <= lastPid
  /\ steady \subseteq Pids /\ seen \subseteq Pids
  /\ \A p \in seen : p <= lastPid

\* The types of the tool; the loops stay within the list.
ToolInv ==
  /\ option \in Options
  /\ pc \in InRow \cup AfterRows \cup {"start", "find", "look", "pids", "row", "exited"}
  /\ code \in {NoCode, 0, 1, 2, Aborted} /\ (pc # "exited" => code = NoCode)
  /\ list \in Seq(Pids) /\ printed \in Seq(Pids)
  /\ row \in 1..Len(list) + 1
  /\ gotMem \subseteq Pids /\ pss \in [Pids -> Nat \cup {Unknown}]
  /\ threads \in 0..MaxThreads /\ total \in Int
  /\ table \in TableTypes
  /\ pc \in InRow => row <= Len(list)
  /\ pc \in {"start", "find", "look"} => list = <<>> /\ row = 1 /\ printed = <<>>
  /\ pc \in {"find", "look"} => option \in Listing \cup Showing
  /\ pc = "pids" => option \in Listing
  /\ pc \in InRow \cup AfterRows \cup {"row"} => option \in Showing

\* The tool knows the B2G processes.
ListKnown ==
  \/ pc \in InRow \cup AfterRows \cup {"pids", "row"}
  \/ code = 0 /\ option \in Listing \cup Showing

\* Whom it knows.
ListInv ==
  /\ \A j, k \in 1..Len(list) : list[j] = list[k] => j = k
  /\ \A j \in 1..Len(list) : list[j] \in seen
  /\ ListKnown /\ IsRoot => \A p \in steady : \E j \in 1..Len(list) : list[j] = p
  /\ ListKnown /\ option \in Listing => list # <<>>

\* What it has printed of them.
PrintedInv ==
  /\ option \in Showing => /\ Len(printed) <= Len(list)
                           /\ \A j \in 1..Len(printed) : printed[j] = list[j]
  /\ pc = "row" => Len(printed) = row - 1
  /\ pc \in InRow => Len(printed) = row
  /\ pc \in AfterRows \/ (code = 0 /\ option \in Showing) =>
       Len(printed) = Len(list)
  /\ code = 0 /\ option = "pids" => printed = list
  /\ code = 0 /\ option = "main" => printed = <<Head(list)>>
  /\ code = 0 /\ option = "child" => printed = Tail(list)

\* The headings of a row of a process, as far as it goes.
Titled(cells) ==
  \A j \in 1..Len(cells) :
    cells[j][1] = Headings("PID")[j] \/ (j = 2 /\ cells[j][1] = "TID")

CellsOf(t, r) == t.rows[r].cells
LastCells == CellsOf(table, Len(table.rows))

\* The rows of ProcessRows, and ThreadsUnder, of any table.
IsProcess(t, r) == Len(CellsOf(t, r)) = 12 /\ CellsOf(t, r)[1][2] # Heading
Followed(t, r) == r < Len(t.rows) /\ Len(CellsOf(t, r + 1)) = 3

\* The rows of the processes that are complete, and their pids.
ProcessesOf(t) == {r \in 1..Len(t.rows) : IsProcess(t, r)}
PidOf(t, r) == CellsOf(t, r)[2][2]
SameProcesses(t, u) ==
  /\ ProcessesOf(u) = ProcessesOf(t)
  /\ \A r \in ProcessesOf(t) : CellsOf(u, r) = CellsOf(t, r)

\* What the rows of the processes that are complete have for headings, and
\* what they tell.
TitledRows(t) ==
  \A r \in 1..Len(t.rows) : IsProcess(t, r) => Titled(CellsOf(t, r))
OneStory(cells) ==
  /\ cells[7][2] = Unknown => cells[11][2] = Unknown
  /\ cells[11][2] = Unknown => cells[12][2] = Unknown
Stories(t) ==
  \A r \in 1..Len(t.rows) :
    IsProcess(t, r) =>
      /\ OneStory(CellsOf(t, r))
      /\ CellsOf(t, r)[12][2] = Unknown => ~Followed(t, r)

StoryInv == TitledRows(table) /\ (~reused => Stories(table))

\* The row of a process has so many cells.
Partial(n) ==
  /\ table.rows # <<>> /\ Len(LastCells) = n
  /\ Titled(LastCells) /\ LastCells[1][2] = Known

\* The row that is made.  As long as pids are not reused, a process that could
\* not be read has gone for good.
LastInv ==
  /\ pc = "smaps" => Partial(5)
  /\ pc = "oom" =>
       /\ Partial(10)
       /\ ~reused /\ LastCells[7][2] = Unknown => ~Exists(list[row])
  /\ pc = "user" =>
       /\ Partial(11)
       /\ ~reused => /\ LastCells[7][2] = Unknown => LastCells[11][2] = Unknown
                     /\ LastCells[11][2] = Unknown => ~Exists(list[row])
  /\ pc = "tasks" =>
       /\ Partial(12)
       /\ ~reused /\ LastCells[12][2] = Unknown => ~Exists(list[row])
  /\ pc = "thread" /\ threads > 0 /\ ~reused /\ table.rows # <<>> =>
       (IsProcess(table, Len(table.rows)) => LastCells[12][2] # Unknown)

\* The sizes that were read.
MemInv ==
  /\ gotMem \subseteq seen
  /\ pc \in {"start", "find", "look"} => gotMem = {}
  /\ ~reused => \A p \in gotMem : pss[p] = Unknown => ~Exists(p)

Inv ==
  WorldInv /\ ToolInv /\ ListInv /\ PrintedInv /\ StoryInv /\ LastInv /\ MemInv

-----------------------------------------------------------------------------
(***************************************************************************)
(* The operators of the table.                                             *)
(***************************************************************************)
\* A row is added at the end.
LEMMA RowAdded ==
  ASSUME NEW t \in TableTypes, NEW new \in TableRows, NEW u,
         u = [t EXCEPT !.rows = Append(@, new)]
  PROVE  /\ u \in TableTypes /\ u.rows # <<>>
         /\ Len(t.rows) \in Nat /\ Len(u.rows) = Len(t.rows) + 1
         /\ \A r \in 1..Len(t.rows) : u.rows[r] = t.rows[r]
         /\ u.rows[Len(u.rows)] = new
<1>1. t.rows \in Seq(TableRows) /\ u.rows = Append(t.rows, new)
  BY DEF TableTypes
<1>2. /\ u.rows \in Seq(TableRows) /\ u.rows # <<>>
      /\ Len(u.rows) = Len(t.rows) + 1
      /\ \A r \in 1..Len(t.rows) : u.rows[r] = t.rows[r]
      /\ u.rows[Len(t.rows) + 1] = new
  BY <1>1, AppendProperties
<1>3. u \in TableTypes
  BY <1>2 DEF TableTypes
<1> QED BY <1>1, <1>2, <1>3, LenProperties

\* The cells of the last row are replaced.
LEMMA CellsReplaced ==
  ASSUME NEW t \in TableTypes, t.rows # <<>>, NEW cells \in RowCells, NEW u,
         u = [t EXCEPT !.rows[Len(t.rows)].cells = cells]
  PROVE  /\ u \in TableTypes /\ u.rows # <<>>
         /\ Len(t.rows) \in Nat \ {0} /\ Len(u.rows) = Len(t.rows)
         /\ \A r \in 1..Len(t.rows) : r # Len(t.rows) => u.rows[r] = t.rows[r]
         /\ u.rows[Len(t.rows)].cells = cells
<1> DEFINE n == Len(t.rows)
           new == [t.rows[n] EXCEPT !.cells = cells]
<1>1. t.rows \in Seq(TableRows) /\ n \in Nat \ {0}
  BY EmptySeq DEF TableTypes
<1>2. n \in 1..Len(t.rows) /\ t.rows[n] \in TableRows
  BY <1>1, ElementOfSeq
<1>3. new \in TableRows /\ new.cells = cells
  BY <1>2 DEF TableRows
<1>4. u.rows = [t.rows EXCEPT ![n] = new]
  BY <1>1 DEF TableTypes
<1> HIDE DEF new
<1>5. /\ u.rows \in Seq(TableRows) /\ Len(u.rows) = n
      /\ \A r \in 1..n : u.rows[r] = IF r = n THEN new ELSE t.rows[r]
  BY ONLY <1>1, <1>2, <1>3, <1>4, ExceptSeq
<1>6. u \in TableTypes
  BY <1>5 DEF TableTypes
<1>7. u.rows # <<>>
  BY <1>1, <1>5, EmptySeq
<1> QED BY <1>1, <1>2, <1>3, <1>5, <1>6, <1>7

\* add() for one cell after another.
LEMMA CellsAdded ==
  ASSUME NEW t \in TableTypes, t.rows # <<>>, NEW more \in RowCells
  PROVE  LET n == Len(t.rows)
             u == AddCells(t, more)
         IN /\ u \in TableTypes /\ u.rows # <<>>
            /\ n \in Nat \ {0} /\ Len(u.rows) = n
            /\ \A r \in 1..n : r # n => u.rows[r] = t.rows[r]
            /\ t.rows[n].cells \in RowCells
            /\ u.rows[n].cells = t.rows[n].cells \o more
<1> DEFINE n == Len(t.rows)
           cells == t.rows[n].cells \o more
           u == [t EXCEPT !.rows[n].cells = cells]
<1>1. t.rows \in Seq(TableRows) /\ n \in Nat \ {0}
  BY EmptySeq DEF TableTypes
<1>2. n \in 1..Len(t.rows) /\ t.rows[n] \in TableRows
  BY <1>1, ElementOfSeq
<1>3. t.rows[n].cells \in RowCells
  BY <1>2 DEF TableRows
<1>4. cells \in RowCells
  BY <1>3, ConcatProperties DEF RowCells
<1>5. AddCells(t, more) = u
  BY DEF AddCells
<1> HIDE DEF cells
<1>6. /\ u \in TableTypes /\ u.rows # <<>> /\ Len(u.rows) = n
      /\ \A r \in 1..n : r # n => u.rows[r] = t.rows[r]
      /\ u.rows[n].cells = cells
  BY <1>4, CellsReplaced
<1> QED BY <1>1, <1>3, <1>5, <1>6 DEF cells

\* add() for one cell.
LEMMA CellAdded ==
  ASSUME NEW t \in TableTypes, t.rows # <<>>, NEW cell \in Titles \X Int
  PROVE  LET n == Len(t.rows)
             u == AddCell(t, cell)
         IN /\ u \in TableTypes /\ u.rows # <<>>
            /\ n \in Nat \ {0} /\ Len(u.rows) = n
            /\ \A r \in 1..n : r # n => u.rows[r] = t.rows[r]
            /\ t.rows[n].cells \in RowCells
            /\ u.rows[n].cells = Append(t.rows[n].cells, cell)
<1> DEFINE n == Len(t.rows)
           cells == Append(t.rows[n].cells, cell)
           u == [t EXCEPT !.rows[n].cells = cells]
<1>1. t.rows \in Seq(TableRows) /\ n \in Nat \ {0}
  BY EmptySeq DEF TableTypes
<1>2. n \in 1..Len(t.rows) /\ t.rows[n] \in TableRows
  BY <1>1, ElementOfSeq
<1>3. t.rows[n].cells \in RowCells
  BY <1>2 DEF TableRows
<1>4. cells \in RowCells
  BY <1>3, AppendProperties DEF RowCells
<1>5. AddCell(t, cell) = u
  BY DEF AddCell
<1> HIDE DEF cells
<1>6. /\ u \in TableTypes /\ u.rows # <<>> /\ Len(u.rows) = n
      /\ \A r \in 1..n : r # n => u.rows[r] = t.rows[r]
      /\ u.rows[n].cells = cells
  BY <1>4, CellsReplaced
<1> QED BY <1>1, <1>3, <1>5, <1>6 DEF cells

\* A row that begins with some cells.
LEMMA RowBegun ==
  ASSUME NEW t \in TableTypes, NEW cells \in RowCells
  PROVE  LET u == AddCells(StartRow(t), cells)
         IN /\ u \in TableTypes /\ u.rows # <<>>
            /\ Len(t.rows) \in Nat /\ Len(u.rows) = Len(t.rows) + 1
            /\ \A r \in 1..Len(t.rows) : u.rows[r] = t.rows[r]
            /\ u.rows[Len(u.rows)].cells = cells
<1> DEFINE new == [delimiter |-> FALSE, cells |-> <<>>]
           s == StartRow(t)
           u == AddCells(s, cells)
<1>1. new \in TableRows /\ new.cells = <<>>
  BY EmptySeq DEF TableRows, RowCells
<1>2. s = [t EXCEPT !.rows = Append(@, new)]
  BY DEF StartRow
<1> HIDE DEF new, s
<1>21. t \in TableTypes
  OBVIOUS
<1>3. /\ s \in TableTypes /\ s.rows # <<>>
      /\ Len(t.rows) \in Nat /\ Len(s.rows) = Len(t.rows) + 1
      /\ \A r \in 1..Len(t.rows) : s.rows[r] = t.rows[r]
      /\ s.rows[Len(s.rows)] = new
  BY ONLY <1>1, <1>2, <1>21, RowAdded
<1>4. /\ u \in TableTypes /\ u.rows # <<>> /\ Len(u.rows) = Len(s.rows)
      /\ \A r \in 1..Len(s.rows) : r # Len(s.rows) => u.rows[r] = s.rows[r]
      /\ u.rows[Len(s.rows)].cells = s.rows[Len(s.rows)].cells \o cells
  BY <1>3, CellsAdded
<1> HIDE DEF u
<1>5. s.rows[Len(s.rows)].cells \o cells = cells
  BY <1>1, <1>3, ConcatEmptySeq DEF RowCells
<1>6. \A r \in 1..Len(t.rows) : u.rows[r] = t.rows[r]
  BY <1>3, <1>4
<1> QED BY <1>3, <1>4, <1>5, <1>6 DEF u, s

-----------------------------------------------------------------------------
(***************************************************************************)
(* The world and the types.                                                *)
(***************************************************************************)
\* A pid that is free stays so as long as pids are not reused.
LEMMA GoneStays ==
  ASSUME ProcTypeOK, ProcNext, ~reused', NEW p \in Pids, p <= lastPid, ~Exists(p)
  PROVE  ~Exists(p)'
<1>1. ASSUME NEW q \in Pids, NEW c \in Pids, Fork(q, c)
      PROVE  ~Exists(p)'
  <2>1. c # p
    <3>1. ~(c <= lastPid)
      BY <1>1 DEF Fork
    <3> QED BY <3>1
  <2> QED BY <1>1, <2>1, ForkAddsOne
<1>2. ASSUME NEW q \in Pids,
             \/ \E image \in Images : Exec(q, image)
             \/ Exit(q) \/ Reap(q) \/ SetFifo(q)
      PROVE  ~Exists(p)'
  BY <1>2, OthersAddNone
<1> QED BY <1>1, <1>2 DEF ProcNext

\* The invariant holds when the tool starts.
LEMMA InitInv == Init => Inv
<1> SUFFICES ASSUME Init PROVE Inv
  OBVIOUS
<1>1. WorldInv
  <2>1. ProcTypeOK /\ Live(InitPid)
    BY ProcStart DEF Init
  <2> QED BY <2>1 DEF Init, ProcInit, WorldInv
<1>2. ToolInv
  <2>1. EmptyTable \in TableTypes
    BY EmptySeq DEF EmptyTable, TableTypes, Absent
  <2>2. <<>> \in Seq(Pids) /\ Len(<<>>) = 0
    BY EmptySeq
  <2>3. threads \in 0..MaxThreads
    BY B2GInfoAssumption DEF Init
  <2> QED BY <2>1, <2>2, <2>3 DEF Init, ToolInv, NoCode, InRow, AfterRows, Listing, Showing
<1>3. ListInv /\ PrintedInv /\ LastInv /\ MemInv
  BY EmptySeq DEF Init, ListInv, ListKnown, PrintedInv, LastInv, MemInv, InRow, AfterRows,
     NoCode
<1>4. StoryInv
  <2>1. Len(table.rows) = 0
    BY EmptySeq DEF Init, EmptyTable
  <2> QED BY <2>1 DEF StoryInv, TitledRows, Stories
<1> QED BY <1>1, <1>2, <1>3, <1>4 DEF Inv

\* Whatever runs beside the tool keeps the process table in order.
LEMMA WorldStep ==
  ASSUME Inv, [Next]_vars
  PROVE  WorldInv'
<1>1. CASE UNCHANGED world
  BY <1>1 DEF Inv, WorldInv, world, procVars, ProcTypeOK, Live, Exists
<1>2. CASE BeginLook
  <2>1. UNCHANGED procVars /\ steady' = Family /\ seen' = Family
    BY <1>2 DEF BeginLook
  <2>2. \A p \in Family : p \in Pids /\ Exists(p)
    BY DEF Family, Exists, B2GExes
  <2>3. \A p \in seen' : p \in Pids /\ p <= lastPid
    BY <2>1, <2>2 DEF Inv, WorldInv
  <2> QED BY <2>1, <2>2, <2>3 DEF Inv, WorldInv, procVars, ProcTypeOK, Live, Exists
<1>3. CASE World
  <2>1. ProcNext /\ steady' \subseteq steady \cup Family' /\ seen' \subseteq seen \cup Family'
    BY <1>3 DEF World
  <2>2. ProcTypeOK' /\ Live(InitPid)'
    BY <2>1, ProcStep DEF Inv, WorldInv
  <2>3. (\A p \in Pids : Exists(p)' => p <= lastPid') /\ lastPid <= lastPid'
    BY <2>1, PidsBounded DEF Inv, WorldInv
  <2>4. \A p \in Family' : p \in Pids /\ Exists(p)'
    BY DEF Family, Exists, B2GExes
  <2>5. ASSUME NEW p \in seen'
        PROVE  p <= lastPid'
    <3>1. CASE p \in Family'
      BY <2>3, <2>4, <3>1
    <3>2. CASE p \in seen
      <4>1. p \in Int /\ lastPid \in Int /\ lastPid' \in Int /\ p <= lastPid
        BY <2>2, <3>2 DEF Inv, WorldInv, ProcTypeOK, Pids
      <4> QED BY <2>3, <4>1
    <3> QED BY <2>1, <3>1, <3>2
  <2>6. steady' \subseteq Pids /\ seen' \subseteq Pids
    BY <2>1, <2>4 DEF Inv, WorldInv
  <2> QED BY <2>2, <2>3, <2>5, <2>6 DEF WorldInv
<1>4. World \/ BeginLook \/ UNCHANGED world
  BY DEF Next, Step, BadUsage, Help, ExitWith, Begin, LookFails, Found, PrintPids,
         ShowThread, EndThreads, NextRow, EndRows, Abort, PrintTable, MeminfoFails,
         BeginSum, EndSum, PrintLmk, ProcessRow, BeginRow, ReadSmaps, ReadOomAdj,
         ReadUser, ReadTasks, AddPss, vars
<1> QED BY <1>1, <1>2, <1>3, <1>4

\* The process whose row is made.
LEMMA RowTypes ==
  ASSUME Inv, row <= Len(list)
  PROVE  /\ Len(list) \in Nat /\ row \in 1..Len(list)
         /\ list[row] \in Pids /\ list[row] \in seen /\ list[row] <= lastPid
<1>1. Len(list) \in Nat /\ row \in 1..Len(list)
  BY LenProperties DEF Inv, ToolInv
<1> QED BY <1>1, ElementOfSeq DEF Inv, ToolInv, ListInv, WorldInv

\* A list that is found.
LEMMA OrderTypes ==
  ASSUME Inv, NEW found \in Answers, NEW main \in found,
         NEW l \in Ordered(main, found)
  PROVE  /\ l \in Seq(Pids) /\ l # <<>> /\ Len(l) \in Nat
         /\ \A j, k \in 1..Len(l) : l[j] = l[k] => j = k
         /\ \A j \in 1..Len(l) : l[j] \in seen
         /\ \A p \in found : \E j \in 1..Len(l) : l[j] = p
<1> DEFINE n == Cardinality(found)
<1>1. found \subseteq seen /\ seen \subseteq Pids
  BY DEF Answers, Inv, WorldInv
<1>2. IsFiniteSet(Pids)
  BY ProcFSAssumption, FS_Interval DEF Pids
<1>3. found \in SUBSET Pids /\ IsFiniteSet(found)
  BY <1>1, <1>2, FS_Subset
<1>4. n \in Nat /\ n # 0
  BY <1>3, FS_CardinalityType, FS_EmptySet
<1> HIDE DEF n
<1>5. l \in [1..n -> found] /\ l[1] = main
      /\ \A j \in 2..n : l[j] # main /\ \A k \in 2..j - 1 : l[k] < l[j]
  BY DEF Ordered, n
<1>6. l \in Seq(Pids) /\ Len(l) = n /\ DOMAIN l = 1..n
  BY <1>1, <1>4, <1>5
<1>7. ASSUME NEW j \in 1..n, NEW k \in 1..n, k < j
      PROVE  l[j] # l[k]
  <2>1. l[j] \in Int /\ l[k] \in Int
    <3>1. l[j] \in found /\ l[k] \in found
      BY <1>5
    <3>2. \A p \in Pids : p \in Int
      BY ProcFSAssumption DEF Pids
    <3> QED BY <1>1, <3>1, <3>2
  <2>2. j \in 2..n
    BY <1>4, <1>7
  <2>3. CASE k = 1
    BY <1>5, <2>2, <2>3
  <2>4. CASE k # 1
    <3>1. k \in 2..j - 1
      BY <1>4, <1>7, <2>4
    <3>2. l[k] < l[j]
      BY <1>5, <2>2, <3>1
    <3> QED BY <2>1, <3>2
  <2> QED BY <2>3, <2>4
<1>8. \A j, k \in 1..n : l[j] = l[k] => j = k
  <2>1. \A j, k \in 1..n : j = k \/ j < k \/ k < j
    BY <1>4
  <2> QED BY <1>7, <2>1
<1>9. \A p \in found : \E j \in 1..n : l[j] = p
  <2> DEFINE image == {l[j] : j \in 1..n}
  <2>1. image \in SUBSET found
    BY <1>5
  <2>2. l \in Bijection(1..n, image)
    BY <1>5, <1>8 DEF Bijection, Injection, Surjection, IsInjective
  <2>3. IsFiniteSet(1..n) /\ Cardinality(1..n) = n
    <3>1. IsFiniteSet(1..n) /\ Cardinality(1..n) = IF 1 > n THEN 0 ELSE n - 1 + 1
      BY <1>4, FS_Interval
    <3> QED BY <1>4, <3>1
  <2>4. ExistsBijection(1..n, image)
    BY <2>2 DEF ExistsBijection
  <2>5. Cardinality(image) = n
    BY <2>3, <2>4, FS_Bijection
  <2>6. image = found
    BY <1>3, <2>1, <2>5, FS_Subset DEF n
  <2> QED BY <2>6
<1>10. l # <<>>
  BY <1>4, <1>6
<1> QED BY <1>1, <1>4, <1>5, <1>6, <1>8, <1>9, <1>10

\* What Smaps() and the cache give.
LEMMA PssTypes ==
  ASSUME Inv, NEW p \in Pids, NEW kb \in Pss(p)
  PROVE  kb \in Nat \cup {Unknown} /\ kb \in Int
<1>1. PssOf[p] \in Nat /\ pss[p] \in Nat \cup {Unknown}
  BY B2GInfoAssumption DEF Inv, ToolInv
<1> QED BY <1>1 DEF Pss, Smaps, Unknown

\* The headings of a row, and the cells that the rows begin with.
LEMMA HeadingTypes ==
  ASSUME NEW id \in {"PID", "TID"}
  PROVE  [j \in 1..12 |-> <<Headings(id)[j], Heading>>] \in RowCells
<1> DEFINE cells == [j \in 1..12 |-> <<Headings(id)[j], Heading>>]
<1>1. \A j \in 1..12 : Headings(id)[j] \in Titles
  <2>1. \A j \in 1..12 : j = 1 \/ j = 2 \/ j = 3 \/ j = 4 \/ j = 5 \/ j = 6 \/ j = 7
                          \/ j = 8 \/ j = 9 \/ j = 10 \/ j = 11 \/ j = 12
    OBVIOUS
  <2> QED BY <2>1 DEF Headings, Titles
<1>2. Heading \in Int
  BY DEF Heading
<1>3. \A j \in 1..12 : <<Headings(id)[j], Heading>> \in Titles \X Int
  BY <1>1, <1>2
<1>4. cells \in [1..12 -> Titles \X Int]
  BY <1>3
<1> QED BY <1>4 DEF RowCells

\* The cells of a row that are written at once.
LEMMA ThreeCells ==
  ASSUME NEW S, NEW a \in S, NEW b \in S, NEW c \in S
  PROVE  <<a, b, c>> \in Seq(S) /\ Len(<<a, b, c>>) = 3
OBVIOUS

\* Five elements make a sequence of five.
LEMMA FiveCells ==
  ASSUME NEW S, NEW a \in S, NEW b \in S, NEW c \in S, NEW d \in S, NEW e \in S
  PROVE  <<a, b, c, d, e>> \in Seq(S) /\ Len(<<a, b, c, d, e>>) = 5
OBVIOUS

\* Every step leaves a table of rows of cells.
LEMMA TableStep ==
  ASSUME Inv, [Next]_vars
  PROVE  table' \in TableTypes
<1> USE DEF Inv, ToolInv
<1>1. Header \in TableTypes
  <2>1. Header = [rows |-> <<>>, label |-> 9, start |-> 3, end |-> 7]
    BY DEF Header, MultiColHeader, EmptyTable
  <2> QED BY <2>1, EmptySeq DEF TableTypes
<1>2. ASSUME NEW t \in TableTypes, NEW id \in {"PID", "TID"}
      PROVE  AddHeadings(t, id) \in TableTypes
  BY HeadingTypes, RowBegun DEF AddHeadings
<1>3. CASE Begin
  BY <1>1, <1>2, <1>3 DEF Begin
<1>4. ASSUME NEW p \in Pids, BeginRow(p)
      PROVE  table' \in TableTypes
  <2>0. /\ \A v \in {Known, p} : v \in Int
        /\ \A h \in Titles : <<h, Known>> \in Titles \X Int
        /\ <<"PID", p>> \in Titles \X Int /\ <<"TID", p>> \in Titles \X Int
        /\ {"NAME", "PPID", "CPU(s)", "NICE"} \subseteq Titles
    BY DEF Known, Pids, Titles
  <2>1. << <<"NAME", Known>>, <<"PID", p>>, <<"PPID", Known>>,
           <<"CPU(s)", Known>>, <<"NICE", Known>> >> \in RowCells
    BY <2>0, FiveCells DEF RowCells
  <2>2. << <<"NAME", Known>>, <<"TID", p>>, <<"PPID", Known>>,
           <<"CPU(s)", Known>>, <<"NICE", Known>> >> \in RowCells
    BY <2>0, FiveCells DEF RowCells
  <2> QED BY <1>2, <1>4, <2>1, <2>2, RowBegun DEF BeginRow
<1>5. CASE UNCHANGED table
  BY <1>5
<1>6. CASE ShowThread
  <2>1. << <<"NAME", Known>>, <<"TID", Known>>, <<"NICE", Known>> >> \in RowCells
    <3>1. /\ <<"NAME", Known>> \in Titles \X Int /\ <<"TID", Known>> \in Titles \X Int
          /\ <<"NICE", Known>> \in Titles \X Int
      BY DEF Known, Titles
    <3> QED BY <3>1, ThreeCells DEF RowCells
  <2> QED BY <1>6, <2>1, RowBegun DEF ShowThread
<1>7. CASE EndThreads
  <2>1. [delimiter |-> TRUE, cells |-> <<>>] \in TableRows
    BY EmptySeq DEF TableRows, RowCells
  <2>2. AddDelimiter(table) \in TableTypes
    BY <2>1, RowAdded DEF AddDelimiter
  <2> QED BY <1>7, <2>2 DEF EndThreads
<1>8. ASSUME NEW p \in Pids, ReadSmaps(p)
      PROVE  table' \in TableTypes
  <2>1. PICK kb \in Pss(p) :
          table' = AddCells(table,
                     << <<"USS", Shown(kb # Unknown)>>, <<"PSS", kb>>,
                        <<"RSS", Shown(kb # Unknown)>>, <<"SWAP", Shown(kb # Unknown)>>,
                        <<"VSIZE", Shown(kb # Unknown)>> >>)
    BY <1>8 DEF ReadSmaps
  <2>2. kb \in Int /\ Shown(kb # Unknown) \in Int
    BY PssTypes DEF Shown, Known, Unknown
  <2>3. table.rows # <<>>
    BY <1>8 DEF ReadSmaps, LastInv, Partial
  <2>4. << <<"USS", Shown(kb # Unknown)>>, <<"PSS", kb>>,
           <<"RSS", Shown(kb # Unknown)>>, <<"SWAP", Shown(kb # Unknown)>>,
           <<"VSIZE", Shown(kb # Unknown)>> >> \in RowCells
    <3> DEFINE got == Shown(kb # Unknown)
    <3>1. /\ <<"USS", got>> \in Titles \X Int /\ <<"PSS", kb>> \in Titles \X Int
          /\ <<"RSS", got>> \in Titles \X Int /\ <<"SWAP", got>> \in Titles \X Int
          /\ <<"VSIZE", got>> \in Titles \X Int
      BY <2>2 DEF Titles
    <3> HIDE DEF got
    <3> QED BY <3>1, FiveCells DEF RowCells, got
  <2> QED BY <2>1, <2>3, <2>4, CellsAdded
<1>9. ASSUME NEW p \in Pids, ReadOomAdj(p) \/ ReadUser(p)
      PROVE  table' \in TableTypes
  <2>1. table.rows # <<>>
    BY <1>9 DEF ReadOomAdj, ReadUser, LastInv, Partial
  <2>2. <<"OOM_ADJ", IntFile(p)>> \in Titles \X Int
        /\ <<"USER", Shown(Exists(p))>> \in Titles \X Int
    BY DEF IntFile, Shown, Known, Unknown, Titles
  <2> QED BY <1>9, <2>1, <2>2, CellAdded DEF ReadOomAdj, ReadUser
<1>10. \/ UNCHANGED table \/ Begin \/ ShowThread \/ EndThreads
       \/ \E p \in Pids : BeginRow(p) \/ ReadSmaps(p) \/ ReadOomAdj(p) \/ ReadUser(p)
  BY DEF Next, Step, World, BadUsage, Help, ExitWith, BeginLook, LookFails, Found,
         PrintPids, NextRow, EndRows, Abort, PrintTable, MeminfoFails, BeginSum,
         EndSum, PrintLmk, ProcessRow, ReadTasks, AddPss, vars, toolVars
<1> QED BY <1>3, <1>4, <1>5, <1>6, <1>7, <1>8, <1>9, <1>10

\* The steps that leave the lists alone.
LEMMA ListTypes ==
  ASSUME Inv, [Next]_vars
  PROVE  list' \in Seq(Pids) /\ printed' \in Seq(Pids)
<1> USE DEF Inv, ToolInv
<1>1. CASE Found
  <2>1. list' \in Seq(Pids) /\ printed' = printed
    <3>1. CASE list' = <<>>
      BY <1>1, <3>1, EmptySeq DEF Found
    <3>2. CASE \E found \in Answers : \E main \in found : list' \in Ordered(main, found)
      BY <1>1, <3>2, OrderTypes DEF Found
    <3> QED BY <1>1, <3>1, <3>2 DEF Found
  <2> QED BY <2>1
<1>2. CASE PrintPids
  <2>1. option \in Listing /\ list # <<>> /\ list' = list
    BY <1>2 DEF PrintPids, ListInv, ListKnown
  <2>2. Head(list) \in Pids /\ Tail(list) \in Seq(Pids)
    BY <2>1, HeadTailProperties
  <2>3. <<Head(list)>> \in Seq(Pids)
    BY <2>2
  <2> QED BY <1>2, <2>1, <2>2, <2>3 DEF PrintPids, Listing
<1>3. ASSUME NEW p \in Pids, BeginRow(p)
      PROVE  list' \in Seq(Pids) /\ printed' \in Seq(Pids)
  BY <1>3, AppendProperties DEF BeginRow
<1>4. CASE UNCHANGED <<list, printed>>
  BY <1>4
<1>5. \/ UNCHANGED <<list, printed>> \/ Found \/ PrintPids \/ \E p \in Pids : BeginRow(p)
  BY DEF Next, Step, World, BadUsage, Help, ExitWith, Begin, BeginLook, LookFails,
         ShowThread, EndThreads, NextRow, EndRows, Abort, PrintTable, MeminfoFails,
         BeginSum, EndSum, PrintLmk, ProcessRow, ReadSmaps, ReadOomAdj, ReadUser,
         ReadTasks, AddPss, vars, toolVars
<1> QED BY <1>1, <1>2, <1>3, <1>4, <1>5

\* The sizes, the threads and the sum stay in range.
LEMMA MemTypes ==
  ASSUME Inv, [Next]_vars
  PROVE  /\ gotMem' \subseteq Pids /\ pss' \in [Pids -> Nat \cup {Unknown}]
         /\ threads' \in 0..MaxThreads /\ total' \in Int
<1> USE DEF Inv, ToolInv
<1>1. ASSUME NEW p \in Pids, ReadSmaps(p) \/ AddPss(p)
      PROVE  /\ gotMem' \subseteq Pids /\ pss' \in [Pids -> Nat \cup {Unknown}]
             /\ threads' = threads /\ total' \in Int
  <2>1. PICK kb \in Pss(p) : pss' = [pss EXCEPT ![p] = kb] /\ total' \in {total, total + kb}
    BY <1>1 DEF ReadSmaps, AddPss
  <2>2. kb \in Nat \cup {Unknown} /\ kb \in Int
    BY PssTypes
  <2>3. total' \in Int
    BY <2>1, <2>2
  <2>4. pss' \in [Pids -> Nat \cup {Unknown}]
    BY <2>1, <2>2
  <2>5. gotMem' = gotMem \cup {p} /\ threads' = threads
    BY <1>1 DEF ReadSmaps, AddPss
  <2> QED BY <2>3, <2>4, <2>5
<1>2. ASSUME NEW p \in Pids, ReadTasks(p)
      PROVE  /\ gotMem' \subseteq Pids /\ pss' \in [Pids -> Nat \cup {Unknown}]
             /\ threads' \in 0..MaxThreads /\ total' \in Int
  BY <1>2, B2GInfoAssumption DEF ReadTasks, OtherThreads
<1>3. CASE ShowThread
  BY <1>3, B2GInfoAssumption DEF ShowThread
<1>4. CASE UNCHANGED <<gotMem, pss, threads, total>>
  BY <1>4
<1>5. \/ UNCHANGED <<gotMem, pss, threads, total>> \/ ShowThread
      \/ \E p \in Pids : ReadSmaps(p) \/ AddPss(p) \/ ReadTasks(p)
  BY DEF Next, Step, World, BadUsage, Help, ExitWith, Begin, BeginLook, LookFails, Found,
         PrintPids, EndThreads, NextRow, EndRows, Abort, PrintTable, MeminfoFails,
         BeginSum, EndSum, PrintLmk, ProcessRow, BeginRow, ReadOomAdj, ReadUser, vars,
         toolVars
<1> QED BY <1>1, <1>2, <1>3, <1>4, <1>5

\* The loop over the processes stays within the list.
LEMMA RowStep ==
  ASSUME Inv, [Next]_vars
  PROVE  /\ row' \in 1..Len(list') + 1
         /\ pc' \in InRow => row' <= Len(list')
<1>0. Len(list) \in Nat /\ row \in 1..Len(list) + 1 /\ (pc \in InRow => row <= Len(list))
  BY LenProperties DEF Inv, ToolInv
<1>1. CASE Found
  <2>1. row' = row /\ row = 1 /\ Len(list') \in Nat /\ pc' \notin InRow
    BY <1>1, ListTypes, LenProperties DEF Found, Goto, Inv, ToolInv, InRow
  <2> QED BY <2>1
<1>2. CASE NextRow
  <2>1. row' = row + 1 /\ list' = list /\ pc' \notin InRow /\ row <= Len(list)
    BY <1>0, <1>2 DEF NextRow, Goto, InRow
  <2> QED BY <1>0, <2>1
<1>3. CASE BeginSum
  <2>1. row' = 1 /\ list' = list /\ pc' \notin InRow
    BY <1>3 DEF BeginSum, Goto, InRow
  <2> QED BY <1>0, <2>1
<1>4. ASSUME NEW p \in Pids, AddPss(p)
      PROVE  /\ row' \in 1..Len(list') + 1
             /\ pc' \in InRow => row' <= Len(list')
  <2>1. row' = row + 1 /\ list' = list /\ pc' \notin InRow /\ row <= Len(list)
    BY <1>4 DEF AddPss, Goto, InRow
  <2> QED BY <1>0, <2>1
<1>5. CASE UNCHANGED <<row, list>> /\ (pc' \in InRow => pc \in InRow)
  BY <1>0, <1>5
<1>6. ASSUME NEW p \in Pids, BeginRow(p)
      PROVE  row' = row /\ list' = list /\ row <= Len(list)
  BY <1>6 DEF BeginRow, MoreRows
<1>7. \/ UNCHANGED <<row, list>> /\ (pc' \in InRow => pc \in InRow)
      \/ Found \/ NextRow \/ BeginSum \/ \E p \in Pids : BeginRow(p) \/ AddPss(p)
  BY DEF Next, Step, World, BadUsage, Help, ExitWith, Begin, BeginLook, LookFails,
         PrintPids, ShowThread, EndThreads, EndRows, Abort, PrintTable, MeminfoFails,
         EndSum, PrintLmk, ProcessRow, ReadSmaps, ReadOomAdj, ReadUser, ReadTasks, vars,
         toolVars, Goto, InRow
<1> QED BY <1>0, <1>1, <1>2, <1>3, <1>4, <1>5, <1>6, <1>7

\* The order of the program.
LEMMA PcStep ==
  ASSUME Inv, [Next]_vars
  PROVE  /\ option' \in Options
         /\ pc' \in InRow \cup AfterRows \cup {"start", "find", "look", "pids", "row", "exited"}
         /\ code' \in {NoCode, 0, 1, 2, Aborted} /\ (pc' # "exited" => code' = NoCode)
         /\ pc' \in {"start", "find", "look"} => list' = <<>> /\ row' = 1 /\ printed' = <<>>
         /\ pc' \in {"find", "look"} => option' \in Listing \cup Showing
         /\ pc' = "pids" => option' \in Listing
         /\ pc' \in InRow \cup AfterRows \cup {"row"} => option' \in Showing
<1> USE DEF Inv, ToolInv, InRow, AfterRows
<1>1. CASE UNCHANGED vars \/ World
  BY <1>1 DEF World, vars, toolVars
<1>2. CASE \/ BadUsage \/ Help \/ LookFails \/ PrintPids \/ Abort \/ PrintLmk
  BY <1>2 DEF BadUsage, Help, LookFails, PrintPids, Abort, PrintLmk, ExitWith
<1>3. CASE Begin \/ BeginLook
  BY <1>3 DEF Begin, BeginLook, Goto
<1>4. CASE Found
  BY <1>4 DEF Found, Goto
<1>5. CASE ShowThread \/ EndThreads \/ NextRow \/ EndRows
  BY <1>5 DEF ShowThread, EndThreads, NextRow, EndRows, Goto
<1>6. CASE PrintTable \/ MeminfoFails \/ BeginSum \/ EndSum
  BY <1>6 DEF PrintTable, MeminfoFails, BeginSum, EndSum, Goto
<1>7. ASSUME NEW p \in Pids, BeginRow(p) \/ ReadSmaps(p) \/ ReadOomAdj(p)
      PROVE  option' = option /\ code' = code
             /\ pc \in {"row", "smaps", "oom"} /\ pc' \in {"smaps", "oom", "user"}
  BY <1>7 DEF BeginRow, ReadSmaps, ReadOomAdj, Goto
<1>8. ASSUME NEW p \in Pids, ReadUser(p) \/ ReadTasks(p)
      PROVE  option' = option /\ code' = code
             /\ pc \in {"user", "tasks"} /\ pc' \in {"tasks", "next", "thread"}
  BY <1>8 DEF ReadUser, ReadTasks, AfterTasks, Goto
<1>9. ASSUME NEW p \in Pids, AddPss(p)
      PROVE  option' = option /\ code' = code /\ pc = "sum" /\ pc' = "sum"
  BY <1>9 DEF AddPss, Goto
<1> QED BY <1>1, <1>2, <1>3, <1>4, <1>5, <1>6, <1>7, <1>8, <1>9
        DEF Next, Step, ProcessRow

\* Every step keeps the types of the tool.
LEMMA ToolStep ==
  ASSUME Inv, [Next]_vars
  PROVE  ToolInv'
BY PcStep, RowStep, ListTypes, MemTypes, TableStep DEF ToolInv

-----------------------------------------------------------------------------
(***************************************************************************)
(* The list, and what is printed of it.                                    *)
(***************************************************************************)
\* A step that looks up nobody.
LEMMA ListKept ==
  ASSUME Inv, UNCHANGED <<option, list>>,
         \A p \in seen : p \in seen',
         ListKnown' => ListKnown /\ steady' = steady
  PROVE  ListInv'
<1>1. option' = option /\ list' = list
  OBVIOUS
<1>2. /\ \A j, k \in 1..Len(list') : list'[j] = list'[k] => j = k
      /\ \A j \in 1..Len(list') : list'[j] \in seen'
  BY <1>1 DEF Inv, ListInv
<1>3. ListKnown' /\ IsRoot => \A p \in steady' : \E j \in 1..Len(list') : list'[j] = p
  BY <1>1 DEF Inv, ListInv
<1>4. ListKnown' /\ option' \in Listing => list' # <<>>
  BY <1>1 DEF Inv, ListInv
<1> QED BY <1>2, <1>3, <1>4 DEF ListInv

\* The list is one regular answer, and stays the same once it is there.
LEMMA ListStep ==
  ASSUME Inv, [Next]_vars
  PROVE  ListInv'
<1>1. CASE BeginLook
  <2>1. list' = <<>> /\ Len(<<>>) = 0
    BY <1>1, EmptySeq DEF BeginLook, Inv, ToolInv
  <2>2. ~ListKnown'
    BY <1>1 DEF BeginLook, Goto, ListKnown, Inv, ToolInv, NoCode, InRow, AfterRows
  <2> QED BY <2>1, <2>2 DEF ListInv
<1>2. CASE Found
  <2>1. steady' = steady /\ seen' = seen /\ option' = option
    BY <1>2 DEF Found, Goto, world
  <2>2. CASE option \in Showing /\ list' = <<>> /\ (IsRoot => steady = {})
    <3>1. Len(<<>>) = 0
      BY EmptySeq
    <3>2. option' \notin Listing
      BY <2>1, <2>2 DEF Listing, Showing
    <3> QED BY <2>1, <2>2, <3>1, <3>2 DEF ListInv
  <2>3. CASE \E found \in Answers : \E main \in found : list' \in Ordered(main, found)
    <3>0. PICK found \in Answers : \E main \in found : list' \in Ordered(main, found)
      BY <2>3
    <3>1. PICK main \in found : list' \in Ordered(main, found)
      BY <3>0
    <3>2. /\ list' # <<>>
          /\ \A j, k \in 1..Len(list') : list'[j] = list'[k] => j = k
          /\ \A j \in 1..Len(list') : list'[j] \in seen
          /\ \A p \in found : \E j \in 1..Len(list') : list'[j] = p
      BY <3>1, OrderTypes
    <3>3. IsRoot => steady \subseteq found
      BY <3>1 DEF Answers
    <3> QED BY <2>1, <3>2, <3>3 DEF ListInv
  <2>4. (\E found \in Answers : found = {} /\ option \in Showing /\ list' = <<>>)
        \/ \E found \in Answers : \E main \in found : list' \in Ordered(main, found)
    BY <1>2 DEF Found
  <2>5. (\E found \in Answers : found = {}) /\ IsRoot => steady = {}
    BY DEF Answers
  <2> QED BY <2>2, <2>3, <2>4, <2>5
<1>3. CASE World
  <2>1. UNCHANGED toolVars /\ \A p \in seen : p \in seen'
    BY <1>3 DEF World
  <2>2. ListKnown' => ListKnown /\ steady' = steady
    <3>1. CASE pc = "look"
      BY <2>1, <3>1 DEF toolVars, ListKnown, InRow, AfterRows, Inv, ToolInv, NoCode
    <3>2. CASE pc # "look"
      BY <1>3, <2>1, <3>2 DEF World, toolVars, ListKnown
    <3> QED BY <3>1, <3>2
  <2> QED BY <2>1, <2>2, ListKept DEF toolVars
<1>4. CASE /\ UNCHANGED <<world, option, list>>
           /\ ListKnown' => ListKnown
  BY <1>4, ListKept DEF world
<1>5. ASSUME BadUsage \/ Help \/ LookFails \/ PrintPids \/ Abort \/ PrintLmk
      PROVE  UNCHANGED <<world, option, list>> /\ (ListKnown' => ListKnown)
  BY <1>5 DEF BadUsage, Help, LookFails, PrintPids, Abort, PrintLmk, ExitWith,
              ListKnown, InRow, AfterRows, Listing, Showing, Aborted, NoCode
<1>6. ASSUME Begin
      PROVE  UNCHANGED <<world, option, list>> /\ (ListKnown' => ListKnown)
  BY <1>6 DEF Begin, Goto, ListKnown, InRow, AfterRows, Inv, ToolInv, NoCode
<1>7. ASSUME \/ ShowThread \/ EndThreads \/ NextRow \/ EndRows \/ PrintTable
             \/ MeminfoFails \/ BeginSum \/ EndSum
      PROVE  UNCHANGED <<world, option, list>> /\ (ListKnown' => ListKnown)
  BY <1>7 DEF ShowThread, EndThreads, NextRow, EndRows, PrintTable, MeminfoFails, BeginSum,
              EndSum, Goto, ListKnown, InRow, AfterRows
<1>8. ASSUME NEW p \in Pids, BeginRow(p) \/ ReadSmaps(p) \/ ReadOomAdj(p)
      PROVE  UNCHANGED <<world, option, list>> /\ (ListKnown' => ListKnown)
  BY <1>8 DEF BeginRow, ReadSmaps, ReadOomAdj, Goto, ListKnown, InRow
<1>9. ASSUME NEW p \in Pids, ReadUser(p) \/ ReadTasks(p) \/ AddPss(p)
      PROVE  UNCHANGED <<world, option, list>> /\ (ListKnown' => ListKnown)
  BY <1>9 DEF ReadUser, ReadTasks, AddPss, Goto, ListKnown, InRow, AfterRows
<1>10. CASE UNCHANGED vars
  BY <1>4, <1>10 DEF vars, toolVars, ListKnown
<1> QED BY <1>1, <1>2, <1>3, <1>4, <1>5, <1>6, <1>7, <1>8, <1>9, <1>10
        DEF Next, Step, ProcessRow

\* A step that prints nothing and does not move in the list.
LEMMA PrintedKept ==
  ASSUME Inv, UNCHANGED <<option, list, row, printed>>,
         pc' = "row" => pc = "row",
         pc' \in InRow => pc \in InRow,
         pc' \in AfterRows \/ (code' = 0 /\ option \in Showing) =>
           pc \in AfterRows \/ (code = 0 /\ option \in Showing),
         code' = 0 /\ option \in Listing => code = 0
  PROVE  PrintedInv'
<1> USE DEF Inv, PrintedInv
<1>1. UNCHANGED <<option, list, row, printed>>
  OBVIOUS
<1>2. /\ option' \in Showing => /\ Len(printed') <= Len(list')
                                /\ \A j \in 1..Len(printed') : printed'[j] = list'[j]
      /\ pc' = "row" => Len(printed') = row' - 1
      /\ pc' \in InRow => Len(printed') = row'
  BY <1>1
<1>3. pc' \in AfterRows \/ (code' = 0 /\ option' \in Showing) => Len(printed') = Len(list')
  BY <1>1
<1>4. {"pids", "main", "child"} = Listing
  BY DEF Listing
<1>5. /\ code' = 0 /\ option' = "pids" => printed' = list'
      /\ code' = 0 /\ option' = "main" => printed' = <<Head(list')>>
      /\ code' = 0 /\ option' = "child" => printed' = Tail(list')
  BY <1>1, <1>4
<1> QED BY <1>2, <1>3, <1>5

\* The processes printed so far are the first of the list.
LEMMA PrintedStep ==
  ASSUME Inv, [Next]_vars
  PROVE  PrintedInv'
<1> USE DEF InRow, AfterRows
<1>0. /\ Len(list) \in Nat /\ row \in 1..Len(list) + 1 /\ (pc \in InRow => row <= Len(list))
      /\ Len(printed) \in Nat /\ (pc # "exited" => code = NoCode) /\ NoCode # 0
  BY LenProperties DEF Inv, ToolInv, NoCode
<1>1. ASSUME NEW p \in Pids, BeginRow(p)
      PROVE  PrintedInv'
  <2>1. /\ pc = "row" /\ row <= Len(list) /\ p = list[row] /\ pc' = "smaps" /\ code' = code
        /\ option' = option /\ list' = list /\ row' = row /\ printed' = Append(printed, p)
    BY <1>1 DEF BeginRow, MoreRows, Goto
  <2>2. option \in Showing /\ Len(printed) = row - 1 /\ code' # 0
        /\ printed \in Seq(Pids) /\ \A j \in 1..Len(printed) : printed[j] = list[j]
    BY <1>0, <2>1 DEF Inv, ToolInv, PrintedInv
  <2>3. /\ Len(printed') = Len(printed) + 1 /\ printed'[Len(printed) + 1] = p
        /\ \A j \in 1..Len(printed) : printed'[j] = printed[j]
    BY <2>1, <2>2, AppendProperties
  <2>4. Len(printed') = row
    BY <1>0, <2>2, <2>3
  <2>5. \A j \in 1..row : printed'[j] = list[j]
    <3>1. \A j \in 1..row : j \in 1..Len(printed) \/ j = Len(printed) + 1
      BY <1>0, <2>2
    <3>2. Len(printed) + 1 = row
      BY <1>0, <2>2
    <3> QED BY <2>1, <2>2, <2>3, <3>1, <3>2
  <2>6. \A j \in 1..Len(printed') : printed'[j] = list'[j]
    BY <2>1, <2>4, <2>5
  <2> QED BY <2>1, <2>2, <2>4, <2>6 DEF PrintedInv
<1>2. CASE NextRow
  <2>1. /\ pc = "next" /\ pc' = "row" /\ row' = row + 1 /\ code' # 0
        /\ UNCHANGED <<option, list, printed>>
    BY <1>0, <1>2 DEF NextRow, Goto
  <2>2. Len(printed) = row /\ row + 1 - 1 = row
    BY <1>0, <2>1 DEF Inv, PrintedInv
  <2> QED BY <2>1, <2>2 DEF Inv, PrintedInv
<1>3. CASE EndRows
  <2>1. /\ pc = "row" /\ pc' = "print" /\ code' # 0 /\ ~(row <= Len(list))
        /\ UNCHANGED <<option, list, row, printed>>
    BY <1>0, <1>3 DEF EndRows, MoreRows, Goto
  <2>2. Len(printed) = Len(list)
    BY <1>0, <2>1 DEF Inv, PrintedInv
  <2> QED BY <2>1, <2>2 DEF Inv, PrintedInv
<1>4. CASE PrintPids
  <2>1. /\ code' = 0 /\ pc' = "exited" /\ UNCHANGED <<option, list>> /\ option \in Listing
    BY <1>4 DEF PrintPids, Inv, ToolInv
  <2>2. option \notin Showing
    BY <2>1 DEF Listing, Showing
  <2> QED BY <1>4, <2>1, <2>2 DEF PrintPids, PrintedInv
<1>5. CASE Found
  <2>1. /\ printed' = <<>> /\ code' # 0 /\ pc' \in {"pids", "row"} /\ row' = 1
        /\ Len(<<>>) = 0
    BY <1>0, <1>5, EmptySeq DEF Found, Goto, Inv, ToolInv
  <2>2. Len(list') \in Nat
    BY ListTypes, LenProperties
  <2> QED BY <2>1, <2>2 DEF PrintedInv
<1>6. CASE BeginSum
  <2>1. /\ pc = "meminfo" /\ pc' = "sum" /\ code' # 0 /\ UNCHANGED <<option, list, printed>>
    BY <1>0, <1>6 DEF BeginSum, Goto
  <2> QED BY <2>1 DEF Inv, PrintedInv
<1>7. ASSUME NEW p \in Pids, AddPss(p)
      PROVE  PrintedInv'
  <2>1. /\ pc = "sum" /\ pc' = "sum" /\ code' # 0 /\ UNCHANGED <<option, list, printed>>
    BY <1>0, <1>7 DEF AddPss, Goto
  <2> QED BY <2>1 DEF Inv, PrintedInv
<1>8. CASE UNCHANGED vars \/ World
  <2>1. UNCHANGED <<option, list, row, printed, pc, code>>
    BY <1>8 DEF World, vars, toolVars
  <2> QED BY <2>1, PrintedKept
<1>9. CASE BadUsage \/ Help \/ LookFails \/ Abort \/ PrintLmk
  <2>1. /\ UNCHANGED <<option, list, row, printed>> /\ pc' = "exited"
        /\ code' = 0 => option = "help" \/ pc = "lmk"
        /\ code' = 0 => option \notin Listing
    BY <1>9 DEF BadUsage, Help, LookFails, Abort, PrintLmk, ExitWith, Aborted, Inv, ToolInv,
                Showing, Listing
  <2>2. "help" \notin Showing
    BY DEF Showing
  <2> QED BY <2>1, <2>2, PrintedKept
<1>10. CASE Begin \/ BeginLook \/ ShowThread \/ EndThreads
  <2>1. /\ UNCHANGED <<option, list, row, printed>> /\ code' # 0
        /\ pc' # "row" /\ pc' \notin AfterRows /\ (pc' \in InRow => pc \in InRow)
    BY <1>0, <1>10 DEF Begin, BeginLook, ShowThread, EndThreads, Goto
  <2> QED BY <2>1, PrintedKept
<1>11. CASE PrintTable \/ MeminfoFails \/ EndSum
  <2>1. /\ UNCHANGED <<option, list, row, printed>> /\ code' # 0
        /\ pc' \in AfterRows /\ pc \in AfterRows
    BY <1>0, <1>11 DEF PrintTable, MeminfoFails, EndSum, Goto
  <2> QED BY <2>1, PrintedKept
<1>12. ASSUME NEW p \in Pids, ReadSmaps(p) \/ ReadOomAdj(p) \/ ReadUser(p) \/ ReadTasks(p)
       PROVE  PrintedInv'
  <2>1. /\ UNCHANGED <<option, list, row, printed>> /\ code' # 0
        /\ pc' # "row" /\ pc' \notin AfterRows /\ pc \in InRow
    BY <1>0, <1>12 DEF ReadSmaps, ReadOomAdj, ReadUser, ReadTasks, AfterTasks, Goto
  <2> QED BY <2>1, PrintedKept
<1> QED BY <1>1, <1>2, <1>3, <1>4, <1>5, <1>6, <1>7, <1>8, <1>9, <1>10, <1>11, <1>12
        DEF Next, Step, ProcessRow

-----------------------------------------------------------------------------
(***************************************************************************)
(* The sizes that are read.                                                *)
(***************************************************************************)
\* Once a pid was given twice, this is remembered.
LEMMA OnceReused ==
  ASSUME Inv, [Next]_vars, ~reused'
  PROVE  ~reused
<1>1. CASE World
  BY <1>1, ReusedStays DEF World, Inv, WorldInv
<1>2. CASE UNCHANGED reused
  BY <1>2
<1>3. World \/ UNCHANGED reused
  BY DEF Next, Step, BadUsage, Help, ExitWith, Begin, BeginLook, LookFails, Found,
         PrintPids, ShowThread, EndThreads, NextRow, EndRows, Abort, PrintTable,
         MeminfoFails, BeginSum, EndSum, PrintLmk, ProcessRow, BeginRow, ReadSmaps,
         ReadOomAdj, ReadUser, ReadTasks, AddPss, vars, world, procVars
<1> QED BY <1>1, <1>2, <1>3

\* What is shown of a process that has gone, unless its pid is given again.
LEMMA PssTells ==
  ASSUME Inv, NEW p \in Pids, NEW kb \in Pss(p), ~reused, kb = Unknown
  PROVE  ~Exists(p)
<1>1. PssOf[p] \in Nat /\ Unknown \notin Nat /\ 0 # Unknown
  BY B2GInfoAssumption DEF Unknown
<1>2. CASE p \in gotMem
  BY <1>2 DEF Pss, Inv, MemInv
<1>3. CASE p \notin gotMem
  BY <1>1, <1>3 DEF Pss, Smaps
<1> QED BY <1>2, <1>3

\* The sizes that were read belong to rows already begun.
LEMMA MemStep ==
  ASSUME Inv, [Next]_vars
  PROVE  MemInv'
<1>1. ASSUME NEW p \in Pids, ReadSmaps(p) \/ AddPss(p)
      PROVE  MemInv'
  <2>1. PICK kb \in Pss(p) : pss' = [pss EXCEPT ![p] = kb]
    BY <1>1 DEF ReadSmaps, AddPss
  <2>2. /\ gotMem' = gotMem \cup {p} /\ p = list[row] /\ UNCHANGED world
        /\ row <= Len(list) /\ pc' \notin {"start", "find", "look"}
    BY <1>1 DEF ReadSmaps, AddPss, Goto, Inv, ToolInv, InRow
  <2>3. p \in seen
    BY <2>2, RowTypes
  <2>4. seen' = seen /\ reused' = reused /\ (\A q \in Pids : Exists(q)' <=> Exists(q))
    BY <2>2 DEF world, procVars, Exists
  <2>5. ASSUME ~reused', NEW q \in gotMem', pss'[q] = Unknown
        PROVE  ~Exists(q)'
    <3>1. q \in Pids /\ pss \in [Pids -> Nat \cup {Unknown}]
      BY <2>2, <2>5 DEF Inv, ToolInv
    <3>2. CASE q = p
      <4>1. kb = Unknown
        BY <2>1, <2>5, <3>1, <3>2
      <4> QED BY <2>4, <2>5, <3>2, <4>1, PssTells
    <3>3. CASE q # p
      <4>1. q \in gotMem /\ pss[q] = Unknown
        BY <2>1, <2>2, <2>5, <3>1, <3>3
      <4> QED BY <2>4, <2>5, <3>1, <4>1 DEF Inv, MemInv
    <3> QED BY <3>2, <3>3
  <2>6. gotMem' \subseteq seen'
    BY <2>2, <2>3, <2>4 DEF Inv, MemInv
  <2> QED BY <2>2, <2>5, <2>6 DEF MemInv
<1>2. CASE World
  <2>1. UNCHANGED <<gotMem, pss, pc>> /\ seen \subseteq seen' /\ ProcNext
    BY <1>2 DEF World, toolVars
  <2>2. ASSUME ~reused', NEW q \in gotMem, pss[q] = Unknown
        PROVE  ~Exists(q)'
    <3>1. ~reused /\ q \in Pids /\ q <= lastPid /\ ProcTypeOK
      BY <2>2, OnceReused DEF Inv, WorldInv, ToolInv, MemInv
    <3>2. ~Exists(q)
      BY <2>2, <3>1 DEF Inv, MemInv
    <3> QED BY <2>1, <2>2, <3>1, <3>2, GoneStays
  <2> QED BY <2>1, <2>2 DEF Inv, MemInv
<1>3. CASE BeginLook
  <2>1. gotMem' = {} /\ pc' = "look"
    BY <1>3 DEF BeginLook, Goto, Inv, MemInv
  <2> QED BY <2>1 DEF MemInv
<1>4. CASE /\ UNCHANGED <<world, gotMem, pss>>
           /\ pc' \in {"start", "find", "look"} => pc \in {"start", "find", "look"}
  <2>1. UNCHANGED <<gotMem, pss, seen, reused>>
        /\ \A q \in Pids : Exists(q)' <=> Exists(q)
    BY <1>4 DEF world, procVars, Exists
  <2>2. gotMem \subseteq Pids
    BY DEF Inv, ToolInv
  <2>3. gotMem' \subseteq seen' /\ (pc' \in {"start", "find", "look"} => gotMem' = {})
    BY <1>4, <2>1 DEF Inv, MemInv
  <2>4. ASSUME ~reused', NEW q \in gotMem', pss'[q] = Unknown
        PROVE  ~Exists(q)'
    BY <2>1, <2>2, <2>4 DEF Inv, MemInv
  <2> QED BY <2>3, <2>4 DEF MemInv
<1>5. \/ /\ UNCHANGED <<world, gotMem, pss>>
         /\ pc' \in {"start", "find", "look"} => pc \in {"start", "find", "look"}
      \/ World \/ BeginLook \/ \E p \in Pids : ReadSmaps(p) \/ AddPss(p)
  BY DEF Next, Step, BadUsage, Help, ExitWith, Begin, LookFails, Found, Goto,
         PrintPids, ShowThread, EndThreads, NextRow, EndRows, Abort, PrintTable,
         MeminfoFails, BeginSum, EndSum, PrintLmk, ProcessRow, BeginRow,
         ReadOomAdj, ReadUser, ReadTasks, vars, toolVars, AfterTasks
<1> QED BY <1>1, <1>2, <1>3, <1>4, <1>5

-----------------------------------------------------------------------------
(***************************************************************************)
(* What becomes of the rows that are complete.                             *)
(***************************************************************************)
\* A row is added that is not that of a process, or not complete.
LEMMA RowFollows ==
  ASSUME NEW t, NEW u, Len(t.rows) \in Nat, Len(u.rows) = Len(t.rows) + 1,
         \A r \in 1..Len(t.rows) : u.rows[r] = t.rows[r],
         ~IsProcess(u, Len(t.rows) + 1)
  PROVE  /\ TitledRows(t) => TitledRows(u)
         /\ Stories(t) /\ (Len(CellsOf(u, Len(t.rows) + 1)) = 3 /\ Len(t.rows) # 0
                             /\ IsProcess(t, Len(t.rows)) =>
                               CellsOf(t, Len(t.rows))[12][2] # Unknown) =>
              Stories(u)
<1> DEFINE n == Len(t.rows)
<1>1. \A r \in 1..n : CellsOf(u, r) = CellsOf(t, r)
  BY DEF CellsOf
<1>2. \A r \in 1..Len(u.rows) : IsProcess(u, r) => r \in 1..n /\ IsProcess(t, r)
  <2>1. \A r \in 1..Len(u.rows) : r \in 1..n \/ r = n + 1
    OBVIOUS
  <2> QED BY <1>1, <2>1 DEF IsProcess
<1>3. TitledRows(t) => TitledRows(u)
  BY <1>1, <1>2 DEF TitledRows
<1>4. ASSUME Stories(t),
             Len(CellsOf(u, n + 1)) = 3 /\ n # 0 /\ IsProcess(t, n) =>
               CellsOf(t, n)[12][2] # Unknown,
             NEW r \in 1..Len(u.rows), IsProcess(u, r)
      PROVE  /\ OneStory(CellsOf(u, r))
             /\ CellsOf(u, r)[12][2] = Unknown => ~Followed(u, r)
  <2>1. r \in 1..n /\ IsProcess(t, r) /\ CellsOf(u, r) = CellsOf(t, r)
    BY <1>1, <1>2, <1>4
  <2>2. OneStory(CellsOf(t, r)) /\ (CellsOf(t, r)[12][2] = Unknown => ~Followed(t, r))
    BY <1>4, <2>1 DEF Stories
  <2>3. CASE r = n
    BY <1>4, <2>1, <2>2, <2>3 DEF Followed
  <2>4. CASE r # n
    <3>1. r + 1 \in 1..n /\ r < Len(t.rows)
      BY <2>1, <2>4
    <3>2. CellsOf(u, r + 1) = CellsOf(t, r + 1)
      BY <1>1, <3>1
    <3>3. Followed(u, r) => Followed(t, r)
      BY <3>1, <3>2 DEF Followed
    <3> QED BY <2>1, <2>2, <3>3
  <2> QED BY <2>3, <2>4
<1>5. ASSUME Stories(t),
             Len(CellsOf(u, n + 1)) = 3 /\ n # 0 /\ IsProcess(t, n) =>
               CellsOf(t, n)[12][2] # Unknown
      PROVE  Stories(u)
  BY <1>4, <1>5 DEF Stories
<1> QED BY <1>3, <1>5

\* The last row, so far too short, gets more cells.
LEMMA RowGrows ==
  ASSUME NEW t, NEW u, Len(t.rows) \in Nat \ {0}, Len(u.rows) = Len(t.rows),
         \A r \in 1..Len(t.rows) : r # Len(t.rows) => u.rows[r] = t.rows[r],
         Len(CellsOf(u, Len(t.rows))) # 3
  PROVE  /\ TitledRows(t) /\ (IsProcess(u, Len(t.rows)) => Titled(CellsOf(u, Len(t.rows)))) =>
              TitledRows(u)
         /\ Stories(t) /\ (IsProcess(u, Len(t.rows)) => OneStory(CellsOf(u, Len(t.rows)))) =>
              Stories(u)
<1> DEFINE n == Len(t.rows)
<1>1. \A r \in 1..n : r # n => CellsOf(u, r) = CellsOf(t, r) /\ (IsProcess(u, r) <=> IsProcess(t, r))
  BY DEF CellsOf, IsProcess
<1>2. ASSUME TitledRows(t), IsProcess(u, n) => Titled(CellsOf(u, n))
      PROVE  TitledRows(u)
  BY <1>1, <1>2 DEF TitledRows
<1>3. ASSUME Stories(t), IsProcess(u, n) => OneStory(CellsOf(u, n)),
             NEW r \in 1..Len(u.rows), IsProcess(u, r)
      PROVE  /\ OneStory(CellsOf(u, r))
             /\ CellsOf(u, r)[12][2] = Unknown => ~Followed(u, r)
  <2>1. CASE r = n
    BY <1>3, <2>1 DEF Followed
  <2>2. CASE r # n
    <3>1. IsProcess(t, r) /\ CellsOf(u, r) = CellsOf(t, r) /\ r < n /\ r + 1 \in 1..n
      BY <1>1, <1>3, <2>2
    <3>2. OneStory(CellsOf(t, r)) /\ (CellsOf(t, r)[12][2] = Unknown => ~Followed(t, r))
      BY <1>3, <3>1 DEF Stories
    <3>3. CASE r + 1 = n
      BY <3>1, <3>2, <3>3 DEF Followed
    <3>4. CASE r + 1 # n
      <4>1. CellsOf(u, r + 1) = CellsOf(t, r + 1)
        BY <1>1, <3>1, <3>4
      <4> QED BY <3>1, <3>2, <4>1 DEF Followed
    <3> QED BY <3>3, <3>4
  <2> QED BY <2>1, <2>2
<1>4. ASSUME Stories(t), IsProcess(u, n) => OneStory(CellsOf(u, n))
      PROVE  Stories(u)
  BY <1>3, <1>4 DEF Stories
<1> QED BY <1>2, <1>4

\* A row is added that is not the row of a process.
LEMMA OtherRow ==
  ASSUME NEW t, NEW u, Len(t.rows) \in Nat, Len(u.rows) = Len(t.rows) + 1,
         \A r \in 1..Len(t.rows) : u.rows[r] = t.rows[r],
         ~IsProcess(u, Len(t.rows) + 1)
  PROVE  SameProcesses(t, u)
<1>1. \A r \in 1..Len(t.rows) : CellsOf(u, r) = CellsOf(t, r)
  BY DEF CellsOf
<1>2. 1..Len(u.rows) = 1..Len(t.rows) \cup {Len(t.rows) + 1}
  OBVIOUS
<1>3. \A r \in 1..Len(t.rows) : IsProcess(u, r) <=> IsProcess(t, r)
  BY <1>1, Zenon DEF IsProcess
<1> QED BY <1>1, <1>2, <1>3, Zenon DEF SameProcesses, ProcessesOf

\* The last row changes and is not yet that of a process, or it becomes one.
LEMMA LastRow ==
  ASSUME NEW t, NEW u, Len(t.rows) \in Nat \ {0}, Len(u.rows) = Len(t.rows),
         \A r \in 1..Len(t.rows) : r # Len(t.rows) => u.rows[r] = t.rows[r],
         ~IsProcess(t, Len(t.rows))
  PROVE  /\ ~IsProcess(u, Len(t.rows)) => SameProcesses(t, u)
         /\ IsProcess(u, Len(t.rows)) =>
              /\ ProcessesOf(u) = ProcessesOf(t) \cup {Len(t.rows)}
              /\ Len(t.rows) \notin ProcessesOf(t)
              /\ \A r \in ProcessesOf(t) : CellsOf(u, r) = CellsOf(t, r)
<1> DEFINE n == Len(t.rows)
<1>1. \A r \in 1..n : r # n => CellsOf(u, r) = CellsOf(t, r)
  BY DEF CellsOf
<1>2. \A r \in 1..n : r # n => (IsProcess(u, r) <=> IsProcess(t, r))
  BY <1>1, Zenon DEF IsProcess
<1>3. n \in 1..n
  OBVIOUS
<1> HIDE DEF n
<1>4. Len(u.rows) = n /\ Len(t.rows) = n /\ ~IsProcess(t, n)
  BY DEF n
<1> QED BY <1>1, <1>2, <1>3, <1>4, Zenon DEF SameProcesses, ProcessesOf

\* A row of headings is not that of a process.
LEMMA HeadingsRow ==
  ASSUME NEW t \in TableTypes, NEW id \in {"PID", "TID"}
  PROVE  LET u == AddHeadings(t, id)
         IN /\ u \in TableTypes
            /\ TitledRows(t) => TitledRows(u)
            /\ Stories(t) => Stories(u)
            /\ Len(u.rows) \in Nat \ {0} /\ SameProcesses(t, u)
            /\ ~IsProcess(u, Len(u.rows)) /\ Len(CellsOf(u, Len(u.rows))) = 12
<1> DEFINE cells == [j \in 1..12 |-> <<Headings(id)[j], Heading>>]
           u == AddCells(StartRow(t), cells)
<1>1. cells \in RowCells /\ Len(cells) = 12 /\ cells[1][2] = Heading
  <2>1. cells \in RowCells
    BY HeadingTypes
  <2>2. DOMAIN cells = 1..12 /\ cells[1] = <<Headings(id)[1], Heading>>
    OBVIOUS
  <2> HIDE DEF cells
  <2>3. Len(cells) = 12
    BY <2>1, <2>2, LenProperties DEF RowCells
  <2> QED BY <2>1, <2>2, <2>3
<1> HIDE DEF cells
<1>2. /\ u \in TableTypes /\ u.rows # <<>>
      /\ Len(t.rows) \in Nat /\ Len(u.rows) = Len(t.rows) + 1
      /\ \A r \in 1..Len(t.rows) : u.rows[r] = t.rows[r]
      /\ u.rows[Len(u.rows)].cells = cells
  BY <1>1, RowBegun
<1>3. AddHeadings(t, id) = u
  BY DEF AddHeadings, cells
<1> HIDE DEF u
<1>4. CellsOf(u, Len(t.rows) + 1) = cells
  BY <1>2 DEF CellsOf
<1>5. ~IsProcess(u, Len(t.rows) + 1)
  BY <1>1, <1>4 DEF IsProcess
<1>6. (TitledRows(t) => TitledRows(u)) /\ (Stories(t) => Stories(u))
  <2>1. Len(CellsOf(u, Len(t.rows) + 1)) # 3
    <3>1. Len(cells) # 3
      BY <1>1
    <3> QED BY <1>4, <3>1, Zenon
  <2>2. /\ TitledRows(t) => TitledRows(u)
        /\ Stories(t) /\ (Len(CellsOf(u, Len(t.rows) + 1)) = 3 /\ Len(t.rows) # 0
                             /\ IsProcess(t, Len(t.rows)) =>
                               CellsOf(t, Len(t.rows))[12][2] # Unknown) =>
              Stories(u)
    <3>1. /\ Len(t.rows) \in Nat /\ Len(u.rows) = Len(t.rows) + 1
          /\ \A r \in 1..Len(t.rows) : u.rows[r] = t.rows[r]
      BY <1>2
    <3>2. ~IsProcess(u, Len(t.rows) + 1)
      BY <1>5
    <3> QED BY ONLY <3>1, <3>2, RowFollows
  <2> QED BY <2>1, <2>2
<1>7. SameProcesses(t, u)
  <2>1. /\ Len(t.rows) \in Nat /\ Len(u.rows) = Len(t.rows) + 1
        /\ \A r \in 1..Len(t.rows) : u.rows[r] = t.rows[r]
    BY <1>2
  <2> QED BY ONLY <1>5, <2>1, OtherRow
<1> QED BY <1>1, <1>2, <1>3, <1>4, <1>5, <1>6, <1>7

\* The headings, one by one.
LEMMA HeadingsList ==
  LET h == Headings("PID")
  IN /\ h[1] = "NAME" /\ h[2] = "PID" /\ h[3] = "PPID" /\ h[4] = "CPU(s)" /\ h[5] = "NICE"
     /\ h[6] = "USS" /\ h[7] = "PSS" /\ h[8] = "RSS" /\ h[9] = "SWAP" /\ h[10] = "VSIZE"
     /\ h[11] = "OOM_ADJ" /\ h[12] = "USER"
BY DEF Headings

\* RowCells with their headings are followed by cells with theirs.
LEMMA TitledMore ==
  ASSUME NEW c \in RowCells, Titled(c), NEW more \in RowCells, NEW k \in Nat \ {0, 1}, Len(c) = k,
         NEW m \in Nat, Len(more) = m,
         \A j \in 1..m : more[j][1] = Headings("PID")[k + j]
  PROVE  /\ c \o more \in RowCells /\ Titled(c \o more) /\ Len(c \o more) = k + m
         /\ \A i \in 1..k : (c \o more)[i] = c[i]
         /\ \A j \in 1..m : (c \o more)[k + j] = more[j]
<1> DEFINE d == c \o more
<1>1. /\ d \in RowCells /\ Len(d) = k + m
      /\ \A i \in 1..k + m : d[i] = IF i <= k THEN c[i] ELSE more[i - k]
  <2>1. PICK S : S = Titles \X Int
    OBVIOUS
  <2>2. c \in Seq(S) /\ more \in Seq(S)
    BY <2>1 DEF RowCells
  <2>3. /\ c \o more \in Seq(S) /\ Len(c \o more) = Len(c) + Len(more)
        /\ \A i \in 1..Len(c) + Len(more) :
             (c \o more)[i] = IF i <= Len(c) THEN c[i] ELSE more[i - Len(c)]
    BY ONLY <2>2, ConcatProperties
  <2> QED BY <2>1, <2>3 DEF RowCells
<1> HIDE DEF d
<1>2. \A i \in 1..k : d[i] = c[i]
  BY <1>1
<1>3. \A j \in 1..m : d[k + j] = more[j]
  <2> TAKE j \in 1..m
  <2>1. k + j \in 1..k + m /\ ~(k + j <= k) /\ k + j - k = j
    OBVIOUS
  <2> QED BY <1>1, <2>1
<1>4. Titled(d)
  <2> SUFFICES ASSUME NEW i \in 1..Len(d)
               PROVE  d[i][1] = Headings("PID")[i] \/ (i = 2 /\ d[i][1] = "TID")
    BY DEF Titled
  <2>1. CASE i <= k
    BY <1>1, <1>2, <2>1 DEF Titled
  <2>2. CASE ~(i <= k)
    <3>1. i \in 1..k + m /\ k \in Nat
      BY <1>1
    <3>2. PICK j \in 1..m : k + j = i
      <4>1. i - k \in 1..m /\ k + (i - k) = i
        BY <2>2, <3>1
      <4> QED BY <4>1
    <3>3. d[k + j] = more[j] /\ more[j][1] = Headings("PID")[k + j]
      BY <1>3
    <3> QED BY <3>2, <3>3
  <2> QED BY <2>1, <2>2
<1> QED BY <1>1, <1>2, <1>3, <1>4 DEF d

\* A row begins with five cells.
LEMMA BeginRowStep ==
  ASSUME Inv, NEW p \in Pids, BeginRow(p)
  PROVE  /\ StoryInv' /\ LastInv'
         /\ SameProcesses(table, table') /\ LastCells'[2][2] = p
<1> DEFINE id == IF option = "threads" THEN "TID" ELSE "PID"
           five == << <<"NAME", Known>>, <<id, p>>, <<"PPID", Known>>,
                      <<"CPU(s)", Known>>, <<"NICE", Known>> >>
<1>1. PICK t : /\ t = IF option = "threads" THEN AddHeadings(table, "TID") ELSE table
               /\ table' = AddCells(StartRow(t), five)
  BY DEF BeginRow
<1>2. /\ t \in TableTypes /\ (TitledRows(table) => TitledRows(t))
      /\ Stories(table) => Stories(t)
      /\ SameProcesses(table, t)
  BY <1>1, HeadingsRow DEF Inv, ToolInv, SameProcesses
<1>3. /\ five \in RowCells /\ Len(five) = 5 /\ five[1][2] = Known
      /\ five[1][1] = "NAME" /\ five[2][1] \in {"PID", "TID"} /\ five[3][1] = "PPID"
      /\ five[4][1] = "CPU(s)" /\ five[5][1] = "NICE" /\ five[2][2] = p
  <2>1. /\ <<"NAME", Known>> \in Titles \X Int /\ <<id, p>> \in Titles \X Int
        /\ <<"PPID", Known>> \in Titles \X Int /\ <<"CPU(s)", Known>> \in Titles \X Int
        /\ <<"NICE", Known>> \in Titles \X Int
    BY DEF Known, Titles, Pids
  <2>2. id \in {"PID", "TID"}
    OBVIOUS
  <2> HIDE DEF id
  <2> QED BY <2>1, <2>2, FiveCells DEF RowCells
<1> HIDE DEF five
<1>4. Titled(five)
  <2>1. \A j \in 1..5 : j = 1 \/ j = 2 \/ j = 3 \/ j = 4 \/ j = 5
    OBVIOUS
  <2> QED BY <1>3, <2>1, HeadingsList DEF Titled
<1>5. /\ table'.rows # <<>> /\ Len(t.rows) \in Nat /\ Len(table'.rows) = Len(t.rows) + 1
      /\ \A r \in 1..Len(t.rows) : table'.rows[r] = t.rows[r]
      /\ table'.rows[Len(table'.rows)].cells = five
  BY <1>1, <1>2, <1>3, RowBegun
<1>6. LastCells' = five /\ CellsOf(table', Len(t.rows) + 1) = five
  BY <1>5 DEF LastCells, CellsOf
<1>7. ~IsProcess(table', Len(t.rows) + 1) /\ Len(CellsOf(table', Len(t.rows) + 1)) # 3
  <2>1. Len(five) # 3 /\ Len(five) # 12
    BY <1>3
  <2> QED BY <1>6, <2>1, Zenon DEF IsProcess
<1>8. /\ TitledRows(t) => TitledRows(table')
      /\ Stories(t) => Stories(table')
  <2>1. /\ Len(t.rows) \in Nat /\ Len(table'.rows) = Len(t.rows) + 1
        /\ \A r \in 1..Len(t.rows) : table'.rows[r] = t.rows[r]
        /\ ~IsProcess(table', Len(t.rows) + 1)
    BY <1>5, <1>7
  <2>2. /\ TitledRows(t) => TitledRows(table')
        /\ Stories(t) /\ (Len(CellsOf(table', Len(t.rows) + 1)) = 3 /\ Len(t.rows) # 0
                             /\ IsProcess(t, Len(t.rows)) =>
                               CellsOf(t, Len(t.rows))[12][2] # Unknown) =>
              Stories(table')
    BY ONLY <2>1, RowFollows
  <2> QED BY <1>7, <2>2, Zenon
<1>9. StoryInv'
  BY <1>2, <1>8 DEF Inv, StoryInv, BeginRow, world, procVars
<1>10. Partial(5)'
  BY <1>3, <1>4, <1>5, <1>6 DEF Partial
<1>11. LastInv'
  BY <1>10 DEF LastInv, BeginRow, Goto
<1>12. SameProcesses(table, table')
  <2>1. /\ Len(t.rows) \in Nat /\ Len(table'.rows) = Len(t.rows) + 1
        /\ \A r \in 1..Len(t.rows) : table'.rows[r] = t.rows[r]
        /\ ~IsProcess(table', Len(t.rows) + 1)
    BY <1>5, <1>7
  <2>2. SameProcesses(t, table')
    BY ONLY <2>1, OtherRow
  <2> QED BY <1>2, <2>2, Zenon DEF SameProcesses
<1> QED BY <1>3, <1>6, <1>9, <1>11, <1>12

\* The last row grows from k cells to k + m; u is the table it is then in.
Growing(k, more, m, u) ==
  /\ k \in Nat \ {0, 1} /\ k < 12 /\ Partial(k)
  /\ more \in RowCells /\ m \in Nat \ {0} /\ Len(more) = m /\ k + m > 3
  /\ \A j \in 1..m : more[j][1] = Headings("PID")[k + j]
  /\ u \in TableTypes /\ u.rows # <<>>
  /\ Len(table.rows) \in Nat \ {0} /\ Len(u.rows) = Len(table.rows)
  /\ \A r \in 1..Len(table.rows) : r # Len(table.rows) => u.rows[r] = table.rows[r]
  /\ LastCells \in RowCells /\ CellsOf(u, Len(table.rows)) = LastCells \o more

\* What becomes of it.
Grown(k, more, m, u) ==
  LET cells == CellsOf(u, Len(u.rows))
  IN /\ TitledRows(u)
     /\ ~reused /\ (k + m = 12 => OneStory(cells)) => Stories(u)
     /\ Titled(cells) /\ Len(cells) = k + m /\ cells[1][2] = Known
     /\ \A i \in 1..k : cells[i] = LastCells[i]
     /\ \A j \in 1..m : cells[k + j] = more[j]

\* A row that grows keeps its headings and its story.
LEMMA GrowStep ==
  ASSUME Inv, NEW k, NEW more, NEW m, NEW u, Growing(k, more, m, u)
  PROVE  Grown(k, more, m, u)
<1>0. /\ k \in Nat \ {0, 1} /\ k < 12 /\ Partial(k)
      /\ more \in RowCells /\ m \in Nat \ {0} /\ Len(more) = m /\ k + m > 3
      /\ \A j \in 1..m : more[j][1] = Headings("PID")[k + j]
      /\ LastCells \in RowCells /\ CellsOf(u, Len(table.rows)) = LastCells \o more
  BY DEF Growing
<1>rows. /\ Len(table.rows) \in Nat \ {0} /\ Len(u.rows) = Len(table.rows)
      /\ \A r \in 1..Len(table.rows) : r # Len(table.rows) => u.rows[r] = table.rows[r]
  BY DEF Growing
<1> DEFINE n == Len(table.rows)
           cells == CellsOf(u, n)
<1>1. Titled(LastCells) /\ Len(LastCells) = k /\ LastCells[1][2] = Known
  BY <1>0 DEF Partial
<1>2. /\ cells \in RowCells /\ Titled(cells) /\ Len(cells) = k + m
      /\ \A i \in 1..k : cells[i] = LastCells[i]
      /\ \A j \in 1..m : cells[k + j] = more[j]
  BY <1>0, <1>1, TitledMore
<1>3. cells[1][2] = Known
  <2>1. 1 \in 1..k
    BY <1>0
  <2> QED BY <1>1, <1>2, <2>1
<1>4. Len(cells) # 3 /\ (IsProcess(u, n) => k + m = 12)
  BY <1>0, <1>2 DEF IsProcess
<1> HIDE DEF cells
<1>5. /\ TitledRows(table) /\ (IsProcess(u, n) => Titled(cells)) => TitledRows(u)
      /\ Stories(table) /\ (IsProcess(u, n) => OneStory(cells)) => Stories(u)
  <2>1. Len(CellsOf(u, n)) # 3
    BY <1>4 DEF cells
  <2> QED BY ONLY <1>rows, <2>1, RowGrows DEF cells
<1>6. TitledRows(table) /\ (~reused => Stories(table))
  BY DEF Inv, StoryInv
<1>7. TitledRows(u)
  BY <1>2, <1>5, <1>6
<1>8. ASSUME ~reused, k + m = 12 => OneStory(cells)
      PROVE  Stories(u)
  BY <1>4, <1>5, <1>6, <1>8
<1>9. cells = CellsOf(u, Len(u.rows))
  BY <1>rows DEF cells
<1> QED BY <1>2, <1>3, <1>7, <1>8, <1>9 DEF Grown

\* The row goes on with the sizes.
LEMMA ReadSmapsStep ==
  ASSUME Inv, NEW p \in Pids, ReadSmaps(p)
  PROVE  /\ StoryInv' /\ LastInv'
         /\ SameProcesses(table, table') /\ LastCells'[2] = LastCells[2]
         /\ \E kb \in Pss(p) : /\ pss' = [pss EXCEPT ![p] = kb]
                              /\ LastCells'[7][2] = kb
<1>0. /\ pc = "smaps" /\ p = list[row] /\ pc' = "oom" /\ UNCHANGED <<world, list, row>>
      /\ Partial(5) /\ (\A q \in Pids : Exists(q)' <=> Exists(q)) /\ reused' = reused
  BY DEF ReadSmaps, Goto, Inv, LastInv, world, procVars, Exists
<1>1. PICK kb \in Pss(p) :
        /\ pss' = [pss EXCEPT ![p] = kb]
        /\ table' = AddCells(table,
                      << <<"USS", Shown(kb # Unknown)>>, <<"PSS", kb>>,
                         <<"RSS", Shown(kb # Unknown)>>, <<"SWAP", Shown(kb # Unknown)>>,
                         <<"VSIZE", Shown(kb # Unknown)>> >>)
  BY DEF ReadSmaps
<1> DEFINE got == Shown(kb # Unknown)
           five == << <<"USS", got>>, <<"PSS", kb>>, <<"RSS", got>>, <<"SWAP", got>>,
                      <<"VSIZE", got>> >>
<1>2. kb \in Int /\ got \in Int
  BY PssTypes DEF Shown, Known, Unknown
<1> HIDE DEF got
<1>3. /\ five \in RowCells /\ Len(five) = 5 /\ five[2][2] = kb
      /\ five[1][1] = "USS" /\ five[2][1] = "PSS" /\ five[3][1] = "RSS"
      /\ five[4][1] = "SWAP" /\ five[5][1] = "VSIZE"
  <2>1. /\ <<"USS", got>> \in Titles \X Int /\ <<"PSS", kb>> \in Titles \X Int
        /\ <<"RSS", got>> \in Titles \X Int /\ <<"SWAP", got>> \in Titles \X Int
        /\ <<"VSIZE", got>> \in Titles \X Int
    BY <1>2 DEF Titles
  <2> QED BY <2>1, FiveCells DEF RowCells
<1>4. table' = AddCells(table, five)
  BY <1>1 DEF got
<1> HIDE DEF five
<1>5. \A j \in 1..5 : five[j][1] = Headings("PID")[5 + j]
  <2>1. \A j \in 1..5 : j = 1 \/ j = 2 \/ j = 3 \/ j = 4 \/ j = 5
    OBVIOUS
  <2> QED BY <1>3, <2>1, HeadingsList
<1>6. table \in TableTypes /\ table.rows # <<>>
  BY <1>0 DEF Partial, Inv, ToolInv
<1>7. /\ table' \in TableTypes /\ table'.rows # <<>>
      /\ Len(table.rows) \in Nat \ {0} /\ Len(table'.rows) = Len(table.rows)
      /\ \A r \in 1..Len(table.rows) : r # Len(table.rows) => table'.rows[r] = table.rows[r]
      /\ LastCells \in RowCells /\ CellsOf(table', Len(table.rows)) = LastCells \o five
  BY <1>3, <1>4, <1>6, CellsAdded DEF CellsOf, LastCells
<1>8. /\ TitledRows(table')
      /\ ~reused => Stories(table')
      /\ Titled(LastCells') /\ Len(LastCells') = 10 /\ LastCells'[1][2] = Known
      /\ LastCells'[7] = five[2] /\ LastCells'[2] = LastCells[2]
  <2> DEFINE u == table'
             cells == CellsOf(u, Len(u.rows))
  <2>1. /\ TitledRows(u)
        /\ ~reused /\ (5 + 5 = 12 => OneStory(cells)) => Stories(u)
        /\ Titled(cells) /\ Len(cells) = 5 + 5 /\ cells[1][2] = Known
        /\ \A i \in 1..5 : cells[i] = LastCells[i]
        /\ \A j \in 1..5 : cells[5 + j] = five[j]
    <3>0. PICK k, m : k = 5 /\ m = 5
      OBVIOUS
    <3>1. k \in Nat \ {0, 1} /\ k < 12 /\ m \in Nat \ {0} /\ k + m > 3
      BY <3>0
    <3>2. /\ Partial(k) /\ five \in RowCells /\ Len(five) = m
          /\ \A j \in 1..m : five[j][1] = Headings("PID")[k + j]
      BY <1>0, <1>3, <1>5, <3>0
    <3>3. /\ u \in TableTypes /\ u.rows # <<>>
          /\ Len(table.rows) \in Nat \ {0} /\ Len(u.rows) = Len(table.rows)
          /\ \A r \in 1..Len(table.rows) : r # Len(table.rows) => u.rows[r] = table.rows[r]
          /\ LastCells \in RowCells /\ CellsOf(u, Len(table.rows)) = LastCells \o five
      BY <1>7
    <3>4. /\ TitledRows(u)
          /\ ~reused /\ (k + m = 12 => OneStory(cells)) => Stories(u)
          /\ Titled(cells) /\ Len(cells) = k + m /\ cells[1][2] = Known
          /\ \A i \in 1..k : cells[i] = LastCells[i]
          /\ \A j \in 1..m : cells[k + j] = five[j]
      <4>1. Growing(k, five, m, u)
        BY ONLY <3>1, <3>2, <3>3 DEF Growing
      <4>2. Grown(k, five, m, u)
        BY ONLY <4>1, Inv, GrowStep
      <4> QED BY ONLY <4>2 DEF Grown
    <3> QED BY <3>0, <3>4
  <2>2. cells = LastCells'
    BY DEF LastCells
  <2>3. TitledRows(table') /\ (~reused => Stories(table'))
    BY <2>1
  <2>4. Titled(LastCells') /\ Len(LastCells') = 10 /\ LastCells'[1][2] = Known
    BY <2>1, <2>2
  <2>5. cells[7] = five[2] /\ cells[2] = LastCells[2]
    BY <2>1
  <2> QED BY <2>2, <2>3, <2>4, <2>5
<1>9. StoryInv'
  BY <1>0, <1>8 DEF StoryInv
<1>10. Partial(10)'
  BY <1>7, <1>8 DEF Partial
<1>11. ~reused' /\ LastCells'[7][2] = Unknown => ~Exists(list[row])'
  BY <1>0, <1>3, <1>8, PssTells
<1>12. LastInv'
  BY <1>0, <1>9, <1>10, <1>11 DEF LastInv
<1>13. SameProcesses(table, table')
  <2> DEFINE n == Len(table.rows)
  <2>1. CellsOf(table, n) = LastCells /\ Len(LastCells) = 5
    BY <1>0 DEF Partial, LastCells
  <2>2. CellsOf(table', n) = LastCells' /\ Len(LastCells') = 10
    BY <1>7, <1>8 DEF LastCells
  <2>3. Len(CellsOf(table, n)) # 12 /\ Len(CellsOf(table', n)) # 12
    <3>1. Len(LastCells) # 12 /\ Len(LastCells') # 12
      BY <2>1, <2>2
    <3> QED BY <2>1, <2>2, <3>1, Zenon
  <2>4. ~IsProcess(table, n) /\ ~IsProcess(table', n)
    BY <2>3, Zenon DEF IsProcess
  <2>5. /\ Len(table.rows) \in Nat \ {0} /\ Len(table'.rows) = Len(table.rows)
        /\ \A r \in 1..Len(table.rows) : r # Len(table.rows) => table'.rows[r] = table.rows[r]
    BY <1>7
  <2>6. ~IsProcess(table', n) => SameProcesses(table, table')
    BY ONLY <2>4, <2>5, LastRow
  <2> QED BY <2>4, <2>6
<1> QED BY <1>1, <1>3, <1>8, <1>9, <1>12, <1>13

\* The last row is complete or not.
LastMakes(t, u, complete) ==
  /\ ~complete => SameProcesses(t, u)
  /\ complete => /\ ProcessesOf(u) = ProcessesOf(t) \cup {Len(u.rows)}
                 /\ Len(u.rows) \notin ProcessesOf(t)
                 /\ \A r \in ProcessesOf(t) : CellsOf(u, r) = CellsOf(t, r)

\* The row goes on with one cell.
LEMMA OneMore ==
  ASSUME Inv, NEW k, k \in {10, 11}, Partial(k), NEW h \in Titles, h = Headings("PID")[k + 1],
         NEW v \in Int, table' = AddCell(table, <<h, v>>)
  PROVE  /\ TitledRows(table')
         /\ ~reused /\ (k = 11 => OneStory(LastCells')) => Stories(table')
         /\ Titled(LastCells') /\ Len(LastCells') = k + 1 /\ LastCells'[1][2] = Known
         /\ \A i \in 1..k : LastCells'[i] = LastCells[i]
         /\ LastCells'[k + 1][2] = v /\ table'.rows # <<>>
         /\ LastMakes(table, table', k = 11)
<1> DEFINE cell == <<h, v>>
           more == <<cell>>
<1>1. cell \in Titles \X Int /\ cell[1] = h /\ cell[2] = v
  OBVIOUS
<1>2. table \in TableTypes /\ table.rows # <<>>
  BY DEF Partial, Inv, ToolInv
<1>3. table' = AddCell(table, cell)
  OBVIOUS
<1> HIDE DEF cell
<1>4. more \in RowCells /\ Len(more) = 1 /\ more[1] = cell
  BY <1>1 DEF RowCells
<1>5. /\ table' \in TableTypes /\ table'.rows # <<>>
      /\ Len(table.rows) \in Nat \ {0} /\ Len(table'.rows) = Len(table.rows)
      /\ \A r \in 1..Len(table.rows) : r # Len(table.rows) => table'.rows[r] = table.rows[r]
      /\ LastCells \in RowCells
      /\ CellsOf(table', Len(table.rows)) = Append(LastCells, cell)
  <2>1. LET n == Len(table.rows)
            u == AddCell(table, cell)
        IN /\ u \in TableTypes /\ u.rows # <<>>
           /\ n \in Nat \ {0} /\ Len(u.rows) = n
           /\ \A r \in 1..n : r # n => u.rows[r] = table.rows[r]
           /\ table.rows[n].cells \in RowCells
           /\ u.rows[n].cells = Append(table.rows[n].cells, cell)
    BY <1>1, <1>2, CellAdded
  <2> QED BY <1>3, <2>1 DEF CellsOf, LastCells
<1>6. Append(LastCells, cell) = LastCells \o more
  BY <1>1, <1>5 DEF RowCells
<1> HIDE DEF more
<1> DEFINE cells == CellsOf(table', Len(table'.rows))
<1>7. cells = LastCells'
  BY DEF LastCells
<1>8. PICK m : m = 1
  OBVIOUS
<1>9. /\ TitledRows(table')
      /\ ~reused /\ (k + m = 12 => OneStory(cells)) => Stories(table')
      /\ Titled(cells) /\ Len(cells) = k + m /\ cells[1][2] = Known
      /\ \A i \in 1..k : cells[i] = LastCells[i]
      /\ \A j \in 1..m : cells[k + j] = more[j]
  <2>1. k \in Nat \ {0, 1} /\ k < 12 /\ m \in Nat \ {0} /\ k + m > 3
    BY <1>8
  <2>2. /\ Partial(k) /\ more \in RowCells /\ Len(more) = m
        /\ \A j \in 1..m : more[j][1] = Headings("PID")[k + j]
    <3>1. \A j \in 1..m : j = 1
      BY <1>8
    <3> QED BY <1>1, <1>4, <1>8, <3>1
  <2>3. /\ table' \in TableTypes /\ table'.rows # <<>>
        /\ Len(table.rows) \in Nat \ {0} /\ Len(table'.rows) = Len(table.rows)
        /\ \A r \in 1..Len(table.rows) : r # Len(table.rows) => table'.rows[r] = table.rows[r]
        /\ LastCells \in RowCells /\ CellsOf(table', Len(table.rows)) = LastCells \o more
    BY <1>5, <1>6
  <2>4. Growing(k, more, m, table')
    BY ONLY <2>1, <2>2, <2>3 DEF Growing
  <2>5. Grown(k, more, m, table')
    BY ONLY <2>4, Inv, GrowStep
  <2> QED BY ONLY <2>5 DEF Grown
<1>10. 1 \in 1..m /\ k + m = k + 1 /\ (k + m = 12 <=> k = 11)
  BY <1>8
<1>11. cells[k + 1][2] = v
  BY <1>1, <1>4, <1>9, <1>10
<1> HIDE DEF cells
<1>12. ~reused /\ (k = 11 => OneStory(cells)) => Stories(table')
  BY <1>9, <1>10
<1>13. LastMakes(table, table', k = 11)
  <2> DEFINE n == Len(table.rows)
  <2>1. /\ Len(table.rows) \in Nat \ {0} /\ Len(table'.rows) = Len(table.rows)
        /\ \A r \in 1..Len(table.rows) : r # Len(table.rows) => table'.rows[r] = table.rows[r]
    BY <1>5
  <2>2. CellsOf(table, n) = LastCells /\ Len(LastCells) = k /\ k # 12
    BY DEF Partial, LastCells
  <2>3. CellsOf(table', n) = cells /\ Len(cells) = k + 1 /\ (k + 1 = 12 <=> k = 11)
        /\ cells[1][2] # Heading
    BY <1>5, <1>9, <1>10 DEF cells, Known, Heading
  <2>4. ~IsProcess(table, n)
    BY <2>2, Zenon DEF IsProcess
  <2>5. IsProcess(table', n) <=> k = 11
    BY <2>3, Zenon DEF IsProcess
  <2>6. /\ ~IsProcess(table', Len(table.rows)) => SameProcesses(table, table')
        /\ IsProcess(table', Len(table.rows)) =>
              /\ ProcessesOf(table') = ProcessesOf(table) \cup {Len(table.rows)}
              /\ Len(table.rows) \notin ProcessesOf(table)
              /\ \A r \in ProcessesOf(table) : CellsOf(table', r) = CellsOf(table, r)
    BY ONLY <2>1, <2>4, LastRow
  <2>7. Len(table'.rows) = n
    BY <2>1
  <2> QED BY <2>5, <2>6, <2>7, Zenon DEF LastMakes
<1> QED BY <1>5, <1>7, <1>9, <1>10, <1>11, <1>12, <1>13

\* Adding the cell of the out-of-memory score keeps the story of the row.
LEMMA ReadOomAdjStep ==
  ASSUME Inv, NEW p \in Pids, ReadOomAdj(p)
  PROVE  /\ StoryInv' /\ LastInv' /\ SameProcesses(table, table')
         /\ LastCells'[2] = LastCells[2] /\ LastCells'[7] = LastCells[7]
<1> DEFINE v == IntFile(p)
<1>1. /\ pc = "oom" /\ p = list[row] /\ pc' = "user" /\ UNCHANGED <<world, list, row>>
      /\ Partial(10) /\ (Exists(p)' <=> Exists(p)) /\ reused' = reused
      /\ ~reused /\ LastCells[7][2] = Unknown => ~Exists(p)
      /\ table' = AddCell(table, <<"OOM_ADJ", v>>)
  BY DEF ReadOomAdj, Goto, Inv, LastInv, world, procVars, Exists
<1>2. v \in Int /\ (v = Unknown <=> ~Exists(p))
  BY DEF IntFile, Shown, Known, Unknown
<1> HIDE DEF v
<1>3. "OOM_ADJ" \in Titles /\ "OOM_ADJ" = Headings("PID")[11] /\ 10 + 1 = 11
  BY HeadingsList DEF Titles
<1>4. PICK k \in {10, 11} : k = 10
  OBVIOUS
<1>5. "OOM_ADJ" = Headings("PID")[k + 1] /\ Partial(k)
  BY <1>1, <1>3, <1>4
<1>51. Inv /\ k \in {10, 11} /\ v \in Int /\ table' = AddCell(table, <<"OOM_ADJ", v>>)
  BY <1>1, <1>2, <1>4
<1>52. "OOM_ADJ" \in Titles
  BY <1>3
<1>6. /\ TitledRows(table')
      /\ ~reused /\ (k = 11 => OneStory(LastCells')) => Stories(table')
      /\ Titled(LastCells') /\ Len(LastCells') = k + 1 /\ LastCells'[1][2] = Known
      /\ \A i \in 1..k : LastCells'[i] = LastCells[i]
      /\ LastCells'[k + 1][2] = v /\ table'.rows # <<>>
      /\ LastMakes(table, table', k = 11)
  BY ONLY <1>5, <1>51, <1>52, OneMore
<1>7. Partial(11)' /\ LastCells'[7] = LastCells[7] /\ LastCells'[11][2] = v
  BY <1>3, <1>4, <1>6 DEF Partial
<1>8. StoryInv'
  BY <1>1, <1>4, <1>6 DEF StoryInv
<1>9. LastInv'
  BY <1>1, <1>2, <1>7 DEF LastInv
<1>11. SameProcesses(table, table')
  BY <1>4, <1>6 DEF LastMakes
<1>12. LastCells'[2] = LastCells[2] /\ LastCells'[7] = LastCells[7]
  BY <1>4, <1>6
<1> QED BY <1>8, <1>9, <1>11, <1>12

\* Adding the cell of the user keeps the story of the row.
LEMMA ReadUserStep ==
  ASSUME Inv, NEW p \in Pids, ReadUser(p)
  PROVE  /\ StoryInv' /\ LastInv' /\ LastMakes(table, table', TRUE)
         /\ LastCells'[2] = LastCells[2] /\ LastCells'[7] = LastCells[7]
<1> DEFINE v == Shown(Exists(p))
<1>1. /\ pc = "user" /\ p = list[row] /\ pc' \in {"tasks", "next"}
      /\ UNCHANGED <<world, list, row>>
      /\ Partial(11) /\ (Exists(p)' <=> Exists(p)) /\ reused' = reused
      /\ ~reused => /\ LastCells[7][2] = Unknown => LastCells[11][2] = Unknown
                    /\ LastCells[11][2] = Unknown => ~Exists(p)
      /\ table' = AddCell(table, <<"USER", v>>)
  BY DEF ReadUser, Goto, Inv, LastInv, world, procVars, Exists
<1>2. v \in Int /\ (v = Unknown <=> ~Exists(p))
  BY DEF Shown, Known, Unknown
<1> HIDE DEF v
<1>3. "USER" \in Titles /\ "USER" = Headings("PID")[12] /\ 11 + 1 = 12
  BY HeadingsList DEF Titles
<1>4. PICK k \in {10, 11} : k = 11
  OBVIOUS
<1>5. "USER" = Headings("PID")[k + 1] /\ Partial(k)
  BY <1>1, <1>3, <1>4
<1>51. Inv /\ k \in {10, 11} /\ v \in Int /\ table' = AddCell(table, <<"USER", v>>)
  BY <1>1, <1>2, <1>4
<1>52. "USER" \in Titles
  BY <1>3
<1>6. /\ TitledRows(table')
      /\ ~reused /\ (k = 11 => OneStory(LastCells')) => Stories(table')
      /\ Titled(LastCells') /\ Len(LastCells') = k + 1 /\ LastCells'[1][2] = Known
      /\ \A i \in 1..k : LastCells'[i] = LastCells[i]
      /\ LastCells'[k + 1][2] = v /\ table'.rows # <<>>
      /\ LastMakes(table, table', k = 11)
  BY ONLY <1>5, <1>51, <1>52, OneMore
<1>7. /\ Partial(12)' /\ LastCells'[7] = LastCells[7] /\ LastCells'[11] = LastCells[11]
      /\ LastCells'[12][2] = v
  BY <1>3, <1>4, <1>6 DEF Partial
<1>8. ~reused => OneStory(LastCells')
  BY <1>1, <1>2, <1>7 DEF OneStory
<1>9. StoryInv'
  BY <1>1, <1>6, <1>8 DEF StoryInv
<1>10. LastInv'
  BY <1>1, <1>2, <1>7 DEF LastInv
<1>11. LastMakes(table, table', TRUE)
  BY <1>4, <1>6 DEF LastMakes
<1>12. LastCells'[2] = LastCells[2] /\ LastCells'[7] = LastCells[7]
  BY <1>4, <1>6
<1> QED BY <1>9, <1>10, <1>11, <1>12

\* The threads are looked for; only a process that lives has some.
LEMMA ReadTasksStep ==
  ASSUME Inv, NEW p \in Pids, ReadTasks(p)
  PROVE  StoryInv' /\ LastInv'
<1>1. /\ pc = "tasks" /\ p = list[row] /\ pc' = "thread" /\ UNCHANGED <<table, reused>>
      /\ ~reused /\ LastCells[12][2] = Unknown => ~Exists(p)
      /\ threads' > 0 => Live(p)
  BY DEF ReadTasks, AfterTasks, Goto, Inv, LastInv, world, procVars
<1>2. Live(p) => Exists(p)
  BY DEF Live, Exists, Images, B2GExes
<1>3. LastCells' = LastCells
  BY <1>1 DEF LastCells, CellsOf
<1>4. StoryInv'
  BY <1>1 DEF Inv, StoryInv
<1>5. LastInv'
  BY <1>1, <1>2, <1>3 DEF LastInv
<1> QED BY <1>4, <1>5

\* The row of a thread follows.
LEMMA ShowThreadStep ==
  ASSUME Inv, ShowThread
  PROVE  StoryInv' /\ LastInv' /\ SameProcesses(table, table')
<1> DEFINE n == Len(table.rows)
           three == << <<"NAME", Known>>, <<"TID", Known>>, <<"NICE", Known>> >>
<1>1. /\ pc = "thread" /\ threads > 0 /\ pc' = "thread" /\ reused' = reused
      /\ table' = AddCells(StartRow(table), three) /\ table \in TableTypes
  BY DEF ShowThread, Goto, world, procVars, Inv, ToolInv
<1>2. three \in RowCells /\ Len(three) = 3
  <2>1. /\ <<"NAME", Known>> \in Titles \X Int /\ <<"TID", Known>> \in Titles \X Int
        /\ <<"NICE", Known>> \in Titles \X Int
    BY DEF Known, Titles
  <2> QED BY <2>1, ThreeCells DEF RowCells
<1> HIDE DEF three
<1>3. /\ table'.rows # <<>> /\ n \in Nat /\ Len(table'.rows) = n + 1
      /\ \A r \in 1..n : table'.rows[r] = table.rows[r]
      /\ table'.rows[Len(table'.rows)].cells = three
  BY <1>1, <1>2, RowBegun
<1>4. Len(three) # 12
  BY <1>2
<1>5. CellsOf(table', n + 1) = three /\ ~IsProcess(table', n + 1)
  <2>1. CellsOf(table', n + 1) = three
    BY <1>3 DEF CellsOf
  <2> QED BY <1>4, <2>1, Zenon DEF IsProcess
<1>6. ~reused /\ n # 0 /\ IsProcess(table, n) => CellsOf(table, n)[12][2] # Unknown
  <2>1. n # 0 => table.rows # <<>>
    BY EmptySeq
  <2>2. LastCells = CellsOf(table, n)
    BY DEF LastCells
  <2> HIDE DEF n
  <2> QED BY <1>1, <2>1, <2>2 DEF Inv, LastInv, n
<1>7. /\ TitledRows(table) => TitledRows(table')
      /\ Stories(table) /\ (Len(CellsOf(table', n + 1)) = 3 /\ n # 0 /\ IsProcess(table, n) =>
                              CellsOf(table, n)[12][2] # Unknown) => Stories(table')
  <2>1. /\ n \in Nat /\ Len(table'.rows) = n + 1
        /\ \A r \in 1..n : table'.rows[r] = table.rows[r]
        /\ ~IsProcess(table', n + 1)
    BY <1>3, <1>5
  <2> QED BY ONLY <2>1, RowFollows
<1>8. StoryInv'
  <2>1. TitledRows(table')
    BY <1>7 DEF Inv, StoryInv
  <2>2. ASSUME ~reused PROVE Stories(table')
    BY <1>6, <1>7, <2>2 DEF Inv, StoryInv
  <2> QED BY <1>1, <2>1, <2>2 DEF StoryInv
<1>9. ~IsProcess(table', Len(table'.rows))
  BY <1>3, <1>5
<1>10. LastInv'
  BY <1>1, <1>9 DEF LastInv
<1>11. SameProcesses(table, table')
  <2>1. /\ Len(table.rows) \in Nat /\ Len(table'.rows) = Len(table.rows) + 1
        /\ \A r \in 1..Len(table.rows) : table'.rows[r] = table.rows[r]
        /\ ~IsProcess(table', Len(table.rows) + 1)
    BY <1>3, <1>5
  <2> QED BY ONLY <2>1, OtherRow
<1> QED BY <1>8, <1>10, <1>11

\* A delimiter follows, or nothing.
LEMMA EndThreadsStep ==
  ASSUME Inv, EndThreads
  PROVE  StoryInv' /\ LastInv' /\ SameProcesses(table, table')
<1> DEFINE n == Len(table.rows)
           new == [delimiter |-> TRUE, cells |-> <<>>]
<1>1. /\ pc' = "next" /\ reused' = reused /\ table \in TableTypes
      /\ table' = table \/ table' = AddDelimiter(table)
  BY DEF EndThreads, Goto, world, procVars, Inv, ToolInv
<1>2. LastInv'
  BY <1>1 DEF LastInv
<1>3. CASE table' = table
  <2>1. SameProcesses(table, table')
    BY <1>3 DEF SameProcesses
  <2> QED BY <1>1, <1>2, <1>3, <2>1 DEF Inv, StoryInv
<1>4. CASE table' = AddDelimiter(table)
  <2>1. new \in TableRows /\ new.cells = <<>> /\ Len(<<>>) = 0
    BY EmptySeq DEF TableRows, RowCells
  <2>2. table' = [table EXCEPT !.rows = Append(@, new)]
    BY <1>4 DEF AddDelimiter
  <2> HIDE DEF new
  <2>3. /\ n \in Nat /\ Len(table'.rows) = n + 1
        /\ \A r \in 1..n : table'.rows[r] = table.rows[r]
        /\ table'.rows[Len(table'.rows)] = new
    BY <1>1, <2>1, <2>2, RowAdded
  <2>4. CellsOf(table', n + 1) = <<>>
    BY <2>1, <2>3 DEF CellsOf
  <2>5. Len(CellsOf(table', n + 1)) # 3 /\ Len(CellsOf(table', n + 1)) # 12
    <3>1. Len(<<>>) # 3 /\ Len(<<>>) # 12
      BY EmptySeq
    <3> QED BY <2>4, <3>1, Zenon
  <2>6. ~IsProcess(table', n + 1)
    BY <2>5, Zenon DEF IsProcess
  <2>7. /\ TitledRows(table) => TitledRows(table')
        /\ Stories(table) /\ (Len(CellsOf(table', n + 1)) = 3 /\ n # 0 /\ IsProcess(table, n) =>
                                CellsOf(table, n)[12][2] # Unknown) => Stories(table')
    <3>1. /\ n \in Nat /\ Len(table'.rows) = n + 1
          /\ \A r \in 1..n : table'.rows[r] = table.rows[r]
          /\ ~IsProcess(table', n + 1)
      BY <2>3, <2>6
    <3> QED BY ONLY <3>1, RowFollows
  <2>8. (TitledRows(table) => TitledRows(table')) /\ (Stories(table) => Stories(table'))
    BY <2>5, <2>7, Zenon
  <2>9. SameProcesses(table, table')
    <3>1. /\ Len(table.rows) \in Nat /\ Len(table'.rows) = Len(table.rows) + 1
          /\ \A r \in 1..Len(table.rows) : table'.rows[r] = table.rows[r]
          /\ ~IsProcess(table', Len(table.rows) + 1)
      BY <2>3, <2>6
    <3> QED BY ONLY <3>1, OtherRow
  <2> QED BY <1>1, <1>2, <2>8, <2>9 DEF Inv, StoryInv
<1> QED BY <1>1, <1>3, <1>4

\* The table begins.
LEMMA BeginStep ==
  ASSUME Inv, Begin
  PROVE  /\ StoryInv' /\ LastInv'
         /\ table' = table \/ ProcessesOf(table') = {}
<1>1. /\ pc' = "find" /\ reused' = reused
      /\ table' = table \/ table' = Header \/ table' = AddHeadings(Header, "PID")
  BY DEF Begin, Goto, world, procVars
<1>2. LastInv'
  BY <1>1 DEF LastInv
<1>3. /\ Header \in TableTypes /\ TitledRows(Header) /\ Stories(Header)
      /\ ProcessesOf(Header) = {}
  <2>1. Header = [rows |-> <<>>, label |-> 9, start |-> 3, end |-> 7]
    BY DEF Header, MultiColHeader, EmptyTable
  <2>2. Header \in TableTypes /\ Len(Header.rows) = 0
    BY <2>1, EmptySeq DEF TableTypes
  <2> QED BY <2>2 DEF TitledRows, Stories, ProcessesOf
<1>4. TitledRows(AddHeadings(Header, "PID")) /\ Stories(AddHeadings(Header, "PID"))
  BY <1>3, HeadingsRow
<1>5. ProcessesOf(AddHeadings(Header, "PID")) = {}
  BY <1>3, HeadingsRow DEF SameProcesses
<1> QED BY <1>1, <1>2, <1>3, <1>4, <1>5 DEF Inv, StoryInv

\* While a row is made, the process can go, but not come back.
LEMMA WorldRowStep ==
  ASSUME Inv, World
  PROVE  StoryInv' /\ LastInv'
<1>1. UNCHANGED <<pc, table, threads, list, row>> /\ ProcNext
  BY DEF World, toolVars
<1>2. ~reused' => ~reused
  BY OnceReused DEF Next
<1>3. StoryInv'
  BY <1>1, <1>2 DEF Inv, StoryInv
<1>4. LastCells' = LastCells /\ \A k : Partial(k)' <=> Partial(k)
  BY <1>1 DEF LastCells, CellsOf, Partial
<1>5. ASSUME pc \in InRow, ~reused', ~Exists(list[row])
      PROVE  ~Exists(list[row])'
  <2>1. list[row] \in Pids /\ list[row] <= lastPid
    BY <1>5, RowTypes DEF Inv, ToolInv
  <2>2. PICK p \in Pids : p = list[row] /\ p = list'[row']
    BY <1>1, <2>1
  <2>3. ~Exists(p)'
    BY <1>1, <1>5, <2>1, <2>2, GoneStays DEF Inv, WorldInv
  <2> QED BY <2>2, <2>3
<1>6. LastInv'
  <2>1. pc' = "smaps" => Partial(5)'
    BY <1>1, <1>4 DEF Inv, LastInv
  <2>2. pc' = "oom" =>
          /\ Partial(10)'
          /\ ~reused' /\ LastCells'[7][2] = Unknown => ~Exists(list[row])'
    BY <1>1, <1>2, <1>4, <1>5 DEF Inv, LastInv, InRow
  <2>3. pc' = "user" =>
          /\ Partial(11)'
          /\ ~reused' => /\ LastCells'[7][2] = Unknown => LastCells'[11][2] = Unknown
                         /\ LastCells'[11][2] = Unknown => ~Exists(list[row])'
    BY <1>1, <1>2, <1>4, <1>5 DEF Inv, LastInv, InRow
  <2>4. pc' = "tasks" =>
          /\ Partial(12)'
          /\ ~reused' /\ LastCells'[12][2] = Unknown => ~Exists(list[row])'
    BY <1>1, <1>2, <1>4, <1>5 DEF Inv, LastInv, InRow
  <2>5. pc' = "thread" /\ threads' > 0 /\ ~reused' /\ table'.rows # <<>> =>
          (IsProcess(table', Len(table'.rows)) => LastCells'[12][2] # Unknown)
    BY <1>1, <1>2, <1>4 DEF Inv, LastInv
  <2> QED BY <2>1, <2>2, <2>3, <2>4, <2>5 DEF LastInv
<1> QED BY <1>3, <1>6

\* Every step keeps the story of each row.
LEMMA RowsStep ==
  ASSUME Inv, [Next]_vars
  PROVE  StoryInv' /\ LastInv'
<1>1. CASE /\ UNCHANGED <<table, reused>>
           /\ pc' \notin {"smaps", "oom", "user", "tasks", "thread"}
  BY <1>1 DEF Inv, StoryInv, LastInv
<1>2. CASE UNCHANGED vars
  BY <1>2 DEF Inv, StoryInv, LastInv, LastCells, CellsOf, Partial, Exists, vars, world,
              procVars, toolVars
<1>3. ASSUME \/ BadUsage \/ Help \/ BeginLook \/ LookFails \/ Found \/ PrintPids
             \/ NextRow \/ EndRows \/ Abort \/ PrintTable \/ MeminfoFails \/ BeginSum
             \/ EndSum \/ PrintLmk \/ \E p \in Pids : AddPss(p)
      PROVE  /\ UNCHANGED <<table, reused>>
             /\ pc' \notin {"smaps", "oom", "user", "tasks", "thread"}
  BY <1>3 DEF BadUsage, Help, BeginLook, LookFails, Found, PrintPids, NextRow, EndRows,
              Abort, PrintTable, MeminfoFails, BeginSum, EndSum, PrintLmk, AddPss,
              ExitWith, Goto, world, procVars
<1> QED BY <1>1, <1>2, <1>3, BeginStep, ShowThreadStep, EndThreadsStep, WorldRowStep,
           BeginRowStep, ReadSmapsStep, ReadOomAdjStep, ReadUserStep, ReadTasksStep
        DEF Next, Step, ProcessRow

-----------------------------------------------------------------------------
\* The inductive invariant holds from the start and after each step of b2g-info
\* (b2g-info.cpp:276-341) and of the processes it looks at.
THEOREM Invariance == Spec => []Inv
<1>1. Init => Inv
  BY InitInv
<1>2. Inv /\ [Next]_vars => Inv'
  <2> SUFFICES ASSUME Inv, [Next]_vars PROVE Inv'
    OBVIOUS
  <2>1. WorldInv' /\ ToolInv' /\ ListInv'
    BY WorldStep, ToolStep, ListStep
  <2>2. PrintedInv' /\ StoryInv' /\ LastInv' /\ MemInv'
    BY PrintedStep, RowsStep, MemStep
  <2> QED BY <2>1, <2>2 DEF Inv
<1> QED BY <1>1, <1>2, PTL DEF Spec

\* The values of b2g-info and of the process table keep their types.
THEOREM TypeCorrect == Spec => []TypeOK
<1>1. Inv => TypeOK
  BY DEF Inv, WorldInv, ToolInv, InRow, AfterRows, TypeOK
<1> QED BY <1>1, Invariance, PTL

\* The cells of the row of a process, found by their headings.
LEMMA CellHeaded ==
  ASSUME Inv, NEW r \in ProcessRows
  PROVE  /\ Cell(r, "PSS") = CellsOf(table, r)[7][2]
         /\ Cell(r, "OOM_ADJ") = CellsOf(table, r)[11][2]
         /\ Cell(r, "USER") = CellsOf(table, r)[12][2]
<1> DEFINE cells == CellsOf(table, r)
<1>1. r \in 1..Len(table.rows) /\ IsProcess(table, r) /\ Len(cells) = 12
  BY DEF ProcessRows, IsProcess, CellsOf
<1>2. cells \in RowCells
  <2>1. table.rows \in Seq(TableRows)
    BY DEF Inv, ToolInv, TableTypes
  <2>2. table.rows[r] \in TableRows
    BY <1>1, <2>1, ElementOfSeq
  <2> QED BY <2>2 DEF TableRows, CellsOf
<1>3. Titled(cells)
  BY <1>1 DEF Inv, StoryInv, TitledRows
<1>4. ToSet(cells) = {cells[j] : j \in 1..12}
  BY <1>1, <1>2, LenProperties DEF ToSet, RowCells
<1>5. ToSet(table.rows[r].cells) = {cells[j] : j \in 1..12}
  BY <1>4 DEF CellsOf
<1> HIDE DEF cells
<1>6. \A j \in 1..12 : j = 1 \/ j = 2 \/ j = 3 \/ j = 4 \/ j = 5 \/ j = 6 \/ j = 7
                        \/ j = 8 \/ j = 9 \/ j = 10 \/ j = 11 \/ j = 12
  OBVIOUS
<1>7. /\ cells[1][1] = "NAME" /\ cells[2][1] \in {"PID", "TID"} /\ cells[3][1] = "PPID"
      /\ cells[4][1] = "CPU(s)" /\ cells[5][1] = "NICE" /\ cells[6][1] = "USS"
      /\ cells[7][1] = "PSS" /\ cells[8][1] = "RSS" /\ cells[9][1] = "SWAP"
      /\ cells[10][1] = "VSIZE" /\ cells[11][1] = "OOM_ADJ" /\ cells[12][1] = "USER"
  <2>1. \A j \in 1..12 : cells[j][1] = Headings("PID")[j] \/ (j = 2 /\ cells[j][1] = "TID")
    BY <1>1, <1>3 DEF Titled
  <2> QED BY <2>1, HeadingsList
<1>8. /\ \A j \in 1..12 : cells[j][1] = "PSS" => j = 7
      /\ \A j \in 1..12 : cells[j][1] = "OOM_ADJ" => j = 11
      /\ \A j \in 1..12 : cells[j][1] = "USER" => j = 12
  BY <1>6, <1>7
<1>9. Cell(r, "PSS") = cells[7][2]
  <2>1. (CHOOSE c \in {cells[j] : j \in 1..12} : c[1] = "PSS") = cells[7]
    BY <1>7, <1>8
  <2> QED BY <1>5, <2>1 DEF Cell
<1>10. Cell(r, "OOM_ADJ") = cells[11][2]
  <2>1. (CHOOSE c \in {cells[j] : j \in 1..12} : c[1] = "OOM_ADJ") = cells[11]
    BY <1>7, <1>8
  <2> QED BY <1>5, <2>1 DEF Cell
<1>11. Cell(r, "USER") = cells[12][2]
  <2>1. (CHOOSE c \in {cells[j] : j \in 1..12} : c[1] = "USER") = cells[12]
    BY <1>7, <1>8
  <2> QED BY <1>5, <2>1 DEF Cell
<1> QED BY <1>9, <1>10, <1>11 DEF cells

\* While no pid is given twice, no row shows something that was read of a
\* process after something that could not be read any more, although each
\* cell comes from a system call of its own (b2g-info.cpp:292-330).
THEOREM OneStoryEach == Spec => []RowsTellOneStory
<1>1. Inv => RowsTellOneStory
  <2> SUFFICES ASSUME Inv, ~reused, NEW r \in ProcessRows
               PROVE  /\ Cell(r, "PSS") = Unknown => Cell(r, "OOM_ADJ") = Unknown
                      /\ Cell(r, "OOM_ADJ") = Unknown => Cell(r, "USER") = Unknown
                      /\ Cell(r, "USER") = Unknown => ~ThreadsUnder(r)
    BY DEF RowsTellOneStory
  <2>1. r \in 1..Len(table.rows) /\ IsProcess(table, r)
    BY DEF ProcessRows, IsProcess, CellsOf
  <2>2. /\ OneStory(CellsOf(table, r))
        /\ CellsOf(table, r)[12][2] = Unknown => ~Followed(table, r)
    BY <2>1 DEF Inv, StoryInv, Stories
  <2>3. Followed(table, r) <=> ThreadsUnder(r)
    BY DEF Followed, ThreadsUnder, CellsOf
  <2> QED BY <2>2, <2>3, CellHeaded DEF OneStory
<1> QED BY <1>1, Invariance, PTL

\* A run that ends well has shown each process that was a B2G process all
\* through the look-up, none that was one at no time of it, and none twice,
\* whichever of its lists it was asked for (b2g-info.cpp:276-341, 394-397).
THEOREM RegularReport == Spec => []ReportIsRegular
<1> DEFINE whole == IF option = "main" THEN printed \o Tail(list)
                    ELSE IF option = "child" THEN <<Head(list)>> \o printed
                    ELSE printed
<1>1. ASSUME Inv, code = 0, option \in Listing \cup Showing
      PROVE  whole = list
  <2>1. list \in Seq(Pids) /\ printed \in Seq(Pids)
    BY <1>1 DEF Inv, ToolInv
  <2>2. CASE option \in Showing
    <3>1. Len(printed) = Len(list) /\ \A j \in 1..Len(printed) : printed[j] = list[j]
      BY <1>1, <2>2 DEF Inv, PrintedInv
    <3>2. printed = list
      BY <2>1, <3>1, SeqEqual
    <3> QED BY <2>2, <3>2 DEF Showing
  <2>3. CASE option \in Listing
    <3>1. list # <<>>
      BY <1>1, <2>3 DEF Inv, ListInv, ListKnown
    <3>2. <<Head(list)>> \o Tail(list) = list
      BY <2>1, <3>1
    <3>3. /\ option = "pids" => printed = list
          /\ option = "main" => printed = <<Head(list)>>
          /\ option = "child" => printed = Tail(list)
      BY <1>1 DEF Inv, PrintedInv
    <3> QED BY <2>3, <3>2, <3>3 DEF Listing
  <2> QED BY <1>1, <2>2, <2>3
<1>2. ASSUME Inv, code = 0, option \in Listing \cup Showing
      PROVE  /\ IsRoot => steady \subseteq ToSet(list)
             /\ ToSet(list) \subseteq seen
             /\ Len(list) = Cardinality(ToSet(list))
  <2> DEFINE n == Len(list)
             image == ToSet(list)
  <2>1. list \in Seq(Pids) /\ n \in Nat /\ DOMAIN list = 1..n
    BY <1>2, LenProperties DEF Inv, ToolInv
  <2>2. image = {list[j] : j \in 1..n}
    BY <2>1 DEF ToSet
  <2>3. /\ \A j, k \in 1..n : list[j] = list[k] => j = k
        /\ \A j \in 1..n : list[j] \in seen
        /\ IsRoot => \A p \in steady : \E j \in 1..n : list[j] = p
    BY <1>2 DEF Inv, ListInv, ListKnown
  <2> HIDE DEF n, image
  <2>4. list \in [1..n -> image]
    BY <2>1, <2>2
  <2>5. list \in Bijection(1..n, image)
    BY <2>2, <2>3, <2>4 DEF Bijection, Injection, Surjection, IsInjective
  <2>6. IsFiniteSet(1..n) /\ Cardinality(1..n) = n
    <3>1. IsFiniteSet(1..n) /\ Cardinality(1..n) = IF 1 > n THEN 0 ELSE n - 1 + 1
      BY <2>1, FS_Interval
    <3> QED BY <2>1, <3>1
  <2>7. ExistsBijection(1..n, image)
    BY <2>5 DEF ExistsBijection
  <2>8. Cardinality(image) = n
    BY <2>6, <2>7, FS_Bijection
  <2>9. (IsRoot => steady \subseteq image) /\ image \subseteq seen
    BY <2>2, <2>3
  <2> QED BY <2>8, <2>9 DEF n, image
<1>3. Inv => ReportIsRegular
  <2> SUFFICES ASSUME Inv, code = 0, option \in Listing \cup Showing
               PROVE  /\ IsRoot => steady \subseteq ToSet(whole)
                      /\ ToSet(whole) \subseteq seen
                      /\ Len(whole) = Cardinality(ToSet(whole))
    BY DEF ReportIsRegular
  <2> HIDE DEF whole
  <2> QED BY <1>1, <1>2
<1> QED BY <1>3, Invariance, PTL

-----------------------------------------------------------------------------
(***************************************************************************)
(* The sum of the PSS column (TotalMatchesRows).  Each process of the list *)
(* has one row as soon as its row is complete, with the size that pss      *)
(* keeps from then on; total is the sum of those over the list.            *)
(***************************************************************************)
\* So many processes of the list have their rows.
Done ==
  IF pc \in {"tasks", "thread", "next"} THEN row
  ELSE IF pc \in {"sum", "lmk"} THEN Len(list)
  ELSE row - 1

RowsCounted ==
  pc \notin {"pids", "exited"} =>
    /\ \A r \in ProcessesOf(table) : \E j \in 1..Done : PidOf(table, r) = list[j]
    /\ \A j \in 1..Done : \E r \in ProcessesOf(table) : PidOf(table, r) = list[j]
    /\ \A q, r \in ProcessesOf(table) : PidOf(table, q) = PidOf(table, r) => q = r
    /\ \A r \in ProcessesOf(table) :
         PidOf(table, r) \in gotMem /\ CellsOf(table, r)[7][2] = pss[PidOf(table, r)]

LastCounted ==
  /\ pc \in {"smaps", "oom", "user"} => LastCells[2][2] = list[row]
  /\ pc \in {"oom", "user"} => list[row] \in gotMem /\ LastCells[7][2] = pss[list[row]]

Summed ==
  /\ pc \notin {"sum", "lmk", "exited"} => total = 0
  /\ pc \in {"print", "meminfo"} => row = Len(list) + 1
  /\ pc = "sum" =>
       \E f : /\ IsSum(f, 1..Len(list), [j \in 1..Len(list) |-> pss[list[j]]])
              /\ total = f[1..row - 1]

SumInv == RowsCounted /\ LastCounted /\ Summed

\* What a step leaves alone.
LEMMA CountedKept ==
  ASSUME RowsCounted, pc \notin {"pids", "exited"}, SameProcesses(table, table'),
         Done' = Done, list' = list,
         \A p \in gotMem : p \in gotMem' /\ pss'[p] = pss[p]
  PROVE  RowsCounted'
<1>1. /\ ProcessesOf(table') = ProcessesOf(table)
      /\ \A r \in ProcessesOf(table) : /\ CellsOf(table', r) = CellsOf(table, r)
                                       /\ PidOf(table', r) = PidOf(table, r)
  BY DEF SameProcesses, PidOf
<1>2. /\ \A r \in ProcessesOf(table) : \E j \in 1..Done : PidOf(table, r) = list[j]
      /\ \A j \in 1..Done : \E r \in ProcessesOf(table) : PidOf(table, r) = list[j]
      /\ \A q, r \in ProcessesOf(table) : PidOf(table, q) = PidOf(table, r) => q = r
      /\ \A r \in ProcessesOf(table) :
           PidOf(table, r) \in gotMem /\ CellsOf(table, r)[7][2] = pss[PidOf(table, r)]
  BY DEF RowsCounted
<1>3. /\ \A r \in ProcessesOf(table') : \E j \in 1..Done' : PidOf(table', r) = list'[j]
      /\ \A j \in 1..Done' : \E r \in ProcessesOf(table') : PidOf(table', r) = list'[j]
  BY <1>1, <1>2
<1>4. \A q, r \in ProcessesOf(table') : PidOf(table', q) = PidOf(table', r) => q = r
  BY <1>1, <1>2
<1>5. \A r \in ProcessesOf(table') :
        PidOf(table', r) \in gotMem' /\ CellsOf(table', r)[7][2] = pss'[PidOf(table', r)]
  BY <1>1, <1>2
<1> QED BY <1>3, <1>4, <1>5 DEF RowsCounted

\* The row of a process is complete.
LEMMA UserCounts ==
  ASSUME Inv, SumInv, NEW p \in Pids, ReadUser(p)
  PROVE  RowsCounted'
<1> DEFINE n == Len(table'.rows)
<1>1. /\ pc = "user" /\ p = list[row] /\ pc' \in {"tasks", "next"}
      /\ UNCHANGED <<list, row, gotMem, pss>>
  BY DEF ReadUser, Goto
<1>2. /\ LastMakes(table, table', TRUE)
      /\ LastCells'[2] = LastCells[2] /\ LastCells'[7] = LastCells[7]
  BY ReadUserStep DEF Inv
<1>3. /\ ProcessesOf(table') = ProcessesOf(table) \cup {n} /\ n \notin ProcessesOf(table)
      /\ \A r \in ProcessesOf(table) : /\ CellsOf(table', r) = CellsOf(table, r)
                                       /\ PidOf(table', r) = PidOf(table, r)
  BY <1>2 DEF LastMakes, PidOf
<1>4. /\ PidOf(table', n) = p /\ p \in gotMem /\ CellsOf(table', n)[7][2] = pss[p]
  BY <1>1, <1>2 DEF SumInv, LastCounted, LastCells, PidOf
<1> HIDE DEF n
<1>5. /\ row \in 1..Len(list) /\ row \in Nat /\ Done = row - 1 /\ Done' = row
      /\ \A j \in 1..row - 1 : list[j] # p
  <2>1. row \in 1..Len(list) /\ row \in Nat
    BY <1>1 DEF Inv, ToolInv, InRow
  <2>2. Done = row - 1 /\ Done' = row
    BY <1>1 DEF Done
  <2>3. \A j \in 1..row - 1 : list[j] # p
    BY <1>1, <2>1 DEF Inv, ListInv
  <2> QED BY <2>1, <2>2, <2>3
<1>6. /\ \A r \in ProcessesOf(table) : \E j \in 1..row - 1 : PidOf(table, r) = list[j]
      /\ \A j \in 1..row - 1 : \E r \in ProcessesOf(table) : PidOf(table, r) = list[j]
      /\ \A q, r \in ProcessesOf(table) : PidOf(table, q) = PidOf(table, r) => q = r
      /\ \A r \in ProcessesOf(table) :
           PidOf(table, r) \in gotMem /\ CellsOf(table, r)[7][2] = pss[PidOf(table, r)]
  BY <1>1, <1>5 DEF SumInv, RowsCounted
<1>7. 1..row = 1..row - 1 \cup {row}
  BY <1>5
<1>8. ASSUME NEW r \in ProcessesOf(table)
      PROVE  PidOf(table, r) # p
  <2>1. PICK j \in 1..row - 1 : PidOf(table, r) = list[j]
    BY <1>6
  <2>2. list[j] # p
    BY <1>5
  <2> QED BY <2>1, <2>2
<1>9. \A r \in ProcessesOf(table') : \E j \in 1..row : PidOf(table', r) = list[j]
  BY <1>1, <1>3, <1>4, <1>6, <1>7
<1>10. \A j \in 1..row : \E r \in ProcessesOf(table') : PidOf(table', r) = list[j]
  BY <1>1, <1>3, <1>4, <1>6, <1>7
<1>11. \A q, r \in ProcessesOf(table') : PidOf(table', q) = PidOf(table', r) => q = r
  BY <1>3, <1>4, <1>6, <1>8
<1>12. \A r \in ProcessesOf(table') :
         PidOf(table', r) \in gotMem /\ CellsOf(table', r)[7][2] = pss[PidOf(table', r)]
  BY <1>3, <1>4, <1>6
<1> QED BY <1>1, <1>5, <1>9, <1>10, <1>11, <1>12 DEF RowsCounted

\* The sizes of the processes of the list, and their sums.
ListPss == [j \in 1..Len(list) |-> pss[list[j]]]

\* The sizes of a list can be added up.
LEMMA ListSums ==
  ASSUME ToolInv
  PROVE  \E f : IsSum(f, 1..Len(list), ListPss)
<1>1. \A j \in 1..Len(list) : ListPss[j] \in Int
  BY DEF ToolInv, ListPss, Unknown
<1>2. IsFiniteSet(1..Len(list))
  BY FS_Interval DEF ToolInv
<1>3. \E f : AddsUp(f, 1..Len(list), ListPss)
  BY ONLY <1>1, <1>2, SumExists
<1> QED BY <1>1, <1>2, <1>3, SumOrder

\* The size of a process that has a row is added as it is there.
LEMMA AddPssCounts ==
  ASSUME Inv, SumInv, NEW p \in Pids, AddPss(p)
  PROVE  SumInv'
<1>1. /\ pc = "sum" /\ pc' = "sum" /\ row \in 1..Len(list) /\ p = list[row]
      /\ UNCHANGED <<list, table>> /\ row' = row + 1 /\ gotMem' = gotMem \cup {p}
  BY DEF AddPss, Goto, Inv, ToolInv
<1>2. p \in gotMem
  <2>1. Done = Len(list)
    BY <1>1 DEF Done
  <2> QED BY <1>1, <2>1 DEF SumInv, RowsCounted
<1>3. pss' = pss /\ total' = total + pss[p]
  BY <1>2 DEF AddPss, Pss, Inv, ToolInv
<1>4. RowsCounted'
  <2>1. SameProcesses(table, table')
    BY <1>1 DEF SameProcesses
  <2>2. Done' = Done
    BY <1>1 DEF Done
  <2> QED BY <1>1, <1>3, <2>1, <2>2, CountedKept DEF SumInv
<1>5. PICK f : IsSum(f, 1..Len(list), ListPss) /\ total = f[1..row - 1]
  BY <1>1 DEF SumInv, Summed, ListPss
<1>6. total' = f[1..row]
  <2>1. /\ 1..row \in SUBSET (1..Len(list)) /\ row \in 1..row
        /\ (1..row) \ {row} = 1..row - 1
    BY <1>1
  <2> DEFINE s == 1..row
             S == 1..Len(list)
  <2>5. s \in SUBSET S /\ row \in s /\ s \ {row} = 1..row - 1 /\ IsSum(f, S, ListPss)
    BY <1>5, <2>1
  <2> HIDE DEF s, S
  <2>6. f[s] = ListPss[row] + f[s \ {row}]
    BY <2>5 DEF IsSum
  <2>2. f[1..row] = ListPss[row] + f[1..row - 1]
    BY <2>5, <2>6 DEF s
  <2>3. ListPss[row] = pss[p] /\ pss[p] \in Int
    BY <1>1 DEF ListPss, Inv, ToolInv, Unknown
  <2>4. f[1..row - 1] \in Int
    BY <1>5, <2>1 DEF IsSum
  <2> QED BY <1>3, <1>5, <2>2, <2>3, <2>4
<1>7. row' - 1 = row
  BY <1>1
<1>8. Summed'
  BY <1>1, <1>3, <1>5, <1>6, <1>7 DEF Summed, ListPss
<1> QED BY <1>1, <1>4, <1>8 DEF SumInv, LastCounted

\* The steps that change the row.
LEMMA RowCounts ==
  ASSUME Inv, SumInv, NEW p \in Pids, ProcessRow(p)
  PROVE  SumInv'
<1>1. Summed'
  BY DEF ProcessRow, BeginRow, ReadSmaps, ReadOomAdj, ReadUser, ReadTasks, AfterTasks, Goto,
         SumInv, Summed
<1>2. pc \notin {"pids", "exited"}
  BY DEF ProcessRow, BeginRow, ReadSmaps, ReadOomAdj, ReadUser, ReadTasks
<1>3. CASE BeginRow(p)
  <2>1. SameProcesses(table, table') /\ LastCells'[2][2] = p
    BY <1>3, BeginRowStep
  <2>2. /\ pc = "row" /\ pc' = "smaps" /\ p = list[row] /\ UNCHANGED <<list, row, gotMem, pss>>
    BY <1>3 DEF BeginRow, Goto
  <2>3. Done' = Done
    BY <2>2 DEF Done
  <2>4. RowsCounted'
    BY <1>2, <2>1, <2>2, <2>3, CountedKept DEF SumInv
  <2> QED BY <1>1, <2>1, <2>2, <2>4 DEF SumInv, LastCounted
<1>4. CASE ReadSmaps(p)
  <2>1. /\ SameProcesses(table, table') /\ LastCells'[2] = LastCells[2]
        /\ \E kb \in Pss(p) : pss' = [pss EXCEPT ![p] = kb] /\ LastCells'[7][2] = kb
    BY <1>4, ReadSmapsStep
  <2>2. /\ pc = "smaps" /\ pc' = "oom" /\ p = list[row] /\ UNCHANGED <<list, row>>
        /\ gotMem' = gotMem \cup {p}
    BY <1>4 DEF ReadSmaps, Goto
  <2>3. Done' = Done
    BY <2>2 DEF Done
  <2>4. pss'[p] = LastCells'[7][2] /\ \A q \in gotMem : pss'[q] = pss[q]
    BY <2>1 DEF Pss, Inv, ToolInv
  <2>5. RowsCounted'
    BY <1>2, <2>1, <2>2, <2>3, <2>4, CountedKept DEF SumInv
  <2> QED BY <1>1, <2>1, <2>2, <2>4, <2>5 DEF SumInv, LastCounted
<1>5. CASE ReadOomAdj(p)
  <2>1. /\ SameProcesses(table, table')
        /\ LastCells'[2] = LastCells[2] /\ LastCells'[7] = LastCells[7]
    BY <1>5, ReadOomAdjStep
  <2>2. /\ pc = "oom" /\ pc' = "user" /\ UNCHANGED <<list, row, gotMem, pss>>
    BY <1>5 DEF ReadOomAdj, Goto
  <2>3. Done' = Done
    BY <2>2 DEF Done
  <2>4. RowsCounted'
    BY <1>2, <2>1, <2>2, <2>3, CountedKept DEF SumInv
  <2> QED BY <1>1, <2>1, <2>2, <2>4 DEF SumInv, LastCounted
<1>6. CASE ReadUser(p)
  <2>1. RowsCounted'
    BY <1>6, UserCounts
  <2>2. pc' \in {"tasks", "next"}
    BY <1>6 DEF ReadUser, Goto
  <2> QED BY <1>1, <2>1, <2>2 DEF SumInv, LastCounted
<1>7. CASE ReadTasks(p)
  <2>1. pc = "tasks" /\ pc' = "thread" /\ UNCHANGED <<list, row, gotMem, pss, table>>
    BY <1>7 DEF ReadTasks, AfterTasks, Goto
  <2>2. Done' = Done /\ SameProcesses(table, table')
    BY <2>1 DEF Done, SameProcesses
  <2>3. RowsCounted'
    BY <1>2, <2>1, <2>2, CountedKept DEF SumInv
  <2> QED BY <1>1, <2>1, <2>3 DEF SumInv, LastCounted
<1> QED BY <1>3, <1>4, <1>5, <1>6, <1>7 DEF ProcessRow

\* Every step keeps the count.
LEMMA CountStep ==
  ASSUME Inv, SumInv, [Next]_vars
  PROVE  SumInv'
<1>0. /\ row \in 1..Len(list) + 1 /\ Len(list) \in Nat
      /\ pc \in {"start", "find", "look"} => list = <<>> /\ row = 1
      /\ pc \in InRow => row <= Len(list)
  BY DEF Inv, ToolInv
<1>1. ASSUME pc' = "exited"
      PROVE  SumInv'
  BY <1>1 DEF SumInv, RowsCounted, LastCounted, Summed
<1>2. CASE UNCHANGED vars \/ World
  <2>1. UNCHANGED toolVars
    BY <1>2 DEF World, vars
  <2>2. UNCHANGED <<pc, list, row, gotMem, pss, table, total>>
    BY <2>1 DEF toolVars
  <2>3. ProcessesOf(table') = ProcessesOf(table) /\ Done' = Done /\ LastCells' = LastCells
        /\ SameProcesses(table, table')
    BY <2>2 DEF Done, LastCells, SameProcesses
  <2>4. RowsCounted'
    BY <2>2, <2>3, CountedKept DEF SumInv, RowsCounted
  <2> QED BY <2>2, <2>3, <2>4 DEF SumInv, LastCounted, Summed
<1>3. CASE BadUsage \/ Help \/ LookFails \/ PrintPids \/ Abort \/ PrintLmk
  BY <1>1, <1>3 DEF BadUsage, Help, LookFails, PrintPids, Abort, PrintLmk, ExitWith
<1>4. CASE Begin
  <2>1. /\ pc = "start" /\ pc' = "find" /\ UNCHANGED <<list, row, gotMem, pss, total>>
        /\ table' = table \/ ProcessesOf(table') = {}
    BY <1>4, BeginStep DEF Begin, Goto
  <2>2. Done = 0 /\ Done' = 0
    BY <1>0, <2>1 DEF Done
  <2>3. ProcessesOf(table') = {}
    BY <2>1, <2>2 DEF SumInv, RowsCounted
  <2>4. RowsCounted'
    BY <2>2, <2>3 DEF RowsCounted
  <2> QED BY <2>1, <2>4 DEF SumInv, LastCounted, Summed
<1>5. CASE Found
  <2>1. pc = "look" /\ pc' \in {"pids", "row"} /\ UNCHANGED <<row, gotMem, pss, table, total>>
    BY <1>5 DEF Found, Goto
  <2>2. Done = 0 /\ Done' = 0
    BY <1>0, <2>1 DEF Done
  <2>3. ProcessesOf(table') = {}
    BY <2>1, <2>2 DEF SumInv, RowsCounted
  <2>4. RowsCounted'
    BY <2>2, <2>3 DEF RowsCounted
  <2> QED BY <2>1, <2>4 DEF SumInv, LastCounted, Summed
<1>6. CASE ShowThread \/ EndThreads
  <2>1. /\ pc = "thread" /\ pc' \in {"thread", "next"}
        /\ UNCHANGED <<list, row, gotMem, pss, total>>
    BY <1>6 DEF ShowThread, EndThreads, Goto
  <2>2. SameProcesses(table, table')
    BY <1>6, ShowThreadStep, EndThreadsStep
  <2>3. Done' = Done
    BY <2>1 DEF Done
  <2>4. RowsCounted'
    BY <2>1, <2>2, <2>3, CountedKept DEF SumInv
  <2> QED BY <2>1, <2>4 DEF SumInv, LastCounted, Summed
<1>7. CASE BeginLook \/ NextRow \/ EndRows \/ PrintTable \/ MeminfoFails \/ EndSum
  <2>1. UNCHANGED <<list, gotMem, pss, table, total>>
    BY <1>7 DEF BeginLook, NextRow, EndRows, PrintTable, MeminfoFails, EndSum
  <2>2. /\ Done' = Done /\ pc \notin {"pids", "exited"}
        /\ pc' \in {"look", "row", "print", "meminfo", "lmk"}
        /\ pc' \in {"print", "meminfo"} => row' = Len(list) + 1
        /\ pc \in {"sum", "lmk", "exited"} => pc' = "lmk"
    BY <1>0, <1>7 DEF BeginLook, NextRow, EndRows, PrintTable, MeminfoFails, EndSum, Goto,
                      MoreRows, Done, SumInv, Summed
  <2>3. SameProcesses(table, table')
    BY <2>1 DEF SameProcesses
  <2>4. RowsCounted'
    BY <2>1, <2>2, <2>3, CountedKept DEF SumInv
  <2> QED BY <2>1, <2>2, <2>4 DEF SumInv, LastCounted, Summed
<1>8. CASE BeginSum
  <2>1. /\ pc = "meminfo" /\ pc' = "sum" /\ row' = 1
        /\ UNCHANGED <<list, gotMem, pss, table, total>>
    BY <1>8 DEF BeginSum, Goto
  <2>2. Done' = Done /\ total = 0 /\ SameProcesses(table, table')
    BY <1>0, <2>1 DEF Done, SumInv, Summed, SameProcesses
  <2>3. RowsCounted'
    BY <2>1, <2>2, CountedKept DEF SumInv
  <2>4. PICK f : IsSum(f, 1..Len(list), ListPss)
    BY ListSums DEF Inv
  <2>5. 1..row' - 1 = {} /\ f[{}] = 0
    BY <2>1, <2>4 DEF IsSum
  <2>6. Summed'
    BY <2>1, <2>2, <2>4, <2>5 DEF Summed, ListPss
  <2> QED BY <2>1, <2>3, <2>6 DEF SumInv, LastCounted
<1> QED BY <1>2, <1>3, <1>4, <1>5, <1>6, <1>7, <1>8, RowCounts, AddPssCounts DEF Next, Step

\* "B2G procs (PSS)" is the sum of the column PSS of the processes, whatever
\* happens to them between their rows and the sum (b2g-info.cpp:175-179,
\* process.cpp:322-324).
THEOREM TotalIsSum == Spec => []TotalMatchesRows
<1>1. Init => SumInv
  <2> SUFFICES ASSUME Init PROVE SumInv
    OBVIOUS
  <2>1. ProcessesOf(table) = {}
    BY EmptySeq DEF Init, EmptyTable, ProcessesOf
  <2>2. Done = 0
    BY DEF Init, Done
  <2> QED BY <2>1, <2>2 DEF Init, SumInv, RowsCounted, LastCounted, Summed
<1>2. Inv /\ SumInv /\ [Next]_vars => SumInv'
  BY CountStep
<1>3. Inv /\ SumInv => TotalMatchesRows
  <2> SUFFICES ASSUME Inv, SumInv, pc = "sum", row > Len(list)
               PROVE  total = MapThenSumSet(LAMBDA r : Cell(r, "PSS"), ProcessRows)
    BY DEF TotalMatchesRows
  <2> DEFINE S == ProcessRows
             T == 1..Len(list)
             g == [r \in S |-> Cell(r, "PSS")]
             b == [r \in S |-> CHOOSE j \in T : PidOf(table, r) = list[j]]
  <2>1. PICK f : IsSum(f, T, ListPss) /\ total = f[1..row - 1]
    BY DEF SumInv, Summed, ListPss
  <2>2. total = f[T]
    <3>1. row - 1 = Len(list)
      BY DEF Inv, ToolInv
    <3> QED BY <2>1, <3>1
  <2>3. S = ProcessesOf(table)
    BY DEF ProcessRows, ProcessesOf, IsProcess, CellsOf
  <2>4. /\ \A r \in S : \E j \in T : PidOf(table, r) = list[j]
        /\ \A j \in T : \E r \in S : PidOf(table, r) = list[j]
        /\ \A q, r \in S : PidOf(table, q) = PidOf(table, r) => q = r
        /\ \A r \in S : CellsOf(table, r)[7][2] = pss[PidOf(table, r)]
    BY <2>3 DEF SumInv, RowsCounted, Done
  <2>5. /\ \A j, k \in T : list[j] = list[k] => j = k
        /\ \A j \in T : pss[list[j]] \in Int
    BY DEF Inv, ListInv, ToolInv, Unknown
  <2>6. \A r \in S : Cell(r, "PSS") = pss[PidOf(table, r)]
    BY <2>4, CellHeaded
  <2>7. IsFiniteSet(S)
    <3>1. S \subseteq 1..Len(table.rows) /\ Len(table.rows) \in Nat
      BY DEF ProcessRows, Inv, ToolInv, TableTypes
    <3>2. IsFiniteSet(1..Len(table.rows))
      BY <3>1, FS_Interval
    <3> HIDE DEF S
    <3> QED BY ONLY <3>1, <3>2, FS_Subset
  <2> HIDE DEF S, T
  <2>8. \A r \in S : b[r] \in T /\ PidOf(table, r) = list[b[r]]
    BY <2>4
  <2>9. b \in [S -> T] /\ \A x \in S : b[x] \in T
    BY <2>8
  <2>10. \A r \in S : g[r] \in Int /\ g[r] = ListPss[b[r]]
    BY <2>5, <2>6, <2>8 DEF ListPss, T
  <2> DEFINE Body(h) == [s \in SUBSET S |-> IF s = {} THEN 0
                           ELSE Cell(CHOOSE x \in s : TRUE, "PSS")
                                  + h[s \ {CHOOSE x \in s : TRUE}]]
             iter == CHOOSE h : h = Body(h)
  <2>11. \A s \in SUBSET S : s # {} =>
           (CHOOSE x \in s : TRUE) \in S
           /\ g[CHOOSE x \in s : TRUE] = Cell(CHOOSE x \in s : TRUE, "PSS")
    OBVIOUS
  <2>12. MapThenSumSet(LAMBDA r : Cell(r, "PSS"), ProcessRows) = iter[S]
    BY DEF MapThenSumSet, MapThenFoldSet, S
  <2> HIDE DEF b
  <2>13. \E h : h = Body(h)
    <3> HIDE DEF g
    <3>0. \A x \in S : g[x] \in Int
      BY <2>10
    <3>1. PICK h : AddsUp(h, S, g)
      BY ONLY <2>7, <3>0, SumExists
    <3>2. \A s \in SUBSET S : h[s] = Body(h)[s]
      BY <2>11, <3>1 DEF AddsUp
    <3>4. h = [s \in SUBSET S |-> h[s]]
      BY <3>1 DEF AddsUp
    <3>5. Body(h) = [s \in SUBSET S |-> Body(h)[s]]
      OBVIOUS
    <3> HIDE DEF Body
    <3>3. h = Body(h)
      BY <3>2, <3>4, <3>5
    <3> QED BY <3>3
  <2>14. iter = Body(iter)
    <3> HIDE DEF Body
    <3> QED BY <2>13
  <2> HIDE DEF iter, g
  <2>15. \A s \in SUBSET S : iter[s] = IF s = {} THEN 0
           ELSE g[CHOOSE x \in s : TRUE] + iter[s \ {CHOOSE x \in s : TRUE}]
    <3> SUFFICES ASSUME NEW s \in SUBSET S
                 PROVE  iter[s] = IF s = {} THEN 0
                          ELSE g[CHOOSE x \in s : TRUE]
                                 + iter[s \ {CHOOSE x \in s : TRUE}]
      OBVIOUS
    <3>1. Body(iter)[s] = IF s = {} THEN 0
            ELSE Cell(CHOOSE x \in s : TRUE, "PSS") + iter[s \ {CHOOSE x \in s : TRUE}]
      OBVIOUS
    <3>2. iter[s] = Body(iter)[s]
      <4> HIDE DEF Body
      <4> QED BY <2>14
    <3> HIDE DEF Body
    <3>3. CASE s = {}
      BY <3>1, <3>2, <3>3
    <3>4. CASE s # {}
      <4>1. g[CHOOSE x \in s : TRUE] = Cell(CHOOSE x \in s : TRUE, "PSS")
        BY <2>11, <3>4
      <4> QED BY <3>1, <3>2, <3>4, <4>1
    <3> QED BY <3>3, <3>4
  <2>16. PICK e : IsSum(e, S, g) /\ e[S] = iter[S]
    <3>1. IsFiniteSet(S) /\ \A x \in S : g[x] \in Int
      BY <2>7, <2>10
    <3> QED BY ONLY <2>15, <3>1, SumIs
  <2>17. b \in Injection(S, T)
    BY <2>4, <2>8, <2>9 DEF Injection, IsInjective
  <2>18. {b[x] : x \in S} = T
    <3>1. \A j \in T : \E r \in S : b[r] = j
      BY <2>4, <2>5, <2>8
    <3> QED BY <2>9, <3>1
  <2>19. e[S] = f[{b[x] : x \in S}]
    <3>1. \A x \in S : g[x] = ListPss[b[x]]
      BY <2>10
    <3> QED BY ONLY <2>1, <2>7, <2>16, <2>17, <3>1, SumsRenamed
  <2> QED BY <2>2, <2>12, <2>16, <2>18, <2>19
<1>4. Spec => [](Inv /\ SumInv)
  BY <1>1, <1>2, Invariance, PTL DEF Spec
<1> QED BY <1>3, <1>4, PTL

-----------------------------------------------------------------------------
(***************************************************************************)
(* The tables of the memory and of the low-memory killer, which the        *)
(* program prints after that of the processes (SystemInfo).                *)
(***************************************************************************)
Texts == Seq(Chars)

\* The inductive invariant of the reading: a buffer holds a prefix of the
\* text that the kernel made of the open file.
FilesInv ==
  /\ setting \in [Params -> Texts] /\ content \in [Params -> Texts]
  /\ lines \in Seq(STRING \X Nat)
BufferInv ==
  /\ part \in {"open", "read", "use"}
  /\ part = "open" => buf = <<>>
  /\ part # "open" => at \in Params
  /\ buf \in Texts /\ Len(buf) <= Room
  /\ buf # <<>> => /\ Len(buf) <= Len(content[at])
                   /\ \A i \in 1..Len(buf) : buf[i] = content[at][i]
WholeInv ==
  part = "use" /\ at \notin broken =>
    \/ Len(buf) = Len(content[at]) /\ Len(content[at]) <= Room
    \/ Len(buf) = Room /\ Room <= Len(content[at])

\* The inductive invariant of the memory: it is printed as it is parsed.
MemoryInv ==
  memory # NoTable =>
    /\ \A field \in Fields : Parsed[field] # -1
    /\ \E b2g \in B2GSums : memory = Figures(Parsed, b2g)

SystemInv == FilesInv /\ BufferInv /\ WholeInv /\ MemoryInv

\* What is left alone by whom.
LEMMA SystemQuiet ==
  ASSUME [SystemNext]_systemVars
  PROVE  /\ lines' = lines
         /\ \/ SetThresholds
            \/ /\ UNCHANGED setting
               /\ \/ OpenFails \/ Open \/ ReadSome \/ ReadEnds
                  \/ ReadFails
                  \/ /\ UNCHANGED content
                     /\ \/ UNCHANGED <<at, part, buf, broken>>
                        \/ part' = "open" /\ buf' = <<>>
                        \/ UNCHANGED <<part, buf, broken>> /\ at = "meminfo"
                           /\ at' = "notify_trigger"
         /\ PrintMeminfo \/ UNCHANGED memory
<1>1. CASE UNCHANGED systemVars
  BY <1>1 DEF systemVars, files, reading, shown
<1>2. CASE NoMeminfo
  BY <1>2 DEF NoMeminfo, StartLmk, files, reading
<1>3. CASE PrintMeminfo
  BY <1>3 DEF PrintMeminfo, StartLmk, files, reading
<1>4. CASE UseNotify
  BY <1>4 DEF UseNotify, files
<1>5. CASE UseAdj
  BY <1>5 DEF UseAdj, files, shown
<1>6. CASE UseMinfree
  BY <1>6 DEF UseMinfree, files
<1>7. CASE SetThresholds
  BY <1>7 DEF SetThresholds, shown
<1>8. CASE ReadWholeFile
  BY <1>8 DEF ReadWholeFile, OpenFails, Open, ReadSome,
              ReadEnds, ReadFails, files, shown
<1> QED BY <1>1, <1>2, <1>3, <1>4, <1>5, <1>6, <1>7, <1>8 DEF SystemNext, SystemStep

\* The invariant holds when the tables are begun.
LEMMA SystemStart ==
  ASSUME SystemInit
  PROVE  SystemInv
<1>1. PICK start \in Starts : setting = start[1] /\ lines = start[2]
  BY DEF SystemInit
<1>2. start \in [Params -> Texts] \X Seq(STRING \X Nat)
  BY <1>1, SystemInfoAssumption DEF SystemInfoAssumption, Texts
<1>3. FilesInv
  <2>1. <<>> \in Texts
    BY EmptySeq DEF Texts
  <2> QED BY <1>1, <1>2, <2>1 DEF SystemInit, FilesInv
<1>4. BufferInv /\ WholeInv
  <2>1. <<>> \in Texts /\ Len(<<>>) = 0 /\ Room \in Nat
    BY EmptySeq, SystemInfoAssumption DEF Texts, SystemInfoAssumption
  <2> QED BY <2>1 DEF SystemInit, BufferInv, WholeInv
<1>5. MemoryInv
  BY DEF SystemInit, MemoryInv
<1> QED BY <1>3, <1>4, <1>5 DEF SystemInv

\* The text of an open file is one; it is no other once some of it is read.
LEMMA TextTypes ==
  ASSUME SystemInv, at \in Params
  PROVE  /\ Text \in Texts /\ Len(Text) \in Nat
         /\ Len(buf) \in Nat /\ buf \in Texts /\ Len(buf) <= Room
         /\ Len(buf) <= Len(Text)
         /\ \A i \in 1..Len(buf) : buf[i] = Text[i]
<1>1. /\ setting[at] \in Texts /\ content[at] \in Texts
      /\ buf \in Texts /\ Len(buf) <= Room
  BY DEF SystemInv, FilesInv, BufferInv
<1>2. Len(setting[at]) \in Nat /\ Len(content[at]) \in Nat /\ Len(buf) \in Nat
  BY <1>1, LenProperties DEF Texts
<1>3. CASE buf = <<>>
  <2>1. Len(buf) = 0 /\ Text = setting[at]
    BY <1>3, EmptySeq DEF Text
  <2> QED BY <1>1, <1>2, <2>1
<1>4. CASE buf # <<>>
  <2>1. Text = content[at]
    BY <1>4 DEF Text
  <2> QED BY <1>1, <1>2, <1>4, <2>1 DEF SystemInv, BufferInv
<1> QED BY <1>3, <1>4

\* What is in the files stays a text, however they are rewritten.
LEMMA FilesStep ==
  ASSUME SystemInv, [SystemNext]_systemVars
  PROVE  FilesInv'
<1>1. lines' \in Seq(STRING \X Nat)
  BY SystemQuiet DEF SystemInv, FilesInv
<1>2. CASE SetThresholds
  <2>1. PICK f \in {"adj", "minfree"}, text \in Rewrites :
          setting' = [setting EXCEPT ![f] = text]
    BY <1>2 DEF SetThresholds
  <2>2. text \in Texts /\ setting \in [Params -> Texts]
    BY SystemInfoAssumption DEF SystemInfoAssumption, Texts, SystemInv, FilesInv
  <2>3. setting' \in [Params -> Texts]
    BY <2>1, <2>2
  <2>4. content' = content
    BY <1>2 DEF SetThresholds, reading
  <2> QED BY <1>1, <2>3, <2>4 DEF SystemInv, FilesInv
<1>3. CASE ReadSome \/ ReadEnds
  <2>1. /\ at \in Params /\ setting' = setting
        /\ content' = [content EXCEPT ![at] = Text]
    BY <1>3 DEF ReadSome, ReadEnds, files
  <2>2. Text \in Texts
    BY <2>1, TextTypes
  <2> QED BY <1>1, <2>1, <2>2 DEF SystemInv, FilesInv
<1>4. CASE UNCHANGED <<setting, content>>
  BY <1>1, <1>4 DEF SystemInv, FilesInv
<1>5. ASSUME OpenFails \/ Open \/ ReadFails
      PROVE  UNCHANGED <<setting, content>>
  BY <1>5 DEF OpenFails, Open, ReadFails, files
<1> QED BY <1>2, <1>3, <1>4, <1>5, SystemQuiet

\* A read() adds a piece of the text to what was read of it.
LEMMA ReadSomeStep ==
  ASSUME SystemInv, ReadSome
  PROVE  BufferInv' /\ WholeInv'
<1> DEFINE text == Text
           k == Len(buf)
<1>1. /\ at \in Params /\ at' = at /\ part = "read" /\ part' = "read"
      /\ Room - k > 0
      /\ content' = [content EXCEPT ![at] = text]
  BY DEF ReadSome, Remaining, AfterRead
<1>2. /\ text \in Texts /\ Len(text) \in Nat /\ k \in Nat /\ buf \in Texts /\ k <= Room
      /\ k <= Len(text) /\ \A i \in 1..k : buf[i] = text[i]
  BY <1>1, TextTypes
<1>3. Room \in Nat
  BY SystemInfoAssumption DEF SystemInfoAssumption
<1>4. content'[at'] = text
  BY <1>1 DEF SystemInv, FilesInv
<1>5. PICK n \in 1..Min({Room - k, Len(text) - k}) :
        buf' = buf \o SubSeq(text, k + 1, k + n)
  BY DEF ReadSome, Remaining
<1> HIDE DEF text, k
<1>6. n \in Nat /\ n <= Room - k /\ n <= Len(text) - k
  <2>1. \A a, b \in Int : Min({a, b}) \in Int /\ Min({a, b}) <= a
                          /\ Min({a, b}) <= b
    <3> TAKE a, b \in Int
    <3>1. CASE a <= b
      <4>1. Min({a, b}) = a
        BY <3>1 DEF Min
      <4> QED BY <3>1, <4>1
    <3>2. CASE b < a
      <4>1. Min({a, b}) = b
        BY <3>2 DEF Min
      <4> QED BY <3>2, <4>1
    <3> QED BY <3>1, <3>2
  <2>2. Room - k \in Int /\ Len(text) - k \in Int
    BY <1>2, <1>3
  <2>3. PICK a, b \in Int : a = Room - k /\ b = Len(text) - k
    BY <2>2
  <2>4. n \in 1..Min({a, b})
    BY <1>5, <2>3
  <2>5. PICK m : m = Min({a, b})
    OBVIOUS
  <2>6. m \in Int /\ m <= a /\ m <= b
    BY <2>1, <2>5, Zenon
  <2>7. n \in 1..m
    BY <2>4, <2>5, Zenon
  <2> QED BY <2>3, <2>6, <2>7
<1> DEFINE piece == SubSeq(text, k + 1, k + n)
<1>7. /\ piece \in Texts /\ Len(piece) = n
      /\ \A i \in 1..n : piece[i] = text[k + i]
  <2>1. \A i \in k + 1..k + n : text[i] \in Chars
    <3>1. \A i \in k + 1..k + n : i \in 1..Len(text)
      BY <1>2, <1>6
    <3> QED BY <1>2, <3>1, ElementOfSeq DEF Texts
  <2>2. /\ piece \in Seq(Chars)
        /\ Len(piece) = IF k + 1 <= k + n THEN k + n - (k + 1) + 1 ELSE 0
        /\ \A i \in 1..k + n - (k + 1) + 1 : piece[i] = text[k + 1 + i - 1]
    BY <1>2, <1>6, <2>1, SubSeqProperties
  <2> HIDE DEF piece
  <2>3. k + n - (k + 1) + 1 = n /\ (k + 1 <= k + n <=> n # 0)
        /\ \A i \in 1..n : k + 1 + i - 1 = k + i
    BY <1>2, <1>6
  <2>4. Len(piece) = n
    BY <1>6, <2>2, <2>3
  <2>5. \A i \in 1..n : piece[i] = text[k + i]
    BY <2>2, <2>3
  <2> QED BY <2>2, <2>4, <2>5 DEF Texts
<1> HIDE DEF piece
<1>8. /\ buf' \in Texts /\ Len(buf') = k + n
      /\ \A i \in 1..k + n : buf'[i] = IF i <= k THEN buf[i] ELSE piece[i - k]
  <2>1. buf' = buf \o piece
    BY <1>5 DEF piece
  <2>2. buf \in Seq(Chars) /\ piece \in Seq(Chars)
    BY <1>2, <1>7 DEF Texts
  <2>3. /\ buf \o piece \in Seq(Chars) /\ Len(buf \o piece) = Len(buf) + Len(piece)
        /\ \A i \in 1..Len(buf) + Len(piece) :
             (buf \o piece)[i] = IF i <= Len(buf) THEN buf[i] ELSE piece[i - Len(buf)]
    BY ONLY <2>2, ConcatProperties
  <2> QED BY <1>7, <2>1, <2>3 DEF Texts, k
<1>9. Len(buf') <= Room /\ Len(buf') <= Len(text)
  BY <1>2, <1>3, <1>6, <1>8
<1>10. \A i \in 1..k + n : buf'[i] = text[i]
  <2> TAKE i \in 1..k + n
  <2>1. CASE i <= k
    <3>1. i \in 1..k
      BY <1>2, <1>6, <2>1
    <3> QED BY <1>2, <1>8, <2>1, <3>1
  <2>2. CASE ~(i <= k)
    <3>1. PICK j : j = i - k
      OBVIOUS
    <3>2. j \in 1..n /\ k + j = i
      BY <1>2, <1>6, <2>2, <3>1
    <3>3. buf'[i] = piece[j] /\ piece[j] = text[k + j]
      BY <1>7, <1>8, <2>2, <3>1, <3>2
    <3> QED BY <3>2, <3>3
  <2> QED BY <2>1, <2>2
<1>11. BufferInv'
  <2>1. at' \in Params' /\ part' = "read"
    BY <1>1 DEF Params
  <2>2. \A i \in 1..Len(buf') : buf'[i] = content'[at'][i]
    BY <1>4, <1>8, <1>10
  <2>3. Len(buf') <= Len(content'[at'])
    BY <1>4, <1>9
  <2> QED BY <1>8, <1>9, <2>1, <2>2, <2>3 DEF BufferInv
<1>12. WholeInv'
  BY <1>1 DEF WholeInv
<1> QED BY <1>11, <1>12

\* The end of the text, or of the room for it.
LEMMA ReadEndsStep ==
  ASSUME SystemInv, ReadEnds
  PROVE  BufferInv' /\ WholeInv'
<1> DEFINE text == Text
<1>1. /\ at \in Params /\ at' = at /\ part = "read" /\ part' = "use" /\ buf' = buf
      /\ Room - Len(buf) = 0 \/ Len(text) = Len(buf)
      /\ content' = [content EXCEPT ![at] = text]
  BY DEF ReadEnds, Remaining
<1>2. /\ text \in Texts /\ Len(text) \in Nat /\ Len(buf) \in Nat /\ buf \in Texts
      /\ Len(buf) <= Room /\ Len(buf) <= Len(text)
      /\ \A i \in 1..Len(buf) : buf[i] = text[i]
  BY <1>1, TextTypes
<1>3. Room \in Nat
  BY SystemInfoAssumption DEF SystemInfoAssumption
<1>4. content'[at'] = text
  BY <1>1 DEF SystemInv, FilesInv
<1> HIDE DEF text
<1>5. \/ Len(buf) = Len(text) /\ Len(text) <= Room
      \/ Len(buf) = Room /\ Room <= Len(text)
  BY <1>1, <1>2, <1>3
<1>6. BufferInv'
  BY <1>1, <1>2, <1>4 DEF BufferInv, Params
<1>7. WholeInv'
  BY <1>1, <1>4, <1>5 DEF WholeInv
<1> QED BY <1>6, <1>7

\* The buffer has the beginning of one text of the file.
LEMMA BufferStep ==
  ASSUME SystemInv, [SystemNext]_systemVars
  PROVE  BufferInv' /\ WholeInv'
<1> USE DEF SystemInv, BufferInv, WholeInv
<1>0. <<>> \in Texts /\ Len(<<>>) = 0 /\ Room \in Nat /\ 0 <= Room
  BY EmptySeq, SystemInfoAssumption DEF Texts, SystemInfoAssumption
<1>1. CASE UNCHANGED <<at, part, buf, content, broken>>
  BY <1>1
<1>2. CASE part' = "open" /\ buf' = <<>>
  BY <1>0, <1>2
<1>3. CASE UNCHANGED <<part, buf, broken, content>> /\ at = "meminfo" /\ at' = "notify_trigger"
  <2>1. part = "open" /\ buf = <<>>
    BY <1>3 DEF Params
  <2> QED BY <1>0, <1>3, <2>1
<1>4. CASE OpenFails
  <2>1. /\ at \in Params /\ at' = at /\ part' = "use" /\ buf' = <<>> /\ at \in broken'
    BY <1>4 DEF OpenFails
  <2> QED BY <1>0, <2>1
<1>5. CASE Open
  <2>1. at \in Params /\ at' = at /\ part' = "read" /\ buf' = <<>>
    BY <1>5 DEF Open
  <2> QED BY <1>0, <2>1
<1>6. CASE ReadFails
  <2>1. /\ at \in Params /\ at' = at /\ part' = "use" /\ at \in broken'
        /\ buf' = buf /\ content' = content
    BY <1>6 DEF ReadFails, AfterFailure
  <2> QED BY <2>1
<1>7. CASE SetThresholds
  BY <1>1, <1>7 DEF SetThresholds, reading
<1> QED BY <1>1, <1>2, <1>3, <1>4, <1>5, <1>6, <1>7, ReadSomeStep, ReadEndsStep, SystemQuiet

\* The figures to be printed are those that were read.
LEMMA MemoryStep ==
  ASSUME SystemInv, [SystemNext]_systemVars
  PROVE  MemoryInv'
<1>1. Parsed' = Parsed
  BY SystemQuiet DEF Parsed
<1>2. \A b2g : Figures(Parsed', b2g) = Figures(Parsed, b2g)
  BY <1>1
<1>3. CASE UNCHANGED memory
  BY <1>1, <1>3 DEF SystemInv, MemoryInv, NoTable
<1>4. CASE PrintMeminfo
  <2>1. /\ \A field \in Fields : Parsed[field] # -1
        /\ \E b2g \in B2GSums : memory' = Figures(Parsed, b2g)
    BY <1>4 DEF PrintMeminfo
  <2> QED BY <1>1, <2>1 DEF MemoryInv
<1> QED BY <1>3, <1>4, SystemQuiet

\* The inductive invariant of the two tables (b2g-info.cpp:74-256) holds from
\* the start and after each step.
THEOREM SystemInvariance == SystemSpec => []SystemInv
<1>1. SystemInit => SystemInv
  BY SystemStart
<1>2. SystemInv /\ [SystemNext]_systemVars => SystemInv'
  BY FilesStep, BufferStep, MemoryStep DEF SystemInv
<1> QED BY <1>1, <1>2, PTL DEF SystemSpec

\* However the files are rewritten while they are read, a system call at a
\* time, a buffer holds a piece of one text of one file, as much of it as there
\* is room for unless a call failed (b2g-info.cpp:74-102).
THEOREM OneTextRead == SystemSpec => []ReadsOneText
<1>1. SystemInv => ReadsOneText
  <2> SUFFICES ASSUME SystemInv, at \in Params, part # "open"
               PROVE  /\ Len(buf) <= Room
                      /\ buf # <<>> => IsPrefix(buf, content[at])
                      /\ part = "use" /\ at \notin broken =>
                           Len(buf) = Min({Len(content[at]), Room})
    BY DEF ReadsOneText
  <2> DEFINE k == Len(buf)
             text == content[at]
  <2>1. buf \in Texts /\ text \in Texts /\ k <= Room
    BY DEF SystemInv, FilesInv, BufferInv
  <2>2. k \in Nat /\ Len(text) \in Nat /\ Room \in Nat
        /\ (\A i \in 1..k : buf[i] \in Chars)
        /\ (\A i \in 1..Len(text) : text[i] \in Chars)
    BY <2>1, LenProperties, ElementOfSeq, SystemInfoAssumption DEF Texts, SystemInfoAssumption
  <2>3. ASSUME buf # <<>>
        PROVE  IsPrefix(buf, text)
    <3>1. k <= Len(text) /\ \A i \in 1..k : buf[i] = text[i]
      BY <2>3 DEF SystemInv, BufferInv
    <3>2. \A i \in 1..k : text[i] \in Chars
      BY <2>2, <3>1
    <3> DEFINE p == SubSeq(buf, 1, k)
               q == SubSeq(text, 1, k)
    <3> HIDE DEF k, text
    <3>3. /\ p \in Seq(Chars) /\ Len(p) = IF 1 <= k THEN k - 1 + 1 ELSE 0
          /\ \A i \in 1..k - 1 + 1 : p[i] = buf[1 + i - 1]
      BY <2>2, SubSeqProperties
    <3>4. /\ q \in Seq(Chars) /\ Len(q) = IF 1 <= k THEN k - 1 + 1 ELSE 0
          /\ \A i \in 1..k - 1 + 1 : q[i] = text[1 + i - 1]
      BY <2>2, <3>2, SubSeqProperties
    <3> HIDE DEF p, q
    <3>5. Len(p) = Len(q) /\ \A i \in 1..Len(p) : i \in 1..k /\ 1 + i - 1 = i
      BY <2>2, <3>3, <3>4
    <3>6. \A i \in 1..Len(p) : p[i] = q[i]
      BY <2>2, <3>1, <3>3, <3>4, <3>5
    <3>7. p = q
      BY <3>3, <3>4, <3>5, <3>6, SeqEqual
    <3> QED BY <3>1, <3>7 DEF IsPrefix, p, q, k
  <2>4. ASSUME part = "use", at \notin broken
        PROVE  k = Min({Len(text), Room})
    <3>1. \/ k = Len(text) /\ Len(text) <= Room
          \/ k = Room /\ Room <= Len(text)
      BY <2>4 DEF SystemInv, WholeInv
    <3> HIDE DEF k, text
    <3> QED BY <2>2, <3>1 DEF Min
  <2> QED BY <2>1, <2>3, <2>4
<1> QED BY <1>1, SystemInvariance, PTL

\* Value() is a number.
LEMMA ValueIsNumber ==
  ASSUME NEW d \in Seq(Digits)
  PROVE  Value(d) \in Nat
<1> DEFINE S == DOMAIN d
           pick == [s \in SUBSET S |-> Max(s)]
           step == [i \in S |-> [v \in Nat |-> 10 * v + DigitOf[d[i]]]]
           Body(h) == [s \in SUBSET S |-> IF s = {} THEN 0
                         ELSE 10 * h[s \ {Max(s)}] + DigitOf[d[Max(s)]]]
           iter == CHOOSE h : h = Body(h)
<1>1. S = 1..Len(d) /\ IsFiniteSet(S)
  BY FS_Interval
<1>2. \A i \in S : DigitOf[d[i]] \in Nat
  BY UtilsAssumption DEF UtilsAssumption
<1>3. step \in [S -> [Nat -> Nat]]
  BY <1>2
<1>4. \A s \in SUBSET S : s # {} => pick[s] \in s
  <2>1. ASSUME NEW s \in SUBSET S, s # {}
        PROVE  Max(s) \in s
    <3>1. s \subseteq Int /\ IsFiniteSet(s)
      BY <1>1, FS_Subset
    <3> QED BY ONLY <2>1, <3>1, Greatest
  <2> QED BY <2>1
<1>5. 0 \in Nat
  OBVIOUS
<1>6. PICK f : Folded(f, S, Nat, pick, 0, step)
  <2> HIDE DEF S, pick, step
  <2> QED BY ONLY <1>1, <1>3, <1>4, <1>5, FoldExists
<1>7. \A h : \A s \in SUBSET S : s # {} /\ h[s \ {pick[s]}] \in Nat =>
        10 * h[s \ {Max(s)}] + DigitOf[d[Max(s)]] = step[pick[s]][h[s \ {pick[s]}]]
  <2>1. \A s \in SUBSET S : s # {} => pick[s] = Max(s) /\ pick[s] \in S
    BY <1>4
  <2> HIDE DEF pick
  <2> QED BY <2>1
<1> HIDE DEF S, pick, step
<1>8. f = Body(f)
  <2>1. \A s \in SUBSET S : f[s] = Body(f)[s]
    <3>1. ASSUME NEW s \in SUBSET S, s # {}
          PROVE  f[s] = 10 * f[s \ {Max(s)}] + DigitOf[d[Max(s)]]
      <4>1. f[s] = step[pick[s]][f[s \ {pick[s]}]] /\ f[s \ {pick[s]}] \in Nat
        BY <1>6, <3>1 DEF Folded
      <4> QED BY <1>7, <3>1, <4>1
    <3>2. f[{}] = 0
      BY <1>6 DEF Folded
    <3> QED BY <3>1, <3>2
  <2>2. f = [s \in SUBSET S |-> f[s]]
    BY <1>6 DEF Folded
  <2> QED BY <2>1, <2>2
<1>9. iter = Body(iter)
  BY <1>8
<1>10. Value(d) = iter[S]
  BY DEF Value, FoldLeft, MapThenFoldSet, S
<1> HIDE DEF iter
<1>11. TakesSteps(iter, S, Nat, pick, 0, step)
  <2>1. \A s \in SUBSET S : s # {} => iter[s] = 10 * iter[s \ {Max(s)}] + DigitOf[d[Max(s)]]
    BY <1>9
  <2>2. iter[{}] = 0
    BY <1>9
  <2>3. ASSUME NEW s \in SUBSET S, s # {}, iter[s \ {pick[s]}] \in Nat
        PROVE  iter[s] = step[pick[s]][iter[s \ {pick[s]}]]
    <3>1. 10 * iter[s \ {Max(s)}] + DigitOf[d[Max(s)]] = step[pick[s]][iter[s \ {pick[s]}]]
      BY <1>7, <2>3
    <3>2. iter[s] = 10 * iter[s \ {Max(s)}] + DigitOf[d[Max(s)]]
      BY <2>1, <2>3, Zenon
    <3> QED BY <3>1, <3>2, Zenon
  <2> QED BY <1>4, <2>2, <2>3 DEF TakesSteps
<1>12. iter[S] = f[S]
  <2>1. \A s \in SUBSET S : iter[s] = f[s]
    <3>1. IsFiniteSet(S)
      BY <1>1
    <3>2. Agrees(iter, f, S)
      BY ONLY <3>1, <1>6, <1>11, FoldAgrees
    <3> QED BY <3>2 DEF Agrees
  <2> QED BY <2>1
<1> QED BY <1>6, <1>10, <1>12 DEF Folded

\* Where the digits that strtol() reads begin, and what it reads up to.
StartOf(t) == IF t # <<>> /\ t[1] \in Signs THEN 2 ELSE 1
Past(t) ==
  {i \in StartOf(t)..Len(t) + 1 : i = Len(t) + 1 \/ t[i] \notin Digits}
DigitsToEnd(t) ==
  StartOf(t) <= Len(t) /\ \A i \in StartOf(t)..Len(t) : t[i] \in Digits
Signed(t, n) == IF t[1] = "-" THEN -n ELSE n

\* strtol() takes a text for a number when digits alone follow its sign, and
\* then for the number that they make (utils.cpp:100-142).
LEMMA Conversion ==
  ASSUME NEW t \in Seq(Chars)
  PROVE  /\ Converts(t) <=> DigitsToEnd(t)
         /\ Converts(t) =>
              Strtol(t).value =
                Clamp(Signed(t, Value(SubSeq(t, StartOf(t), Len(t)))))
<1> DEFINE k == Len(t)
           start == StartOf(t)
           end == Min(Past(t))
           n == Value(SubSeq(t, start, end - 1))
<1>1. k \in Nat /\ (t = <<>> <=> k = 0) /\ start \in 1..k + 1
  BY EmptySeq, LenProperties DEF StartOf
<1>2. end \in Past(t) /\ \A i \in Past(t) : end <= i
  <2>1. Past(t) \subseteq Nat
    BY <1>1 DEF Past
  <2>2. k + 1 \in Past(t)
    BY <1>1 DEF Past
  <2> QED BY <2>1, <2>2, Least
<1>3. Strtol(t) = IF end = start THEN [value |-> 0, rest |-> t]
                  ELSE [value |-> Clamp(IF t[1] = "-" THEN -n ELSE n),
                        rest |-> SubSeq(t, end, k)]
  BY DEF Strtol, Past, StartOf
<1> HIDE DEF end, n
<1>4. end \in start..k + 1 /\ (end = k + 1 \/ t[end] \notin Digits)
  BY <1>2 DEF Past
<1>5. \A i \in start..end - 1 : t[i] \in Digits
  <2>1. ASSUME NEW i \in start..end - 1, t[i] \notin Digits
        PROVE  FALSE
    <3>1. i \in Past(t)
      BY <1>1, <1>4, <2>1 DEF Past
    <3> QED BY <1>1, <1>2, <1>4, <3>1
  <2> QED BY <2>1
<1>6. DigitsToEnd(t) <=> end = k + 1 /\ end # start
  <2> HIDE DEF start, k
  <2>1. DigitsToEnd(t) <=> start <= k /\ \A i \in start..k : t[i] \in Digits
    BY DEF DigitsToEnd, start, k
  <2>2. end = k + 1 /\ end # start => DigitsToEnd(t)
    BY <1>1, <1>4, <1>5, <2>1
  <2>3. DigitsToEnd(t) => end = k + 1 /\ end # start
    BY <1>1, <1>4, <2>1
  <2> QED BY <2>2, <2>3
<1>7. Converts(t) <=> end = k + 1 /\ end # start
  <2>1. CASE end = start
    BY <1>3, <2>1 DEF Converts
  <2>2. CASE end # start
    <3>1. Strtol(t).rest = SubSeq(t, end, k)
      <4> DEFINE v == Clamp(IF t[1] = "-" THEN -n ELSE n)
             q == SubSeq(t, end, k)
      <4>1. Strtol(t) = [value |-> v, rest |-> q]
        BY <1>3, <2>2
      <4> HIDE DEF v, q
      <4>2. Strtol(t).rest = q
        BY <4>1
      <4> QED BY <4>2 DEF q
    <3>2. Len(SubSeq(t, end, k)) = IF end <= k THEN k - end + 1 ELSE 0
      BY <1>1, <1>4, SubSeqProperties
    <3>3. SubSeq(t, end, k) \in Seq(Chars)
      <4> HIDE DEF k, start
      <4>1. \A i \in end..k : i \in 1..Len(t)
        BY <1>1, <1>4 DEF k
      <4> QED BY <1>1, <1>4, <4>1, SubSeqProperties DEF k
    <3>4. SubSeq(t, end, k) = <<>> <=> end = k + 1
      <4> HIDE DEF k, start
      <4>1. SubSeq(t, end, k) = <<>> <=> Len(SubSeq(t, end, k)) = 0
        BY <3>3, EmptySeq
      <4> QED BY <1>1, <1>4, <3>2, <4>1
    <3>5. end = k + 1 => t # <<>>
      <4> HIDE DEF k, start
      <4> QED BY <1>1, <1>4, <2>2
    <3> QED BY <2>2, <3>1, <3>4, <3>5, <1>4, <1>1 DEF Converts
  <2> QED BY <2>1, <2>2
<1>8. Converts(t) => Strtol(t).value = Clamp(Signed(t, Value(SubSeq(t, start, k))))
  <2>1. CASE end = k + 1 /\ end # start
    <3>1. n = Value(SubSeq(t, start, k))
      <4>1. end - 1 = k
        BY <1>1, <2>1
      <4> QED BY <4>1 DEF n
    <3>2. Strtol(t).value = Clamp(IF t[1] = "-" THEN -n ELSE n)
      BY <1>3, <2>1
    <3> HIDE DEF start, k
    <3> QED BY <3>1, <3>2 DEF Signed
  <2> QED BY <1>7, <2>1
<1> QED BY <1>6, <1>7, <1>8

\* strip() keeps what stands between the first and the last character that is
\* not a blank (utils.cpp:79-98).
LEMMA Stripped ==
  ASSUME NEW s \in Seq(Chars), NEW a \in 1..Len(s), NEW b \in 1..Len(s),
         s[a] # Blank, s[b] # Blank,
         \A i \in 1..Len(s) : s[i] # Blank => a <= i /\ i <= b
  PROVE  /\ Strip(s) = SubSeq(s, a, b)
         /\ SubSeq(s, a, b) \in Seq(Chars)
         /\ a <= b
         /\ Len(SubSeq(s, a, b)) = b - a + 1
         /\ \A i \in 1..b - a + 1 : SubSeq(s, a, b)[i] = s[a + i - 1]
<1>1. Len(s) \in Nat /\ a \in Nat /\ b \in Nat /\ a <= b
  BY LenProperties
<1>2. a \in Inked(s) /\ b \in Inked(s) /\ \A i \in Inked(s) : a <= i /\ i <= b
  BY DEF Inked
<1>3. Inked(s) \subseteq Nat /\ Inked(s) # {} /\ IsFiniteSet(Inked(s))
  <2>1. IsFiniteSet(1..Len(s)) /\ Inked(s) \subseteq 1..Len(s)
    BY <1>1, FS_Interval DEF Inked
  <2> QED BY <1>1, <1>2, <2>1, FS_Subset
<1>4. Min(Inked(s)) = a
  <2>1. Min(Inked(s)) \in Inked(s) /\ \A i \in Inked(s) : Min(Inked(s)) <= i
    BY ONLY <1>3, Least
  <2> QED BY <1>1, <1>2, <1>3, <2>1
<1>5. Max(Inked(s)) = b
  <2>1. Inked(s) \subseteq Int
    BY <1>3
  <2>2. Max(Inked(s)) \in Inked(s) /\ \A i \in Inked(s) : i <= Max(Inked(s))
    BY ONLY <1>3, <2>1, Greatest
  <2> QED BY <1>1, <1>2, <1>3, <2>2
<1>6. Strip(s) = SubSeq(s, a, b)
  BY <1>3, <1>4, <1>5 DEF Strip
<1>7. \A i \in a..b : s[i] \in Chars
  BY <1>1
<1> QED BY <1>1, <1>6, <1>7, SubSeqProperties

\* The ends of a numeral in a text, which holds beside it blanks and its sign,
\* and what it denotes.
Numeral(s, r) ==
  /\ r[1] \in 1..Len(s) /\ r[2] \in 1..Len(s) /\ r[1] <= r[2]
  /\ \A m \in 1..Len(s) :
       \/ m \in r[1]..r[2] /\ s[m] \in Digits
       \/ m \notin r[1]..r[2] /\ s[m] = Blank
       \/ m = r[1] - 1 /\ s[m] \in Signs
Denotes(s, r) ==
  Value(SubSeq(s, r[1], r[2])) *
    (IF r[1] > 1 /\ s[r[1] - 1] = "-" THEN -1 ELSE 1)

\* A text denotes the numbers of its numerals.
LEMMA NumeralsDenote ==
  ASSUME NEW s \in Seq(Chars)
  PROVE  /\ \A n : n \in Denoted(s) =>
              \E i, j \in 1..Len(s) : Numeral(s, <<i, j>>) /\ n = Denotes(s, <<i, j>>)
         /\ \A i, j \in 1..Len(s) :
              Numeral(s, <<i, j>>) => Denotes(s, <<i, j>>) \in Denoted(s)
<1> DEFINE R == {r \in (1..Len(s)) \X (1..Len(s)) : r[1] <= r[2] /\
           \A m \in 1..Len(s) :
             \/ m \in r[1]..r[2] /\ s[m] \in Digits
             \/ m \notin r[1]..r[2] /\ s[m] = Blank
             \/ m = r[1] - 1 /\ s[m] \in Signs}
<1>1. Denoted(s) = {Denotes(s, r) : r \in R}
  BY Zenon DEF Denoted, Denotes
<1>2. \A r \in R : \E i, j \in 1..Len(s) : r = <<i, j>> /\ Numeral(s, <<i, j>>)
  BY DEF Numeral
<1>3. \A i, j \in 1..Len(s) : Numeral(s, <<i, j>>) => <<i, j>> \in R
  BY DEF Numeral
<1> HIDE DEF R
<1>4. ASSUME NEW n, n \in Denoted(s)
      PROVE  \E i, j \in 1..Len(s) : Numeral(s, <<i, j>>) /\ n = Denotes(s, <<i, j>>)
  <2>1. PICK r \in R : n = Denotes(s, r)
    BY <1>1, <1>4, Zenon
  <2> QED BY <1>2, <2>1, Zenon
<1>5. \A i, j \in 1..Len(s) :
        Numeral(s, <<i, j>>) => Denotes(s, <<i, j>>) \in Denoted(s)
  BY <1>1, <1>3, Zenon
<1> QED BY <1>4, <1>5

\* A text that is a numeral between blanks, with or without a sign, is taken
\* for the number that it denotes (utils.cpp:100-142).
LEMMA NumeralConverts ==
  ASSUME NEW s \in Seq(Chars), NEW x \in 1..Len(s), NEW y \in 1..Len(s),
         Numeral(s, <<x, y>>)
  PROVE  /\ Converts(Strip(s))
         /\ Strtol(Strip(s)).value = Clamp(Denotes(s, <<x, y>>))
<1>1. /\ x <= y
      /\ \A m \in 1..Len(s) :
           \/ m \in x..y /\ s[m] \in Digits
           \/ m \notin x..y /\ s[m] = Blank
           \/ m = x - 1 /\ s[m] \in Signs
  BY DEF Numeral
<1>2. Len(s) \in Nat /\ x \in Nat /\ y \in Nat /\ x >= 1 /\ y <= Len(s)
  BY LenProperties
<1>3. Blank \notin Digits /\ Blank \notin Signs /\ Digits \cap Signs = {}
  BY UtilsAssumption DEF UtilsAssumption, Blank, Signs
<1>4. \A m \in x..y : s[m] \in Digits /\ s[m] # Blank /\ s[m] \notin Signs
  BY <1>1, <1>2, <1>3
<1> DEFINE signed == x > 1 /\ s[x - 1] # Blank
           a == IF signed THEN x - 1 ELSE x
           t == SubSeq(s, a, y)
<1>5. /\ a \in 1..Len(s) /\ a <= x
      /\ signed => s[a] \in Signs
      /\ s[a] # Blank
  BY <1>1, <1>2, <1>3, <1>4
<1>6. \A i \in 1..Len(s) : s[i] # Blank => a <= i /\ i <= y
  BY <1>1, <1>2
<1>7. signed <=> a = x - 1
  BY <1>2
<1>8. ~signed => a = x
  OBVIOUS
<1>9. signed \/ x = 1 \/ s[x - 1] = Blank
  BY <1>2
<1> HIDE DEF a, signed
<1>10. /\ Strip(s) = t /\ t \in Seq(Chars) /\ a <= y
       /\ Len(t) = y - a + 1
       /\ \A i \in 1..y - a + 1 : t[i] = s[a + i - 1]
  <2>1. s[y] # Blank
    BY <1>1, <1>2, <1>4
  <2>2. s[a] # Blank /\ a \in 1..Len(s)
    BY <1>5
  <2> QED BY <1>6, <2>1, <2>2, Stripped
<1> HIDE DEF t
<1>11. t # <<>> /\ t[1] = s[a] /\ a \in Nat
  <2>1. a \in Nat /\ y - a + 1 \in Nat \ {0}
    BY <1>2, <1>5, <1>10
  <2>2. t # <<>>
    BY <1>10, <2>1, EmptySeq
  <2> QED BY <1>10, <2>1, <2>2
<1>12. StartOf(t) = x - a + 1
  <2>1. CASE signed
    BY <1>2, <1>5, <1>7, <1>11, <2>1 DEF StartOf
  <2>2. CASE ~signed
    <3>1. s[a] \notin Signs
      BY <1>1, <1>2, <1>4, <1>8, <2>2
    <3> QED BY <1>2, <1>8, <1>11, <2>2, <3>1 DEF StartOf
  <2> QED BY <2>1, <2>2
<1>13. DigitsToEnd(t)
  <2>1. StartOf(t) <= Len(t)
    BY <1>1, <1>2, <1>10, <1>11, <1>12
  <2>2. ASSUME NEW i \in StartOf(t)..Len(t)
        PROVE  t[i] \in Digits
    <3>1. i \in 1..y - a + 1 /\ a + i - 1 \in x..y
      BY <1>2, <1>5, <1>10, <1>11, <1>12, <2>2
    <3> QED BY <1>4, <1>10, <3>1
  <2> QED BY <2>1, <2>2 DEF DigitsToEnd
<1>14. SubSeq(t, StartOf(t), Len(t)) = SubSeq(s, x, y)
  <2> DEFINE p == SubSeq(t, x - a + 1, y - a + 1)
             q == SubSeq(s, x, y)
  <2>1. /\ q \in Seq(Chars) /\ Len(q) = y - x + 1
        /\ \A i \in 1..y - x + 1 : q[i] = s[x + i - 1]
    <3>1. \A i \in x..y : s[i] \in Chars
      BY <1>2
    <3> QED BY <1>1, <1>2, <3>1, SubSeqProperties
  <2>2. /\ p \in Seq(Chars) /\ Len(p) = y - x + 1
        /\ \A i \in 1..y - x + 1 : p[i] = t[(x - a + 1) + i - 1]
    <3>1. \A i \in x - a + 1..y - a + 1 : t[i] \in Chars
      BY <1>2, <1>5, <1>10, <1>11
    <3>2. /\ x - a + 1 \in Int /\ y - a + 1 \in Int /\ x - a + 1 <= y - a + 1
          /\ (y - a + 1) - (x - a + 1) + 1 = y - x + 1
      BY <1>1, <1>2, <1>11
    <3>3. /\ p \in Seq(Chars)
          /\ Len(p) = IF x - a + 1 <= y - a + 1
                      THEN (y - a + 1) - (x - a + 1) + 1 ELSE 0
          /\ \A i \in 1..(y - a + 1) - (x - a + 1) + 1 :
               p[i] = t[(x - a + 1) + i - 1]
      BY <3>1, <3>2, SubSeqProperties
    <3> QED BY <3>2, <3>3
  <2>3. ASSUME NEW i \in 1..y - x + 1
        PROVE  p[i] = q[i]
    <3>1. p[i] = t[(x - a + 1) + i - 1] /\ q[i] = s[x + i - 1]
      BY <2>1, <2>2
    <3> DEFINE j == (x - a + 1) + i - 1
    <3>2. j \in 1..y - a + 1 /\ a + j - 1 = x + i - 1
      BY <1>2, <1>5, <1>10, <1>11
    <3>3. t[j] = s[a + j - 1]
      BY <1>10, <3>2
    <3> QED BY <3>1, <3>2, <3>3
  <2>4. StartOf(t) = x - a + 1 /\ Len(t) = y - a + 1
    BY <1>10, <1>12
  <2> HIDE DEF p, q
  <2>5. p = q
    BY <2>1, <2>2, <2>3, SeqEqual
  <2> QED BY <2>4, <2>5 DEF p, q
<1> DEFINE v == Value(SubSeq(s, x, y))
<1>15. v \in Int
  <2>1. \A i \in x..y : s[i] \in Digits
    BY <1>4
  <2>2. SubSeq(s, x, y) \in Seq(Digits)
    BY <1>2, <2>1, SubSeqProperties
  <2>3. v \in Nat
    <3> DEFINE d == SubSeq(s, x, y)
    <3>1. d \in Seq(Digits)
      BY <2>2
    <3> HIDE DEF d
    <3>2. Value(d) \in Nat
      BY ONLY <3>1, ValueIsNumber
    <3> QED BY <3>2 DEF d
  <2> QED BY <2>3
<1>16. t[1] = "-" <=> x > 1 /\ s[x - 1] = "-"
  <2>1. CASE signed
    BY <1>2, <1>7, <1>11, <2>1 DEF signed
  <2>2. CASE ~signed
    <3>1. t[1] \notin Signs
      BY <1>1, <1>2, <1>4, <1>8, <1>11, <2>2
    <3>2. x = 1 \/ s[x - 1] = " "
      BY <1>9, <2>2 DEF Blank
    <3>3. x = 1 \/ s[x - 1] # "-"
      BY <3>2
    <3> QED BY <1>2, <3>1, <3>3 DEF Signs
  <2> QED BY <2>1, <2>2
<1>17. Strtol(t).value = Clamp(Signed(t, v)) /\ Converts(t)
  <2>1. Converts(t)
    BY <1>10, <1>13, Conversion
  <2>2. Strtol(t).value = Clamp(Signed(t, Value(SubSeq(t, StartOf(t), Len(t)))))
    BY <1>10, <2>1, Conversion
  <2> QED BY <1>14, <2>1, <2>2
<1>18. Signed(t, v) = Denotes(s, <<x, y>>)
  <2> DEFINE w == IF x > 1 /\ s[x - 1] = "-" THEN -1 ELSE 1
  <2>1. Denotes(s, <<x, y>>) = v * w
    BY DEF Denotes
  <2>2. Signed(t, v) = IF x > 1 /\ s[x - 1] = "-" THEN -v ELSE v
    BY <1>16 DEF Signed
  <2> HIDE DEF v
  <2> QED BY <1>15, <2>1, <2>2
<1> QED BY <1>10, <1>17, <1>18

\* And a text that is taken for a number is a numeral (utils.cpp:100-142).
LEMMA ConvertsNumeral ==
  ASSUME NEW s \in Seq(Chars), Converts(Strip(s))
  PROVE  \E i, j \in 1..Len(s) : Numeral(s, <<i, j>>)
<1>1. Inked(s) # {}
  BY DEF Strip, Converts
<1>2. Len(s) \in Nat /\ Inked(s) \subseteq 1..Len(s)
  BY LenProperties DEF Inked
<1>3. IsFiniteSet(Inked(s)) /\ Inked(s) \subseteq Nat /\ Inked(s) \subseteq Int
  <2>1. IsFiniteSet(1..Len(s))
    BY <1>2, FS_Interval
  <2> QED BY <1>2, <2>1, FS_Subset
<1> DEFINE a == Min(Inked(s))
           b == Max(Inked(s))
           t == SubSeq(s, a, b)
<1>4. a \in Inked(s) /\ \A i \in Inked(s) : a <= i
  BY <1>1, <1>3, Least
<1>5. b \in Inked(s) /\ \A i \in Inked(s) : i <= b
  BY <1>1, <1>3, Greatest
<1> HIDE DEF a, b
<1>6. /\ a \in 1..Len(s) /\ b \in 1..Len(s) /\ s[a] # Blank /\ s[b] # Blank
      /\ \A i \in 1..Len(s) : s[i] # Blank => a <= i /\ i <= b
  BY <1>2, <1>4, <1>5 DEF Inked
<1>7. /\ Strip(s) = t /\ t \in Seq(Chars) /\ a <= b
      /\ Len(t) = b - a + 1
      /\ \A i \in 1..b - a + 1 : t[i] = s[a + i - 1]
  BY <1>6, Stripped
<1> HIDE DEF t
<1>8. DigitsToEnd(t)
  BY <1>7, Conversion
<1> DEFINE st == StartOf(t)
           x == a + st - 1
<1>9. /\ st \in {1, 2} /\ st <= Len(t)
      /\ st = 2 => t[1] \in Signs
      /\ \A i \in st..Len(t) : t[i] \in Digits
  BY <1>8 DEF DigitsToEnd, StartOf
<1> HIDE DEF st
<1>10. a \in Nat /\ b \in Nat /\ b <= Len(s) /\ 1 <= a
  BY <1>2, <1>6
<1>11. x \in 1..Len(s) /\ x <= b
  BY <1>2, <1>7, <1>9, <1>10
<1>12. ASSUME NEW m \in 1..Len(s)
       PROVE  \/ m \in x..b /\ s[m] \in Digits
              \/ m \notin x..b /\ s[m] = Blank
              \/ m = x - 1 /\ s[m] \in Signs
  <2>1. CASE m < a \/ m > b
    BY <1>2, <1>6, <1>9, <1>10, <2>1
  <2>2. CASE a <= m /\ m <= b /\ m < x
    <3>1. m = a /\ st = 2
      BY <1>9, <1>10, <2>2
    <3>2. s[m] = t[1]
      BY <1>7, <1>10, <3>1
    <3> QED BY <1>9, <1>10, <3>1, <3>2
  <2>3. CASE x <= m /\ m <= b
    <3>1. m - a + 1 \in st..Len(t) /\ m - a + 1 \in 1..b - a + 1
      BY <1>7, <1>9, <1>10, <2>3
    <3>2. t[m - a + 1] = s[m]
      <4>1. a + (m - a + 1) - 1 = m
        BY <1>10
      <4> QED BY <1>7, <3>1, <4>1
    <3>3. s[m] \in Digits
      BY <1>9, <3>1, <3>2
    <3> QED BY <1>10, <1>11, <2>3, <3>3
  <2> QED BY <1>10, <1>11, <2>1, <2>2, <2>3
<1> HIDE DEF x
<1>13. Numeral(s, <<x, b>>)
  BY <1>6, <1>11, <1>12 DEF Numeral
<1> QED BY <1>6, <1>11, <1>13

\* Both families of str_to_int() take a text for a number exactly when it is a
\* numeral between blanks, and then for the number that it denotes or the
\* nearest that a long can hold (utils.cpp:100-142).
LEMMA NumeralsTaken ==
  ASSUME NEW s \in Seq(Chars)
  PROVE  /\ StrToInt(s).ok <=> Denoted(s) # {}
         /\ \A n \in Denoted(s) : StrToInt(s).result = Clamp(n)
         /\ StrToIntOr(s) = IF StrToInt(s).ok THEN StrToInt(s).result
                                              ELSE Default
<1>1. /\ StrToInt(s).ok = Converts(Strip(s))
      /\ StrToInt(s).result = Strtol(Strip(s)).value
  BY DEF StrToInt
<1>2. StrToIntOr(s) = IF Converts(Strip(s)) THEN Strtol(Strip(s)).value
                                            ELSE Default
  BY DEF StrToIntOr
<1>3. ASSUME NEW n \in Denoted(s)
      PROVE  Converts(Strip(s)) /\ Strtol(Strip(s)).value = Clamp(n)
  <2>1. PICK i, j \in 1..Len(s) : Numeral(s, <<i, j>>) /\ n = Denotes(s, <<i, j>>)
    BY <1>3, NumeralsDenote
  <2> QED BY <2>1, NumeralConverts
<1>4. Converts(Strip(s)) => Denoted(s) # {}
  <2> SUFFICES ASSUME Converts(Strip(s))
               PROVE  Denoted(s) # {}
    OBVIOUS
  <2>1. PICK i, j \in 1..Len(s) : Numeral(s, <<i, j>>)
    BY ConvertsNumeral
  <2> QED BY <2>1, NumeralsDenote
<1> QED BY <1>1, <1>2, <1>3, <1>4

\* Whatever text is read into the buffer, of whatever length, str_to_int() takes
\* it for a number exactly when it is a numeral between blanks, and then for the
\* number that it denotes, or the nearest that a long can hold (utils.cpp:105-137).
THEOREM NumeralsRead == SystemSpec => []ReadsNumerals
<1>1. SystemInv => ReadsNumerals
  BY NumeralsTaken DEF SystemInv, BufferInv, Texts, ReadsNumerals
<1> QED BY <1>1, SystemInvariance, PTL

\* The number that is parsed for a field is on a line of it.
LEMMA ParsedIsReported ==
  ASSUME SystemInv, NEW field \in Fields, Parsed[field] # -1
  PROVE  /\ Parsed[field] \in Nat
         /\ Parsed[field] \in Reported(field)
<1> DEFINE found == {i \in 1..Len(lines) : Matches(lines[i], field)}
           n == Len(lines)
<1>1. lines \in Seq(STRING \X Nat) /\ n \in Nat /\ DOMAIN lines = 1..n
  BY LenProperties DEF SystemInv, FilesInv
<1>2. Parsed[field] = IF found = {} THEN -1 ELSE lines[Max(found)][2]
  BY DEF Parsed
<1>3. found # {} /\ Parsed[field] = lines[Max(found)][2]
  BY <1>2
<1>4. \A i \in found : i \in 1..n /\ lines[i][1] = field
  BY DEF Matches
<1> HIDE DEF found
<1>5. \E i \in found : \A j \in found : i >= j
  <2> DEFINE behind == {n - i : i \in found}
  <2>1. behind \subseteq Nat /\ behind # {}
    BY <1>1, <1>3, <1>4
  <2>2. PICK k \in behind : \A j \in behind : k <= j
    BY <2>1, LeastNumber
  <2>3. PICK i \in found : k = n - i
    BY <2>2
  <2>4. ASSUME NEW j \in found
        PROVE  i >= j
    <3>1. n - i <= n - j
      BY <2>2, <2>3
    <3> QED BY <1>1, <1>4, <3>1
  <2> QED BY <2>4
<1>6. Max(found) \in found
  BY <1>5 DEF Max
<1>7. PICK i \in found : Parsed[field] = lines[i][2]
  BY <1>3, <1>6
<1>8. i \in 1..n /\ lines[i][1] = field /\ lines[i] \in STRING \X Nat
  BY <1>1, <1>4, ElementOfSeq
<1>9. lines[i] \in ToSet(lines)
  BY <1>1, <1>8 DEF ToSet
<1> QED BY <1>7, <1>8, <1>9 DEF Reported

\* The nine figures, one by one.
LEMMA NineFigures ==
  ASSUME NEW val, NEW b2g
  PROVE  LET m == Figures(val, b2g)
             used == val["MemTotal"] - val["MemFree"] - val["Buffers"] - val["Cached"]
                       - val["SwapCached"]
         IN /\ m["Total"] = KbToMb(val["MemTotal"])
            /\ m["SwapTotal"] = KbToMb(val["SwapTotal"])
            /\ m["Used - cache"] = KbToMb(used)
            /\ m["B2G procs (PSS)"] = b2g
            /\ m["Non-B2G procs"] = KbToMb(used - b2g)
            /\ m["Free + cache"] = KbToMb(val["MemFree"] + Cache(val))
            /\ m["Free"] = KbToMb(val["MemFree"])
            /\ m["Cache"] = KbToMb(Cache(val))
            /\ m["SwapFree"] = KbToMb(val["SwapFree"])
BY DEF Figures, MemoryCells

\* The table of the memory shows what the kernel reports, and its figures add
\* up, except for the mark of an unknown number (b2g-info.cpp:129-201).
THEOREM FiguresReported == SystemSpec => []FiguresAsReported
<1>1. ASSUME SystemInv, memory # NoTable
      PROVE  FiguresAsReported
  <2>1. PICK b2g \in B2GSums : memory = Figures(Parsed, b2g)
    BY <1>1 DEF SystemInv, MemoryInv
  <2>2. /\ Fields = {"MemTotal", "MemFree", "Buffers", "Cached", "SwapTotal",
                            "SwapFree", "SwapCached"}
        /\ \A field \in Fields : /\ Parsed[field] \in Nat
                                        /\ Parsed[field] \in Reported(field)
    <3>1. \A field \in Fields : Parsed[field] # -1
      BY <1>1 DEF SystemInv, MemoryInv
    <3> QED BY <1>1, <3>1, ParsedIsReported DEF Fields
  <2>3. PICK val : val = Parsed
    OBVIOUS
  <2>4. PICK t, f, b, c, s \in Nat :
          /\ t = val["MemTotal"] /\ f = val["MemFree"] /\ b = val["Buffers"]
          /\ c = val["Cached"] /\ s = val["SwapCached"]
    BY <2>2, <2>3
  <2>5. PICK used, cache : used = t - f - b - c - s /\ cache = b + c + s
    OBVIOUS
  <2>6. /\ memory["Total"] = KbToMb(t)
        /\ memory["SwapTotal"] = KbToMb(val["SwapTotal"])
        /\ memory["Used - cache"] = KbToMb(used)
        /\ memory["B2G procs (PSS)"] = b2g
        /\ memory["Non-B2G procs"] = KbToMb(used - b2g)
        /\ memory["Free + cache"] = KbToMb(f + cache)
        /\ memory["Free"] = KbToMb(f)
        /\ memory["Cache"] = KbToMb(cache)
        /\ memory["SwapFree"] = KbToMb(val["SwapFree"])
    <3>1. /\ used = val["MemTotal"] - val["MemFree"] - val["Buffers"] - val["Cached"]
                      - val["SwapCached"]
          /\ cache = Cache(val)
      BY <2>4, <2>5 DEF Cache
    <3>2. memory = Figures(val, b2g)
      BY <2>1, <2>3
    <3>3. /\ memory["Total"] = KbToMb(val["MemTotal"])
          /\ memory["SwapTotal"] = KbToMb(val["SwapTotal"])
          /\ memory["Used - cache"] = KbToMb(used)
          /\ memory["B2G procs (PSS)"] = b2g
          /\ memory["Non-B2G procs"] = KbToMb(used - b2g)
          /\ memory["Free + cache"] = KbToMb(val["MemFree"] + cache)
          /\ memory["Free"] = KbToMb(val["MemFree"])
          /\ memory["Cache"] = KbToMb(cache)
          /\ memory["SwapFree"] = KbToMb(val["SwapFree"])
      <4>1. LET m == Figures(val, b2g)
                u == val["MemTotal"] - val["MemFree"] - val["Buffers"] - val["Cached"]
                       - val["SwapCached"]
            IN /\ m["Total"] = KbToMb(val["MemTotal"])
               /\ m["SwapTotal"] = KbToMb(val["SwapTotal"])
               /\ m["Used - cache"] = KbToMb(u)
               /\ m["B2G procs (PSS)"] = b2g
               /\ m["Non-B2G procs"] = KbToMb(u - b2g)
               /\ m["Free + cache"] = KbToMb(val["MemFree"] + Cache(val))
               /\ m["Free"] = KbToMb(val["MemFree"])
               /\ m["Cache"] = KbToMb(Cache(val))
               /\ m["SwapFree"] = KbToMb(val["SwapFree"])
        BY NineFigures, Zenon
      <4> QED BY ONLY <3>1, <3>2, <4>1, Zenon
    <3> QED BY <2>4, <3>3
  <2>7. /\ \A n \in Nat : KbToMb(n) = n
        /\ \A n \in Int : KbToMb(n) = n \/ KbToMb(n) = -Kilo
    BY DEF KbToMb
  <2>8. /\ b2g \in Int /\ used \in Int /\ cache \in Nat /\ f + cache \in Nat
        /\ used - b2g \in Int
        /\ used + (f + cache) = t /\ b2g + (used - b2g) = used
    <3>1. b2g \in Int
      BY SystemInfoAssumption DEF SystemInfoAssumption
    <3> QED BY <2>5, <3>1
  <2>9. /\ memory["Total"] \in Reported("MemTotal")
        /\ memory["Free"] \in Reported("MemFree")
        /\ memory["SwapTotal"] \in Reported("SwapTotal")
        /\ memory["SwapFree"] \in Reported("SwapFree")
    BY <2>2, <2>3, <2>4, <2>6, <2>7
  <2>10. \E x \in Reported("Buffers"), y \in Reported("Cached"),
            z \in Reported("SwapCached") : memory["Cache"] = x + y + z
    <3>1. memory["Cache"] = b + c + s
      BY <2>5, <2>6, <2>7, <2>8
    <3>2. /\ b \in Reported("Buffers") /\ c \in Reported("Cached")
          /\ s \in Reported("SwapCached")
      BY <2>2, <2>3, <2>4
    <3> QED BY <3>1, <3>2
  <2>11. /\ memory["Total"] = t /\ memory["Free + cache"] = f + cache
         /\ memory["Free"] = f /\ memory["Cache"] = cache
         /\ memory["B2G procs (PSS)"] = b2g
         /\ memory["Used - cache"] = used \/ memory["Used - cache"] = -Kilo
         /\ memory["Non-B2G procs"] = used - b2g \/ memory["Non-B2G procs"] = -Kilo
    BY <2>6, <2>7, <2>8
  <2>12. \/ memory["Used - cache"] + memory["Free + cache"] = memory["Total"]
         \/ -Kilo \in {memory["Used - cache"], memory["Free + cache"], memory["Total"]}
    BY <2>8, <2>11
  <2>13. \/ memory["Free"] + memory["Cache"] = memory["Free + cache"]
         \/ -Kilo \in {memory["Free"], memory["Cache"], memory["Free + cache"]}
    BY <2>11
  <2>14. \/ memory["B2G procs (PSS)"] + memory["Non-B2G procs"] = memory["Used - cache"]
         \/ -Kilo \in {memory["B2G procs (PSS)"], memory["Non-B2G procs"],
                       memory["Used - cache"]}
    BY <2>8, <2>11
  <2>15. \A x \in { <<"Total", "MemTotal">>, <<"Free", "MemFree">>,
                    <<"SwapTotal", "SwapTotal">>, <<"SwapFree", "SwapFree">> } :
           memory[x[1]] \in Reported(x[2])
    BY <2>9
  <2> QED BY <2>10, <2>12, <2>13, <2>14, <2>15, Zenon DEF FiguresAsReported
<1>2. SystemInv => FiguresAsReported
  BY <1>1 DEF FiguresAsReported
<1> QED BY <1>2, SystemInvariance, PTL

-----------------------------------------------------------------------------
(***************************************************************************)
(* The two lists of the low-memory killer, as they are cut out of their    *)
(* files and paired (SystemInfo).                                          *)
(***************************************************************************)
\* What adds the items of g to a sequence, the least place first.
Appends(h, n, g) ==
  /\ h[{}] = <<>>
  /\ \A s \in SUBSET (1..n) :
       s # {} => h[s] = Append(h[s \ {Max(s)}], g[Max(s)])

\* There is what does.
LEMMA AppendsExist ==
  ASSUME NEW n \in Nat, NEW Z, NEW g \in [1..n -> Z]
  PROVE  \E f : f = [s \in SUBSET (1..n) |-> f[s]] /\ Appends(f, n, g)
<1> DEFINE S == 1..n
           V == Seq(Z)
           pick == [s \in SUBSET S |-> Max(s)]
           step == [i \in S |-> [v \in V |-> Append(v, g[i])]]
<1>1. IsFiniteSet(S)
  BY FS_Interval
<1>2. <<>> \in V /\ step \in [S -> [V -> V]]
  <2>1. \A i \in S : \A v \in V : Append(v, g[i]) \in V
    BY AppendProperties
  <2> HIDE DEF V
  <2>2. step \in [S -> [V -> V]]
    BY <2>1
  <2> QED BY <2>2 DEF V
<1>3. \A s \in SUBSET S : s # {} => pick[s] \in s /\ pick[s] = Max(s)
  <2>1. ASSUME NEW s \in SUBSET S, s # {}
        PROVE  Max(s) \in s
    <3>1. s \subseteq Int /\ IsFiniteSet(s)
      <4>1. S \subseteq Int
        OBVIOUS
      <4> HIDE DEF S
      <4> QED BY <1>1, <2>1, <4>1, FS_Subset
    <3>2. Max(s) \in s /\ \A x \in s : x <= Max(s)
      BY <2>1, <3>1, Greatest
    <3> QED BY <3>2
  <2> QED BY <2>1
<1>4. \A i \in S : \A v \in V : step[i][v] = Append(v, g[i])
  OBVIOUS
<1> HIDE DEF V, pick, step
<1>5. PICK f : Folded(f, S, V, pick, <<>>, step)
  <2>1. \A s \in SUBSET S : s # {} => pick[s] \in s
    BY <1>3
  <2> HIDE DEF S
  <2> QED BY ONLY <1>1, <1>2, <2>1, FoldExists
<1> HIDE DEF S
<1>6. f = [s \in SUBSET S |-> f[s]] /\ f[{}] = <<>>
  BY <1>5 DEF Folded
<1>7. ASSUME NEW s \in SUBSET S, s # {}
      PROVE  f[s] = Append(f[s \ {Max(s)}], g[Max(s)])
  <2>1. f[s] = step[pick[s]][f[s \ {pick[s]}]] /\ f[s \ {pick[s]}] \in V
    BY <1>5, <1>7 DEF Folded
  <2>2. pick[s] = Max(s) /\ Max(s) \in S
    BY <1>3, <1>7
  <2> QED BY <1>4, <2>1, <2>2
<1> QED BY <1>6, <1>7 DEF Appends, S

\* q is g as a sequence.
Sequenced(q, n, g, Z) ==
  q \in Seq(Z) /\ Len(q) = n /\ \A i \in 1..n : q[i] = g[i]

\* What does so gives g as a sequence.
LEMMA Appended ==
  ASSUME NEW n \in Nat, NEW Z, NEW g \in [1..n -> Z], NEW h, Appends(h, n, g)
  PROVE  Sequenced(h[1..n], n, g, Z)
<1> DEFINE Good(q, k) == q \in Seq(Z) /\ Len(q) = k /\ \A i \in 1..k : q[i] = g[i]
           N == {k \in Nat : k <= n => Good(h[1..k], k)}
<1>1. 0 \in N
  <2>1. 1..0 = {} /\ h[{}] = <<>>
    BY DEF Appends
  <2>2. Good(<<>>, 0)
    OBVIOUS
  <2> HIDE DEF Good
  <2> QED BY <2>1, <2>2
<1>2. ASSUME NEW k \in Nat, k \in N
      PROVE  k + 1 \in N
  <2> SUFFICES ASSUME k + 1 <= n
               PROVE  Good(h[1..k + 1], k + 1)
    OBVIOUS
  <2> DEFINE s == 1..k + 1
             q == h[1..k]
  <2>1. s \in SUBSET (1..n) /\ s # {}
    OBVIOUS
  <2>2. Max(s) = k + 1
    <3>1. s \subseteq Int /\ IsFiniteSet(s) /\ k + 1 \in s
      BY FS_Interval
    <3>2. Max(s) \in s /\ \A x \in s : x <= Max(s)
      BY <2>1, <3>1, Greatest
    <3> QED BY <3>1, <3>2
  <2>3. s \ {k + 1} = 1..k
    OBVIOUS
  <2>4. h[s] = Append(q, g[k + 1])
    <3>1. h[s] = Append(h[s \ {Max(s)}], g[Max(s)])
      BY <2>1 DEF Appends
    <3> HIDE DEF s
    <3> QED BY <2>2, <2>3, <3>1
  <2>5. Good(q, k)
    BY <1>2
  <2>6. g[k + 1] \in Z
    OBVIOUS
  <2> HIDE DEF q, s
  <2>7. Good(Append(q, g[k + 1]), k + 1)
    <3>1. /\ Append(q, g[k + 1]) \in Seq(Z)
          /\ Len(Append(q, g[k + 1])) = Len(q) + 1
          /\ \A i \in 1..Len(q) : Append(q, g[k + 1])[i] = q[i]
          /\ Append(q, g[k + 1])[Len(q) + 1] = g[k + 1]
      BY <2>5, <2>6, AppendProperties
    <3>2. \A i \in 1..k + 1 : i \in 1..k \/ i = k + 1
      OBVIOUS
    <3> QED BY <2>5, <3>1, <3>2
  <2> HIDE DEF Good
  <2> QED BY <2>4, <2>7 DEF s
<1> HIDE DEF N
<1>3. Nat \subseteq N
  BY <1>1, <1>2, InductionUp
<1>4. Good(h[1..n], n)
  BY <1>3 DEF N
<1> QED BY <1>4 DEF Sequenced

\* What Items() makes of the ends of a text.
Splits(h, text) ==
  /\ h[{}] = << <<>> >>
  /\ \A s \in SUBSET (1..Len(text)) : s # {} =>
       h[s] = IF text[Min(s)] = Comma THEN << <<>> >> \o h[s \ {Min(s)}]
              ELSE [h[s \ {Min(s)}] EXCEPT ![1] = <<text[Min(s)]>> \o @]

\* There is what splits a text as Items() does.
LEMMA SplitsExist ==
  ASSUME NEW text \in Texts
  PROVE  \E f : f = [s \in SUBSET (1..Len(text)) |-> f[s]] /\ Splits(f, text)
<1> DEFINE S == 1..Len(text)
           V == {items \in Seq(Texts) : items # <<>>}
           pick == [s \in SUBSET S |-> Min(s)]
           base == << <<>> >>
           After(i, v) == IF text[i] = Comma THEN base \o v
                          ELSE [v EXCEPT ![1] = <<text[i]>> \o @]
           step == [i \in S |-> [v \in V |-> After(i, v)]]
<1>0. Len(text) \in Nat /\ \A i \in S : text[i] \in Chars
  BY LenProperties DEF Texts
<1>1. IsFiniteSet(S)
  BY <1>0, FS_Interval
<1>2. ASSUME NEW i \in S, NEW v \in V
      PROVE  /\ base \o v \in V
             /\ [v EXCEPT ![1] = <<text[i]>> \o @] \in V
  <2> DEFINE T == Texts
  <2>1. <<>> \in T /\ <<text[i]>> \in T
    BY <1>0 DEF Texts
  <2>2. v \in Seq(T) /\ v # <<>> /\ Len(v) \in Nat \ {0} /\ v[1] \in T
    BY LenProperties, EmptySeq
  <2>3. <<text[i]>> \o v[1] \in T
    BY <2>1, <2>2, ConcatProperties DEF Texts
  <2> HIDE DEF T
  <2>4. base \in Seq(T) /\ Len(base) = 1
    BY <2>1
  <2>5. base \o v \in Seq(T) /\ Len(base \o v) = 1 + Len(v)
    BY <2>2, <2>4, ConcatProperties
  <2>6. base \o v # <<>>
    BY <2>2, <2>5, EmptySeq
  <2>7. [v EXCEPT ![1] = <<text[i]>> \o @] \in Seq(T) /\ Len([v EXCEPT ![1] = <<text[i]>> \o @]) = Len(v)
    <3> DEFINE w == <<text[i]>> \o v[1]
    <3>1. w \in T /\ v \in Seq(T) /\ 1 \in 1..Len(v)
      BY <2>2, <2>3
    <3>2. [v EXCEPT ![1] = <<text[i]>> \o @] = [v EXCEPT ![1] = w]
      OBVIOUS
    <3> HIDE DEF w
    <3>3. [v EXCEPT ![1] = w] \in Seq(T) /\ Len([v EXCEPT ![1] = w]) = Len(v)
      BY ONLY <3>1, ExceptSeq
    <3> QED BY <3>2, <3>3
  <2>8. [v EXCEPT ![1] = <<text[i]>> \o @] # <<>>
    BY <2>2, <2>7, EmptySeq
  <2> QED BY <2>5, <2>6, <2>7, <2>8 DEF T
<1>3. base \in V
  <2>1. <<>> \in Texts
    BY DEF Texts
  <2> QED BY <2>1
<1>4. \A i \in S : \A v \in V :
        step[i][v] = After(i, v)
  OBVIOUS
<1>5. step \in [S -> [V -> V]]
  <2>1. \A i \in S : \A v \in V : After(i, v) \in V
    BY <1>2
  <2> HIDE DEF V, S, After
  <2> QED BY <2>1
<1>6. \A s \in SUBSET S : s # {} => pick[s] \in s /\ pick[s] = Min(s)
  <2>1. ASSUME NEW s \in SUBSET S, s # {}
        PROVE  Min(s) \in s
    <3>1. s \subseteq Nat
      BY <1>0
    <3> QED BY <2>1, <3>1, Least
  <2> QED BY <2>1
<1> HIDE DEF V, pick, step, base, After
<1>7. PICK f : Folded(f, S, V, pick, base, step)
  <2>1. \A s \in SUBSET S : s # {} => pick[s] \in s
    BY <1>6
  <2> HIDE DEF S
  <2> QED BY ONLY <1>1, <1>3, <1>5, <2>1, FoldExists
<1> HIDE DEF S
<1>8. f = [s \in SUBSET S |-> f[s]] /\ f[{}] = base
  BY <1>7 DEF Folded
<1>9. ASSUME NEW s \in SUBSET S, s # {}
      PROVE  f[s] = After(Min(s), f[s \ {Min(s)}])
  <2>1. f[s] = step[pick[s]][f[s \ {pick[s]}]] /\ f[s \ {pick[s]}] \in V
    BY <1>7, <1>9 DEF Folded
  <2>2. pick[s] = Min(s) /\ Min(s) \in S
    BY <1>6, <1>9
  <2> QED BY <1>4, <2>1, <2>2
<1> QED BY <1>8, <1>9, Zenon DEF Splits, S, base, After

\* The pieces of a text from k on, and the cuts c between which they stand.
Cut(items, text, c, k) ==
  LET m == Len(items) IN
    /\ items \in Seq(Texts) /\ m >= 1
    /\ c \in [1..m + 1 -> Int] /\ c[1] = k - 1 /\ c[m + 1] = Len(text) + 1
    /\ \A i, j \in 1..m + 1 : i < j => c[i] < c[j]
    /\ \A p \in k..Len(text) : text[p] = Comma <=> \E i \in 2..m : c[i] = p
    /\ \A i \in 1..m : items[i] = SubSeq(text, c[i] + 1, c[i + 1] - 1)

\* Behind the end of a text there is one piece, which is empty.
LEMMA CutStart ==
  ASSUME NEW text \in Texts
  PROVE  Cut(<< <<>> >>, text, <<Len(text), Len(text) + 1>>, Len(text) + 1)
<1> DEFINE n == Len(text)
           items == << <<>> >>
           c == <<n, n + 1>>
<1>1. n \in Nat
  BY LenProperties DEF Texts
<1>2. items \in Seq(Texts) /\ Len(items) = 1 /\ items[1] = <<>>
  <2> DEFINE T == Texts
  <2>1. <<>> \in T
    BY DEF Texts
  <2> HIDE DEF T
  <2>2. items \in Seq(T) /\ Len(items) = 1 /\ items[1] = <<>>
    BY <2>1
  <2> QED BY <2>2 DEF T
<1>3. c \in [1..2 -> Int] /\ c[1] = n /\ c[2] = n + 1
  BY <1>1
<1>4. SubSeq(text, c[1] + 1, c[2] - 1) = <<>>
  <2>1. SubSeq(text, n + 1, n) = <<>>
    BY <1>1, SubSeqEmpty
  <2>2. c[1] + 1 = n + 1 /\ c[2] - 1 = n
    BY <1>1, <1>3
  <2> QED BY <2>1, <2>2
<1> HIDE DEF c, items
<1>5. items \in Seq(Texts) /\ Len(items) >= 1
  BY <1>2
<1>6. c \in [1..Len(items) + 1 -> Int] /\ c[1] = (n + 1) - 1 /\ c[Len(items) + 1] = n + 1
  BY <1>1, <1>2, <1>3
<1>7. \A i, j \in 1..Len(items) + 1 : i < j => c[i] < c[j]
  BY <1>1, <1>2, <1>3
<1>8. \A p \in n + 1..n : text[p] = Comma <=> \E i \in 2..Len(items) : c[i] = p
  BY <1>1
<1>9. \A i \in 1..Len(items) : items[i] = SubSeq(text, c[i] + 1, c[i + 1] - 1)
  <2>1. \A i \in 1..Len(items) : i = 1 /\ i + 1 = 2
    BY <1>2
  <2> QED BY <1>2, <1>4, <2>1
<1>10. Cut(items, text, c, n + 1)
  BY <1>5, <1>6, <1>7, <1>8, <1>9 DEF Cut
<1> QED BY <1>10 DEF items, c

\* A comma begins a piece, with what follows it.
LEMMA CutComma ==
  ASSUME NEW text \in Texts, NEW k \in 1..Len(text), text[k] = Comma,
         NEW items, NEW c, Cut(items, text, c, k + 1)
  PROVE  \E d : Cut(<< <<>> >> \o items, text, d, k)
<1> DEFINE n == Len(text)
           m == Len(items)
           more == << <<>> >> \o items
           d == [i \in 1..m + 2 |-> IF i = 1 THEN k - 1 ELSE c[i - 1]]
<1>1. n \in Nat /\ k \in Nat /\ k >= 1 /\ k <= n
  BY LenProperties DEF Texts
<1>2. /\ items \in Seq(Texts) /\ m >= 1
      /\ c \in [1..m + 1 -> Int] /\ c[1] = (k + 1) - 1 /\ c[m + 1] = n + 1
      /\ \A i, j \in 1..m + 1 : i < j => c[i] < c[j]
      /\ \A p \in k + 1..n : text[p] = Comma <=> \E i \in 2..m : c[i] = p
      /\ \A i \in 1..m : items[i] = SubSeq(text, c[i] + 1, c[i + 1] - 1)
  BY DEF Cut
<1>3. m \in Nat /\ c[1] = k
  BY <1>1, <1>2, LenProperties
<1>4. /\ more \in Seq(Texts) /\ Len(more) = m + 1
      /\ more[1] = <<>> /\ \A i \in 2..m + 1 : more[i] = items[i - 1]
  <2> DEFINE T == Texts
             e == << <<>> >>
  <2>1. <<>> \in T
    BY DEF Texts
  <2>2. items \in Seq(T)
    BY <1>2
  <2> HIDE DEF T
  <2>3. e \in Seq(T) /\ Len(e) = 1 /\ e[1] = <<>>
    BY <2>1
  <2>4. more = e \o items
    OBVIOUS
  <2> HIDE DEF e, more
  <2>5. /\ e \o items \in Seq(T) /\ Len(e \o items) = Len(e) + m
        /\ \A i \in 1..Len(e) + m :
             (e \o items)[i] = IF i <= Len(e) THEN e[i] ELSE items[i - Len(e)]
    BY <2>2, <2>3, ConcatProperties
  <2>6. more \in Seq(T)
    BY <2>4, <2>5
  <2> QED BY <1>3, <2>3, <2>4, <2>5, <2>6 DEF T
<1>5. d \in [1..m + 2 -> Int] /\ d[1] = k - 1 /\ d[m + 2] = n + 1
  BY <1>1, <1>2, <1>3
<1>6. \A i \in 2..m + 2 : d[i] = c[i - 1] /\ i - 1 \in 1..m + 1
  BY <1>3
<1> HIDE DEF d, more
<1>7. ASSUME NEW i \in 1..m + 1
      PROVE  k <= c[i] /\ c[i] \in Int
  <2>1. c[i] \in Int /\ 1 \in 1..m + 1
    <3>1. 1 \in 1..m + 1
      BY <1>3
    <3>2. c[i] \in Int
      <4> HIDE DEF m
      <4> QED BY <1>2
    <3> QED BY <3>1, <3>2
  <2>2. 1 < i => c[1] < c[i]
    BY <1>2, <2>1
  <2>3. i = 1 \/ 1 < i
    BY <1>3
  <2>4. CASE i = 1
    BY <1>1, <1>3, <2>1, <2>4
  <2>5. CASE 1 < i
    <3>1. k < c[i] /\ c[i] \in Int
      BY <1>3, <2>1, <2>2, <2>5
    <3> QED BY <1>1, <3>1
  <2> QED BY <2>3, <2>4, <2>5
<1>8. \A i, j \in 1..m + 2 : i < j => d[i] < d[j]
  <2> SUFFICES ASSUME NEW i \in 1..m + 2, NEW j \in 1..m + 2, i < j
               PROVE  d[i] < d[j]
    OBVIOUS
  <2>1. d[j] = c[j - 1] /\ j - 1 \in 1..m + 1 /\ c[j - 1] \in Int /\ k <= c[j - 1]
    BY <1>2, <1>3, <1>6, <1>7
  <2>2. CASE i = 1
    BY <1>1, <1>5, <2>1, <2>2
  <2>3. CASE i # 1
    <3>1. d[i] = c[i - 1] /\ i - 1 \in 1..m + 1 /\ i - 1 < j - 1
      BY <1>3, <1>6, <2>3
    <3> QED BY <1>2, <2>1, <3>1
  <2> QED BY <2>2, <2>3
<1>9. ASSUME NEW p \in k..n
      PROVE  text[p] = Comma <=> \E i \in 2..m + 1 : d[i] = p
  <2>1. 2 \in 2..m + 1 /\ d[2] = k
    <3>1. 2 \in 2..m + 2 /\ 2 - 1 = 1
      BY <1>3
    <3> QED BY <1>2, <1>3, <1>6, <3>1
  <2>2. CASE p = k
    BY <2>1, <2>2
  <2>3. CASE p # k
    <3>1. p \in k + 1..n
      BY <1>1, <2>3
    <3>2. text[p] = Comma <=> \E i \in 2..m : c[i] = p
      BY <1>2, <3>1
    <3>3. ASSUME NEW i \in 2..m, c[i] = p
          PROVE  \E j \in 2..m + 1 : d[j] = p
      <4>1. i + 1 \in 2..m + 1 /\ i + 1 \in 2..m + 2 /\ (i + 1) - 1 = i
        BY <1>3
      <4>2. d[i + 1] = c[(i + 1) - 1]
        BY <1>6, <4>1
      <4> QED BY <3>3, <4>1, <4>2
    <3>4. ASSUME NEW j \in 2..m + 1, d[j] = p
          PROVE  \E i \in 2..m : c[i] = p
      <4>1. j \in 2..m + 2 /\ d[j] = c[j - 1]
        BY <1>3, <1>6
      <4>2. j # 2
        BY <2>1, <2>3, <3>4
      <4>3. j - 1 \in 2..m
        BY <1>3, <4>2
      <4> QED BY <3>4, <4>1, <4>3
    <3> QED BY <3>2, <3>3, <3>4
  <2> QED BY <2>2, <2>3
<1>10. ASSUME NEW i \in 1..m + 1
       PROVE  more[i] = SubSeq(text, d[i] + 1, d[i + 1] - 1)
  <2>1. CASE i = 1
    <3>1. d[i] + 1 = k /\ d[i + 1] - 1 = k - 1
      <4>1. 2 \in 2..m + 2 /\ 2 - 1 = 1 /\ i + 1 = 2
        BY <1>3, <2>1
      <4>2. d[2] = c[1]
        BY <1>6, <4>1
      <4> QED BY <1>1, <1>3, <1>5, <2>1, <4>1, <4>2
    <3>2. SubSeq(text, k, k - 1) = <<>>
      BY <1>1, SubSeqEmpty
    <3> QED BY <1>4, <2>1, <3>1, <3>2
  <2>2. CASE i # 1
    <3>1. i \in 2..m + 1 /\ i \in 2..m + 2 /\ i + 1 \in 2..m + 2 /\ i - 1 \in 1..m
          /\ (i + 1) - 1 = (i - 1) + 1
      BY <1>3, <2>2
    <3>2. d[i] = c[i - 1] /\ d[i + 1] = c[(i + 1) - 1]
      BY <1>6, <3>1
    <3>3. d[i + 1] = c[(i - 1) + 1]
      BY <3>1, <3>2
    <3>4. items[i - 1] = SubSeq(text, c[i - 1] + 1, c[(i - 1) + 1] - 1)
      BY <1>2, <3>1
    <3>5. more[i] = items[i - 1]
      BY <1>4, <3>1
    <3> QED BY <3>2, <3>3, <3>4, <3>5
  <2> QED BY <2>1, <2>2
<1>11. Cut(more, text, d, k)
  <2> DEFINE l == Len(more)
  <2>1. l = m + 1 /\ l + 1 = m + 2 /\ l >= 1
    BY <1>3, <1>4
  <2>2. more \in Seq(Texts)
    BY <1>4
  <2>3. d \in [1..l + 1 -> Int] /\ d[1] = k - 1 /\ d[l + 1] = Len(text) + 1
    BY <1>5, <2>1
  <2>4. \A i, j \in 1..l + 1 : i < j => d[i] < d[j]
    BY <1>8, <2>1
  <2>5. \A p \in k..Len(text) : text[p] = Comma <=> \E i \in 2..l : d[i] = p
    BY <1>9, <2>1
  <2>6. \A i \in 1..l : more[i] = SubSeq(text, d[i] + 1, d[i + 1] - 1)
    BY <1>10, <2>1
  <2> QED BY <2>1, <2>2, <2>3, <2>4, <2>5, <2>6 DEF Cut
<1> QED BY <1>11 DEF more

\* Another character begins the first piece.
LEMMA CutOther ==
  ASSUME NEW text \in Texts, NEW k \in 1..Len(text), text[k] # Comma,
         NEW items, NEW c, Cut(items, text, c, k + 1)
  PROVE  \E d : Cut([items EXCEPT ![1] = <<text[k]>> \o @], text, d, k)
<1> DEFINE n == Len(text)
           m == Len(items)
           w == <<text[k]>> \o items[1]
           more == [items EXCEPT ![1] = w]
           d == [i \in 1..m + 1 |-> IF i = 1 THEN k - 1 ELSE c[i]]
<1>1. n \in Nat /\ k \in Nat /\ k >= 1 /\ k <= n
  BY LenProperties DEF Texts
<1>2. /\ items \in Seq(Texts) /\ m >= 1
      /\ c \in [1..m + 1 -> Int] /\ c[1] = (k + 1) - 1 /\ c[m + 1] = n + 1
      /\ \A i, j \in 1..m + 1 : i < j => c[i] < c[j]
      /\ \A p \in k + 1..n : text[p] = Comma <=> \E i \in 2..m : c[i] = p
      /\ \A i \in 1..m : items[i] = SubSeq(text, c[i] + 1, c[i + 1] - 1)
  BY DEF Cut
<1>3. m \in Nat /\ c[1] = k
  BY <1>1, <1>2, LenProperties
<1>4. ASSUME NEW i \in 2..m + 1
      PROVE  c[i] \in Int /\ k < c[i] /\ d[i] = c[i]
  <2>1. i \in 1..m + 1 /\ 1 \in 1..m + 1 /\ 1 < i
    BY <1>3
  <2>2. c[1] < c[i] /\ c[i] \in Int
    BY <1>2, <2>1
  <2>3. d[i] = c[i]
    <3>1. i # 1
      BY <1>3
    <3> QED BY <2>1, <3>1
  <2> QED BY <1>3, <2>2, <2>3
<1>5. d \in [1..m + 1 -> Int] /\ d[1] = k - 1 /\ d[m + 1] = n + 1
  BY <1>1, <1>2, <1>3
<1> HIDE DEF d
<1>6. c[2] \in Int /\ k < c[2] /\ c[2] <= n + 1 /\ d[2] = c[2]
  <2>1. 2 \in 2..m + 1 /\ 2 \in 1..m + 1
    BY <1>2, <1>3
  <2>2. 2 = m + 1 \/ c[2] < c[m + 1]
    <3>1. m + 1 \in 1..m + 1 /\ (2 < m + 1 \/ 2 = m + 1)
      BY <1>2, <1>3
    <3> QED BY <1>2, <2>1, <3>1
  <2>3. c[2] \in Int /\ k < c[2] /\ d[2] = c[2]
    BY <1>2, <1>4, <2>1
  <2> QED BY <1>1, <1>2, <2>2, <2>3
<1> DEFINE z == c[2]
<1>7. \A i \in 1..n : text[i] \in Chars
  BY DEF Texts
<1>8. items[1] = SubSeq(text, k + 1, z - 1)
  <2>1. 1 \in 1..m /\ 1 + 1 = 2
    BY <1>2, <1>3
  <2> QED BY <1>2, <1>3, <2>1
<1>16. z \in Int /\ k < z /\ z <= n + 1
  BY <1>6
<1> HIDE DEF z
<1>9. w \in Texts /\ w = SubSeq(text, k, z - 1)
  <2> DEFINE q == SubSeq(text, k + 1, z - 1)
             r == SubSeq(text, k, z - 1)
             e == <<text[k]>>
  <2>1. e \in Seq(Chars) /\ Len(e) = 1 /\ e[1] = text[k]
    BY <1>1, <1>7
  <2>2. /\ q \in Seq(Chars) /\ Len(q) = z - 1 - k
        /\ \A i \in 1..z - 1 - k : q[i] = text[k + 1 + i - 1]
    <3>1. \A i \in k + 1..z - 1 : text[i] \in Chars
      BY <1>1, <1>16, <1>7
    <3>2. k + 1 \in Int /\ z - 1 \in Int
      BY <1>1, <1>16
    <3>3. /\ q \in Seq(Chars)
          /\ Len(q) = IF k + 1 <= z - 1 THEN z - 1 - (k + 1) + 1 ELSE 0
          /\ \A i \in 1..z - 1 - (k + 1) + 1 : q[i] = text[k + 1 + i - 1]
      BY <3>1, <3>2, SubSeqProperties
    <3>4. z - 1 - (k + 1) + 1 = z - 1 - k
      BY <1>1, <1>16
    <3> QED BY <1>1, <1>16, <3>3, <3>4
  <2>3. /\ r \in Seq(Chars) /\ Len(r) = z - k
        /\ \A i \in 1..z - k : r[i] = text[k + i - 1]
    <3>1. \A i \in k..z - 1 : text[i] \in Chars
      BY <1>1, <1>16, <1>7
    <3>2. k \in Int /\ z - 1 \in Int
      BY <1>1, <1>16
    <3>3. /\ r \in Seq(Chars)
          /\ Len(r) = IF k <= z - 1 THEN z - 1 - k + 1 ELSE 0
          /\ \A i \in 1..z - 1 - k + 1 : r[i] = text[k + i - 1]
      BY <3>1, <3>2, SubSeqProperties
    <3>4. z - 1 - k + 1 = z - k /\ k <= z - 1
      BY <1>1, <1>16
    <3> QED BY <3>3, <3>4
  <2> HIDE DEF q, r, e
  <2>4. /\ e \o q \in Seq(Chars) /\ Len(e \o q) = Len(e) + Len(q)
        /\ \A i \in 1..Len(e) + Len(q) :
             (e \o q)[i] = IF i <= Len(e) THEN e[i] ELSE q[i - Len(e)]
    BY <2>1, <2>2, ConcatProperties
  <2>5. Len(e \o q) = Len(r) /\ Len(e) + Len(q) = z - k
    BY <1>1, <1>16, <2>1, <2>2, <2>3, <2>4
  <2>6. ASSUME NEW i \in 1..z - k
        PROVE  (e \o q)[i] = r[i]
    <3>1. r[i] = text[k + i - 1]
      BY <2>3
    <3>2. CASE i = 1
      <4>1. (e \o q)[i] = text[k] /\ k + i - 1 = k
        BY <1>1, <2>1, <2>4, <2>5, <3>2
      <4> QED BY <3>1, <4>1
    <3>3. CASE i # 1
      <4>1. i - 1 \in 1..z - 1 - k /\ k + 1 + (i - 1) - 1 = k + i - 1
        BY <1>1, <1>16, <3>3
      <4>2. (e \o q)[i] = q[i - 1]
        BY <1>1, <1>16, <2>1, <2>4, <2>5, <3>3
      <4>3. q[i - 1] = text[k + 1 + (i - 1) - 1]
        BY <2>2, <4>1
      <4> QED BY <3>1, <4>1, <4>2, <4>3
    <3> QED BY <3>2, <3>3
  <2>7. e \o q = r
    BY <2>3, <2>4, <2>5, <2>6, SeqEqual
  <2>8. w = e \o q
    BY <1>8 DEF e, q
  <2> QED BY <2>3, <2>7, <2>8 DEF r, Texts
<1>10. /\ more \in Seq(Texts) /\ Len(more) = m
       /\ more[1] = w /\ \A i \in 2..m : more[i] = items[i]
  <2> DEFINE T == Texts
  <2>1. w \in T /\ items \in Seq(T) /\ 1 \in 1..m
    BY <1>2, <1>3, <1>9
  <2> HIDE DEF T, w
  <2>2. more \in Seq(T) /\ Len(more) = m
    BY ONLY <2>1, ExceptSeq
  <2>3. more[1] = w /\ \A i \in 2..m : more[i] = items[i]
    BY <2>1, <1>3
  <2> QED BY <2>2, <2>3 DEF T
<1>11. [items EXCEPT ![1] = <<text[k]>> \o @] = more
  OBVIOUS
<1> HIDE DEF more, w
<1>12. \A i, j \in 1..m + 1 : i < j => d[i] < d[j]
  <2> SUFFICES ASSUME NEW i \in 1..m + 1, NEW j \in 1..m + 1, i < j
               PROVE  d[i] < d[j]
    OBVIOUS
  <2>1. j \in 2..m + 1 /\ d[j] = c[j] /\ k < c[j] /\ c[j] \in Int
    BY <1>3, <1>4
  <2>2. CASE i = 1
    BY <1>1, <1>5, <2>1, <2>2
  <2>3. CASE i # 1
    <3>1. d[i] = c[i] /\ c[i] \in Int
      BY <1>3, <1>4, <2>3
    <3> QED BY <1>2, <2>1, <3>1
  <2> QED BY <2>2, <2>3
<1>13. ASSUME NEW p \in k..n
       PROVE  text[p] = Comma <=> \E i \in 2..m : d[i] = p
  <2>1. \A i \in 2..m : d[i] = c[i] /\ k < c[i] /\ c[i] \in Int
    BY <1>3, <1>4
  <2>2. CASE p = k
    <3>1. text[p] # Comma
      BY <1>1, <2>2
    <3>2. \A i \in 2..m : d[i] # p
      BY <2>1, <2>2
    <3> QED BY <3>1, <3>2
  <2>3. CASE p # k
    <3>1. p \in k + 1..n
      BY <1>1, <2>3
    <3>2. text[p] = Comma <=> \E i \in 2..m : c[i] = p
      BY <1>2, <3>1
    <3> QED BY <2>1, <3>2
  <2> QED BY <2>2, <2>3
<1>14. ASSUME NEW i \in 1..m
       PROVE  more[i] = SubSeq(text, d[i] + 1, d[i + 1] - 1)
  <2>1. CASE i = 1
    <3>1. d[i] + 1 = k /\ i + 1 = 2
      BY <1>1, <1>5, <2>1
    <3> QED BY <1>6, <1>9, <1>10, <2>1, <3>1 DEF z
  <2>2. CASE i # 1
    <3>1. i \in 2..m /\ i \in 2..m + 1 /\ i + 1 \in 2..m + 1
      BY <1>3, <2>2
    <3>2. d[i] = c[i] /\ d[i + 1] = c[i + 1]
      BY <1>4, <3>1
    <3>3. items[i] = SubSeq(text, c[i] + 1, c[i + 1] - 1)
      BY <1>2, <3>1
    <3> QED BY <1>10, <3>1, <3>2, <3>3
  <2> QED BY <2>1, <2>2
<1>15. Cut(more, text, d, k)
  <2> DEFINE l == Len(more)
  <2>1. l = m
    BY <1>10
  <2>2. more \in Seq(Texts) /\ l >= 1
    BY <1>2, <1>10
  <2>3. d \in [1..l + 1 -> Int] /\ d[1] = k - 1 /\ d[l + 1] = Len(text) + 1
    BY <1>5, <2>1
  <2>4. \A i, j \in 1..l + 1 : i < j => d[i] < d[j]
    BY <1>12, <2>1
  <2>5. \A p \in k..Len(text) : text[p] = Comma <=> \E i \in 2..l : d[i] = p
    BY <1>13, <2>1
  <2>6. \A i \in 1..l : more[i] = SubSeq(text, d[i] + 1, d[i + 1] - 1)
    BY <1>14, <2>1
  <2> QED BY <2>2, <2>3, <2>4, <2>5, <2>6 DEF Cut
<1> QED BY <1>11, <1>15

\* What goes over a text from its end cuts it at its commas.
LEMMA SplitsCut ==
  ASSUME NEW text \in Texts, NEW h, Splits(h, text)
  PROVE  \E c : Cut(h[1..Len(text)], text, c, 1)
<1> DEFINE n == Len(text)
           N == {j \in Nat : j <= n => \E c : Cut(h[n - j + 1..n], text, c, n - j + 1)}
<1>1. n \in Nat
  BY LenProperties DEF Texts
<1> HIDE DEF n
<1>2. 0 \in N
  <2>1. n - 0 + 1 = n + 1 /\ n + 1..n = {}
    BY <1>1
  <2>2. h[{}] = << <<>> >>
    BY DEF Splits
  <2>3. Cut(h[{}], text, <<n, n + 1>>, n + 1)
    BY <2>2, CutStart DEF n
  <2> QED BY <2>1, <2>3
<1>3. ASSUME NEW j \in Nat, j \in N
      PROVE  j + 1 \in N
  <2> SUFFICES ASSUME j + 1 <= n
               PROVE  \E c : Cut(h[n - (j + 1) + 1..n], text, c, n - (j + 1) + 1)
    OBVIOUS
  <2> DEFINE k == n - j
             s == k..n
  <2>1. k \in 1..n /\ n - (j + 1) + 1 = k /\ n - j + 1 = k + 1
    BY <1>1
  <2>2. PICK c : Cut(h[k + 1..n], text, c, k + 1)
    BY <1>1, <1>3, <2>1
  <2>3. s \in SUBSET (1..n) /\ s # {} /\ s \ {k} = k + 1..n
    BY <1>1, <2>1
  <2>4. Min(s) = k
    <3>1. s \subseteq Nat /\ k \in s
      BY <1>1, <2>1
    <3>2. Min(s) \in s /\ \A x \in s : Min(s) <= x
      BY <2>3, <3>1, Least
    <3> QED BY <1>1, <2>1, <3>1, <3>2
  <2> HIDE DEF k, s
  <2>5. h[s] = IF text[k] = Comma THEN << <<>> >> \o h[k + 1..n]
               ELSE [h[k + 1..n] EXCEPT ![1] = <<text[k]>> \o @]
    <3>1. h[s] = IF text[Min(s)] = Comma THEN << <<>> >> \o h[s \ {Min(s)}]
                 ELSE [h[s \ {Min(s)}] EXCEPT ![1] = <<text[Min(s)]>> \o @]
      BY <2>3, Zenon DEF Splits, n
    <3>2. s \ {Min(s)} = k + 1..n
      BY <2>3, <2>4
    <3> QED BY <2>4, <3>1, <3>2
  <2>6. \E d : Cut(h[s], text, d, k)
    <3> DEFINE items == h[k + 1..n]
    <3>1. k \in 1..Len(text) /\ Cut(items, text, c, k + 1)
      BY <2>1, <2>2 DEF n
    <3> HIDE DEF items
    <3>2. CASE text[k] = Comma
      <4>1. h[s] = << <<>> >> \o items
        BY <2>5, <3>2 DEF items
      <4>2. \E d : Cut(<< <<>> >> \o items, text, d, k)
        BY <3>1, <3>2, CutComma
      <4> QED BY <4>1, <4>2
    <3>3. CASE text[k] # Comma
      <4>1. h[s] = [items EXCEPT ![1] = <<text[k]>> \o @]
        BY <2>5, <3>3 DEF items
      <4>2. \E d : Cut([items EXCEPT ![1] = <<text[k]>> \o @], text, d, k)
        BY <3>1, <3>3, CutOther
      <4> QED BY <4>1, <4>2
    <3> QED BY <3>2, <3>3
  <2> QED BY <2>1, <2>6 DEF s
<1> HIDE DEF N
<1>4. n \in N
  <2>1. Nat \subseteq N
    BY <1>2, <1>3, InductionUp
  <2> QED BY <1>1, <2>1
<1>5. n - n + 1 = 1 /\ n <= n
  BY <1>1
<1> QED BY <1>4, <1>5 DEF N, n

\* The items of a text are its pieces, but for an empty one at the end.
LEMMA ItemsAre ==
  ASSUME NEW text \in Texts
  PROVE  \E split, c : /\ Cut(split, text, c, 1)
                       /\ Items(text) = IF Last(split) = <<>> THEN Front(split) ELSE split
<1> DEFINE S == DOMAIN text
           Body(f) == [s \in SUBSET S |->
                         IF s = {} THEN << <<>> >>
                         ELSE IF text[Min(s)] = Comma THEN << <<>> >> \o f[s \ {Min(s)}]
                              ELSE [f[s \ {Min(s)}] EXCEPT ![1] = <<text[Min(s)]>> \o @]]
           iter == CHOOSE f : f = Body(f)
<1>1. S = 1..Len(text)
  BY LenProperties DEF Texts
<1>2. Items(text) = IF Last(iter[S]) = <<>> THEN Front(iter[S]) ELSE iter[S]
  BY DEF Items, FoldRight, MapThenFoldSet
<1> HIDE DEF S
<1>3. \E f : f = Body(f)
  <2>1. PICK f : f = [s \in SUBSET S |-> f[s]] /\ Splits(f, text)
    BY <1>1, SplitsExist
  <2>2. \A s \in SUBSET S : f[s] = Body(f)[s]
    BY <1>1, <2>1, Zenon DEF Splits
  <2>3. Body(f) = [s \in SUBSET S |-> Body(f)[s]]
    BY Zenon
  <2> HIDE DEF Body
  <2>4. [s \in SUBSET S |-> f[s]] = [s \in SUBSET S |-> Body(f)[s]]
    BY <2>2
  <2>5. f = Body(f)
    BY <2>1, <2>3, <2>4
  <2> QED BY <2>5
<1>4. iter = Body(iter)
  BY <1>3
<1> HIDE DEF iter
<1>5. Splits(iter, text)
  <2>1. \A s \in SUBSET S : iter[s] = Body(iter)[s]
    BY <1>4
  <2>2. iter[{}] = << <<>> >>
    <3>1. {} \in SUBSET S
      OBVIOUS
    <3> QED BY <2>1, <3>1
  <2>3. ASSUME NEW s \in SUBSET S, s # {}
        PROVE  iter[s] = IF text[Min(s)] = Comma THEN << <<>> >> \o iter[s \ {Min(s)}]
                         ELSE [iter[s \ {Min(s)}] EXCEPT ![1] = <<text[Min(s)]>> \o @]
    BY <2>1, <2>3, Zenon
  <2> QED BY <1>1, <2>2, <2>3, Zenon DEF Splits
<1>6. \E c : Cut(iter[S], text, c, 1)
  BY <1>1, <1>5, SplitsCut
<1> QED BY <1>2, <1>6, Zenon

Rising(c, k) ==
  /\ k \in Nat /\ c \in [1..k + 1 -> Int]
  /\ \A i, j \in 1..k + 1 : i < j => c[i] < c[j]

\* The k items of a text stand between the cuts c.
Cuts(c, k, text) ==
  /\ Rising(c, k)
  /\ ItemsOf(text) = {<<c[i], c[i + 1]>> : i \in 1..k}
  /\ Items(text) \in Seq(Texts) /\ Len(Items(text)) = k
  /\ \A i \in 1..k : Items(text)[i] = SubSeq(text, c[i] + 1, c[i + 1] - 1)

\* What getline() makes of a text are the items between its commas
\* (b2g-info.cpp:214-231).
LEMMA CutsExist ==
  ASSUME NEW text \in Texts
  PROVE  \E c, k : Cuts(c, k, text)
<1> DEFINE n == Len(text)
<1>1. n \in Nat
  BY LenProperties DEF Texts
<1>2. PICK split, c : /\ Cut(split, text, c, 1)
                      /\ Items(text) = IF Last(split) = <<>> THEN Front(split) ELSE split
  BY ItemsAre
<1> DEFINE m == Len(split)
           k == IF c[m] = n THEN m - 1 ELSE m
           d == [i \in 1..k + 1 |-> c[i]]
<1>3. /\ split \in Seq(Texts) /\ m >= 1
      /\ c \in [1..m + 1 -> Int] /\ c[1] = 0 /\ c[m + 1] = n + 1
      /\ \A i, j \in 1..m + 1 : i < j => c[i] < c[j]
      /\ \A p \in 1..n : text[p] = Comma <=> \E i \in 2..m : c[i] = p
      /\ \A i \in 1..m : split[i] = SubSeq(text, c[i] + 1, c[i + 1] - 1)
  BY <1>2 DEF Cut
<1>4. m \in Nat
  BY <1>3, LenProperties
<1> HIDE DEF m, n
<1>5. \A i \in 1..m + 1 : c[i] \in Int
  BY <1>3
<1>6. ASSUME NEW i \in 1..m
      PROVE  0 <= c[i] /\ c[i] <= n
  <2>1. i \in 1..m + 1 /\ 1 \in 1..m + 1 /\ m + 1 \in 1..m + 1 /\ i < m + 1
    BY <1>3, <1>4
  <2>2. c[i] < c[m + 1] /\ c[i] \in Int
    BY <1>3, <2>1
  <2>3. i = 1 \/ c[1] < c[i]
    <3>1. i = 1 \/ 1 < i
      OBVIOUS
    <3> QED BY <1>3, <2>1, <3>1
  <2>4. c[i] <= n
    BY <1>1, <1>3, <2>2
  <2> QED BY <1>3, <2>2, <2>3, <2>4
<1>7. k \in Nat /\ k <= m /\ (k = m \/ k = m - 1)
  BY <1>3, <1>4
<1>8. Last(split) = <<>> <=> c[m] = n
  <2>1. m \in 1..m /\ m \in 1..m + 1
    BY <1>3, <1>4
  <2>2. split[m] = SubSeq(text, c[m] + 1, n)
    <3>1. split[m] = SubSeq(text, c[m] + 1, c[m + 1] - 1)
      BY <1>3, <2>1
    <3>2. c[m + 1] - 1 = n
      BY <1>1, <1>3
    <3> QED BY <3>1, <3>2
  <2>3. c[m] \in Int /\ 0 <= c[m] /\ c[m] <= n
    BY <1>5, <1>6, <2>1
  <2> DEFINE z == c[m]
             q == SubSeq(text, z + 1, n)
  <2>4. \A i \in z + 1..n : text[i] \in Chars
    <3>1. \A i \in 1..n : text[i] \in Chars
      BY DEF Texts, n
    <3> QED BY <1>1, <2>3, <3>1
  <2>5. q \in Seq(Chars) /\ Len(q) = IF z + 1 <= n THEN n - (z + 1) + 1 ELSE 0
    <3>1. z + 1 \in Int /\ n \in Int
      BY <1>1, <2>3
    <3> HIDE DEF z
    <3> QED BY <2>4, <3>1, SubSeqProperties
  <2>6. q = <<>> <=> Len(q) = 0
    BY <2>5, EmptySeq
  <2>7. z \in Int /\ z <= n
    BY <2>3
  <2> HIDE DEF z, q
  <2>8. q = <<>> <=> z = n
    BY <1>1, <2>5, <2>6, <2>7
  <2> QED BY <2>2, <2>8 DEF Last, z, q, m
<1>9. /\ Items(text) \in Seq(Texts) /\ Len(Items(text)) = k
      /\ \A i \in 1..k : Items(text)[i] = split[i]
  <2>1. CASE c[m] = n
    <3> DEFINE T == Texts
               f == SubSeq(split, 1, m - 1)
    <3>1. Items(text) = f /\ k = m - 1
      BY <1>2, <1>8, <2>1 DEF Front, m
    <3>2. split \in Seq(T) /\ \A i \in 1..m - 1 : split[i] \in T
      BY <1>3, <1>4 DEF m
    <3> HIDE DEF T
    <3>3. /\ f \in Seq(T) /\ Len(f) = IF 1 <= m - 1 THEN m - 1 - 1 + 1 ELSE 0
          /\ \A i \in 1..m - 1 - 1 + 1 : f[i] = split[1 + i - 1]
      BY <1>4, <3>2, SubSeqProperties
    <3> HIDE DEF f
    <3>4. Len(f) = m - 1
      BY <1>3, <1>4, <3>3
    <3>5. \A i \in 1..m - 1 : f[i] = split[i]
      <4>1. \A i \in 1..m - 1 : i \in 1..m - 1 - 1 + 1 /\ 1 + i - 1 = i
        BY <1>4
      <4> QED BY <3>3, <4>1
    <3> QED BY <3>1, <3>3, <3>4, <3>5 DEF T
  <2>2. CASE c[m] # n
    BY <1>2, <1>3, <1>8, <2>2 DEF m
  <2> QED BY <2>1, <2>2
<1>10. \A i \in 1..k + 1 : i \in 1..m + 1 /\ d[i] = c[i]
  BY <1>4, <1>7
<1>11. Rising(d, k)
  <2>1. d \in [1..k + 1 -> Int]
    BY <1>5, <1>10
  <2> HIDE DEF d, k
  <2>2. \A i, j \in 1..k + 1 : i < j => d[i] < d[j]
    BY <1>3, <1>10
  <2> QED BY <1>7, <2>1, <2>2 DEF Rising
<1>12. ASSUME NEW i \in 1..k
       PROVE  /\ i \in 1..m /\ i + 1 \in 1..m + 1 /\ i \in 1..k + 1 /\ i + 1 \in 1..k + 1
              /\ d[i] = c[i] /\ d[i + 1] = c[i + 1]
  <2>1. i \in 1..m /\ i + 1 \in 1..m + 1 /\ i \in 1..k + 1 /\ i + 1 \in 1..k + 1
    BY <1>4, <1>7
  <2> HIDE DEF d, k
  <2> QED BY <1>10, <2>1
<1>13. \A i \in 1..k : Items(text)[i] = SubSeq(text, d[i] + 1, d[i + 1] - 1)
  <2> HIDE DEF d, k
  <2> QED BY <1>3, <1>9, <1>12
<1>14. ASSUME NEW i \in 1..m
       PROVE  c[i] \in CommasIn(text)
  <2>1. CASE i = 1
    BY <1>3, <2>1 DEF CommasIn
  <2>2. CASE i # 1
    <3>1. i \in 2..m /\ i \in 1..m + 1 /\ 1 \in 1..m + 1 /\ 1 < i
      BY <1>4, <2>2
    <3>2. c[1] < c[i] /\ c[i] \in Int
      BY <1>3, <3>1
    <3>3. c[i] \in 1..n
      BY <1>1, <1>3, <1>6, <3>2
    <3>4. text[c[i]] = Comma
      BY <1>3, <3>1, <3>3
    <3> QED BY <3>3, <3>4 DEF CommasIn, n
  <2> QED BY <2>1, <2>2
<1>15. ASSUME NEW p \in CommasIn(text)
       PROVE  \E i \in 1..m : c[i] = p
  <2>1. CASE p = 0
    <3>1. 1 \in 1..m
      BY <1>3, <1>4
    <3> QED BY <1>3, <2>1, <3>1
  <2>2. CASE p # 0
    <3>1. p \in 1..n /\ text[p] = Comma
      BY <2>2 DEF CommasIn, n
    <3>2. PICK i \in 2..m : c[i] = p
      BY <1>3, <3>1
    <3>3. i \in 1..m
      OBVIOUS
    <3> QED BY <3>2, <3>3
  <2> QED BY <2>1, <2>2
<1>16. ASSUME NEW i \in 1..m + 1, NEW j \in 1..m + 1, c[i] < c[j]
       PROVE  i < j
  <2>1. c[i] \in Int /\ c[j] \in Int
    BY <1>5
  <2>2. i = j \/ j < i \/ i < j
    BY <1>4
  <2>3. ~(j < i)
    <3>1. j < i => c[j] < c[i]
      BY <1>3
    <3> QED BY <1>16, <2>1, <3>1
  <2> QED BY <1>16, <2>1, <2>2, <2>3
<1> HIDE DEF d, k
<1>17. \A i \in 1..k : c[i] # n
  <2> SUFFICES ASSUME NEW i \in 1..k, c[i] = n
               PROVE  FALSE
    OBVIOUS
  <2>1. i \in 1..m /\ i \in 1..m + 1 /\ m \in 1..m /\ m \in 1..m + 1
    BY <1>3, <1>4, <1>12
  <2>2. i = m
    <3>1. i = m \/ i < m
      BY <1>4, <2>1
    <3>2. i < m => c[i] < c[m]
      BY <1>3, <2>1
    <3>3. c[m] \in Int /\ c[m] <= n
      BY <1>5, <1>6, <2>1
    <3> QED BY <1>1, <2>1, <3>1, <3>2, <3>3
  <2>3. k = m - 1
    BY <2>2 DEF k
  <2> QED BY <1>4, <2>2, <2>3
<1>18. ASSUME NEW i \in 1..k
       PROVE  <<d[i], d[i + 1]>> \in ItemsOf(text)
  <2>1. /\ i \in 1..m /\ i + 1 \in 1..m + 1 /\ i \in 1..m + 1 /\ i < i + 1
        /\ d[i] = c[i] /\ d[i + 1] = c[i + 1]
    BY <1>4, <1>12
  <2> DEFINE a == c[i]
             b == c[i + 1]
  <2>2. a \in Int /\ b \in Int /\ a < b /\ a # n
    BY <1>3, <1>5, <1>17, <2>1
  <2>3. a \in CommasIn(text) /\ 0 <= a
    BY <1>6, <1>14, <2>1
  <2>4. b = n + 1 \/ (b \in CommasIn(text) /\ b <= n)
    <3>1. i + 1 = m + 1 \/ i + 1 \in 1..m
      BY <1>4, <2>1
    <3>2. i + 1 = m + 1 => b = n + 1
      BY <1>3
    <3>3. ASSUME i + 1 \in 1..m
          PROVE  b \in CommasIn(text) /\ b <= n
      BY <1>6, <1>14, <3>3
    <3> QED BY <3>1, <3>2, <3>3
  <2>5. \A p \in a + 1..b - 1 : p \notin CommasIn(text)
    <3> SUFFICES ASSUME NEW p \in a + 1..b - 1, p \in CommasIn(text)
                 PROVE  FALSE
      OBVIOUS
    <3>1. PICK j \in 1..m : c[j] = p
      BY <1>15
    <3>2. j \in 1..m + 1 /\ a < p /\ p < b
      BY <1>4, <2>2
    <3>3. i < j
      BY <1>16, <2>1, <3>1, <3>2
    <3>4. j < i + 1
      BY <1>16, <2>1, <3>1, <3>2
    <3> QED BY <1>4, <2>1, <3>3, <3>4
  <2> DEFINE r == <<a, b>>
  <2>6. r[1] = a /\ r[2] = b
    OBVIOUS
  <2>7. b \in 1..n + 1
    BY <1>1, <2>2, <2>3, <2>4
  <2> HIDE DEF a, b
  <2>8. r \in CommasIn(text) \X (1..n + 1)
    BY <2>3, <2>7
  <2> HIDE DEF r
  <2>9. r \in ItemsOf(text)
    BY <2>2, <2>4, <2>5, <2>6, <2>8 DEF ItemsOf, n
  <2> QED BY <2>1, <2>9 DEF a, b, r
<1>19. ASSUME NEW r \in ItemsOf(text)
       PROVE  \E i \in 1..k : r = <<d[i], d[i + 1]>>
  <2> DEFINE a == r[1]
             b == r[2]
  <2>1. /\ r = <<a, b>> /\ a \in CommasIn(text) /\ b \in 1..n + 1
        /\ b = n + 1 \/ b \in CommasIn(text)
        /\ \A p \in a + 1..b - 1 : p \notin CommasIn(text)
        /\ a < b /\ (a = n => b # n + 1)
    BY DEF ItemsOf, n
  <2> HIDE DEF a, b
  <2>2. PICK i \in 1..m : c[i] = a
    BY <1>15, <2>1
  <2>3. PICK j \in 1..m + 1 : c[j] = b
    <3>1. b \in CommasIn(text) => \E j \in 1..m : c[j] = b
      BY <1>15
    <3>2. m + 1 \in 1..m + 1 /\ 1..m \subseteq 1..m + 1
      BY <1>4
    <3> QED BY <1>3, <2>1, <3>1, <3>2
  <2>4. i \in 1..m + 1 /\ i + 1 \in 1..m + 1 /\ i < j
    <3>1. i \in 1..m + 1 /\ i + 1 \in 1..m + 1
      BY <1>4
    <3> QED BY <1>16, <2>1, <2>2, <2>3, <3>1
  <2>5. j = i + 1
    <3> SUFFICES ASSUME i + 1 < j
                 PROVE  FALSE
      BY <1>4, <2>4
    <3>1. i < i + 1 /\ i + 1 < m + 1
      BY <1>4
    <3>2. a < c[i + 1] /\ c[i + 1] < b /\ c[i + 1] \in Int /\ a \in Int /\ b \in Int
      BY <1>3, <1>5, <2>2, <2>3, <2>4, <3>1
    <3>3. c[i + 1] \in a + 1..b - 1
      BY <3>2
    <3>4. c[i + 1] \in CommasIn(text)
      <4>1. i + 1 \in 1..m
        BY <1>4, <3>1
      <4> QED BY <1>14, <4>1
    <3> QED BY <2>1, <3>3, <3>4
  <2>6. i \in 1..k
    <3>1. CASE c[m] = n
      <4>1. k = m - 1
        BY <3>1 DEF k
      <4>2. i # m
        BY <1>3, <2>1, <2>2, <2>3, <2>5, <3>1
      <4> QED BY <1>4, <4>1, <4>2
    <3>2. CASE c[m] # n
      BY <3>2 DEF k
    <3> QED BY <3>1, <3>2
  <2>7. d[i] = a /\ d[i + 1] = b
    BY <1>12, <2>2, <2>3, <2>5, <2>6
  <2> QED BY <2>1, <2>6, <2>7
<1>20. ItemsOf(text) = {<<d[i], d[i + 1]>> : i \in 1..k}
  BY <1>18, <1>19
<1>21. Cuts(d, k, text)
  BY <1>9, <1>11, <1>13, <1>20 DEF Cuts
<1> QED BY <1>21

\* There are as many items as places between the cuts.
LEMMA CutsCount ==
  ASSUME NEW c, NEW k, Rising(c, k), NEW j \in 0..k
  PROVE  Cardinality({<<c[i], c[i + 1]>> : i \in 1..j}) = j
<1> DEFINE T == {<<c[i], c[i + 1]>> : i \in 1..j}
           f == [i \in 1..j |-> <<c[i], c[i + 1]>>]
<1>1. f \in [1..j -> T]
  OBVIOUS
<1>2. ASSUME NEW x \in 1..j, NEW y \in 1..j, f[x] = f[y]
      PROVE  x = y
  <2>1. c[x] = c[y] /\ x \in 1..k + 1 /\ y \in 1..k + 1 /\ k \in Nat
    BY <1>2 DEF Rising
  <2>2. c[x] \in Int /\ (x < y => c[x] < c[y]) /\ (y < x => c[y] < c[x])
    BY <2>1 DEF Rising
  <2> QED BY <2>1, <2>2
<1>3. \A t \in T : \E x \in 1..j : f[x] = t
  OBVIOUS
<1> HIDE DEF T, f
<1>4. ExistsBijection(1..j, T)
  <2>1. f \in Bijection(1..j, T)
    BY <1>1, <1>2, <1>3 DEF Bijection, Injection, Surjection, IsInjective
  <2> QED BY <2>1 DEF ExistsBijection
<1>5. j \in Nat
  BY DEF Rising
<1>6. Cardinality(T) = j
  BY <1>4, <1>5, FS_CountingElements
<1> QED BY <1>6 DEF T

\* The n-th item of a text, as it is counted by those before it, is the n-th
\* that getline() makes, and what it denotes is what it is taken for.
LEMMA NumberAtIs ==
  ASSUME NEW text \in Texts, NEW c, NEW k, Cuts(c, k, text), NEW n \in 1..k
  PROVE  NumberAt(text, n) = StrToIntOr(Items(text)[n])
<1> DEFINE I == ItemsOf(text)
           Before(r) == {q \in I : q[1] < r[1]}
           Pair(i) == <<c[i], c[i + 1]>>
<1>1. k \in Nat /\ Rising(c, k) /\ I = {Pair(i) : i \in 1..k}
  BY DEF Cuts, Rising
<1>2. ASSUME NEW i \in 1..k
      PROVE  Before(Pair(i)) = {Pair(j) : j \in 1..i - 1}
  <2>1. \A j \in 1..k : c[j] < c[i] <=> j < i
    <3> SUFFICES ASSUME NEW j \in 1..k
                 PROVE  c[j] < c[i] <=> j < i
      OBVIOUS
    <3>1. i \in 1..k + 1 /\ j \in 1..k + 1
      BY <1>1
    <3>2. /\ c[i] \in Int /\ c[j] \in Int
          /\ (i < j => c[i] < c[j]) /\ (j < i => c[j] < c[i])
      BY <1>1, <3>1 DEF Rising
    <3>3. i = j \/ i < j \/ j < i
      OBVIOUS
    <3> QED BY <3>2, <3>3
  <2>2. \A j \in 1..k : Pair(j)[1] = c[j]
    OBVIOUS
  <2>3. ASSUME NEW j \in 1..i - 1
        PROVE  j \in 1..k /\ j < i
    <3>1. k \in Nat
      BY <1>1
    <3> QED BY <3>1
  <2>4. ASSUME NEW j \in 1..k, j < i
        PROVE  j \in 1..i - 1
    BY <2>4
  <2>5. Before(Pair(i)) = {q \in I : q[1] < c[i]}
    BY <2>2
  <2> HIDE DEF Pair, I
  <2>6. \A q \in I : q[1] < c[i] => \E j \in 1..i - 1 : q = Pair(j)
    BY <1>1, <2>1, <2>2, <2>4
  <2>7. \A j \in 1..i - 1 : Pair(j) \in I /\ Pair(j)[1] < c[i]
    BY <1>1, <2>1, <2>2, <2>3
  <2> QED BY <2>5, <2>6, <2>7
<1>3. ASSUME NEW i \in 1..k
      PROVE  Cardinality(Before(Pair(i))) = i - 1
  <2>1. i - 1 \in 0..k
    BY <1>1
  <2>2. Cardinality({<<c[j], c[j + 1]>> : j \in 1..i - 1}) = i - 1
    BY <1>1, <2>1, CutsCount
  <2> QED BY <1>2, <2>2
<1> DEFINE item == CHOOSE r \in I : Cardinality(Before(r)) = n - 1
<1>4. item = Pair(n)
  <2> HIDE DEF Before, Pair, I
  <2>1. Pair(n) \in I /\ Cardinality(Before(Pair(n))) = n - 1
    BY <1>1, <1>3
  <2>2. ASSUME NEW r \in I, Cardinality(Before(r)) = n - 1
        PROVE  r = Pair(n)
    <3>1. PICK i \in 1..k : r = Pair(i)
      BY <1>1
    <3>2. i - 1 = n - 1
      BY <1>3, <2>2, <3>1
    <3> QED BY <3>1, <3>2
  <2> QED BY <2>1, <2>2
<1> DEFINE t == Items(text)[n]
<1>5. t \in Seq(Chars) /\ t = SubSeq(text, c[n] + 1, c[n + 1] - 1)
  BY DEF Cuts, Texts
<1> DEFINE numbers == Denoted(SubSeq(text, item[1] + 1, item[2] - 1))
<1>6. NumberAt(text, n) = IF numbers = {} THEN Default ELSE Clamp(CHOOSE x \in numbers : TRUE)
  BY DEF NumberAt
<1>7. numbers = Denoted(t)
  <2>1. item[1] = c[n] /\ item[2] = c[n + 1]
    <3> HIDE DEF item
    <3> QED BY <1>4
  <2> HIDE DEF item, t
  <2> QED BY <1>5, <2>1
<1> HIDE DEF numbers, t
<1>8. /\ StrToInt(t).ok <=> Denoted(t) # {}
      /\ \A x \in Denoted(t) : StrToInt(t).result = Clamp(x)
      /\ StrToIntOr(t) = IF StrToInt(t).ok THEN StrToInt(t).result ELSE Default
  BY <1>5, NumeralsTaken
<1>9. StrToIntOr(t) = IF numbers = {} THEN Default ELSE Clamp(CHOOSE x \in numbers : TRUE)
  BY <1>7, <1>8
<1> QED BY <1>6, <1>9 DEF t

\* The list that is made of the thresholds of a file has one number for each
\* item, in their order (b2g-info.cpp:214-222).
LEMMA NumbersAre ==
  ASSUME NEW text \in Texts, NEW c, NEW k, Cuts(c, k, text)
  PROVE  \E Z : /\ Numbers(text) \in Seq(Z) /\ Len(Numbers(text)) = k
                /\ \A i \in 1..k : Numbers(text)[i] = NumberAt(text, i)
<1> DEFINE items == Items(text)
           S == DOMAIN items
           Z == {StrToIntOr(items[i]) : i \in 1..k}
           g == [i \in 1..k |-> StrToIntOr(items[i])]
           Body(f) == [s \in SUBSET S |->
                         IF s = {} THEN <<>>
                         ELSE Append(f[s \ {Max(s)}], StrToIntOr(items[Max(s)]))]
           iter == CHOOSE f : f = Body(f)
<1>1. S = 1..k /\ k \in Nat
  <2>1. items \in Seq(Texts) /\ Len(items) = k
    BY DEF Cuts
  <2> HIDE DEF items
  <2> QED BY <2>1, LenProperties
<1>2. Numbers(text) = iter[S]
  BY DEF Numbers, FoldLeft, MapThenFoldSet
<1>3. g \in [1..k -> Z]
  OBVIOUS
<1>4. \A s \in SUBSET S : s # {} => Max(s) \in S /\ g[Max(s)] = StrToIntOr(items[Max(s)])
  <2> SUFFICES ASSUME NEW s \in SUBSET S, s # {}
               PROVE  Max(s) \in S
    BY <1>1
  <2>1. IsFiniteSet(S) /\ S \subseteq Int
    BY <1>1, FS_Interval
  <2> HIDE DEF S
  <2>2. s \subseteq Int /\ IsFiniteSet(s)
    BY <2>1, FS_Subset
  <2>3. Max(s) \in s
    BY <2>2, Greatest
  <2> QED BY <2>3
<1> HIDE DEF S, Z, g, items
<1>5. \E f : f = Body(f)
  <2>1. PICK f : f = [s \in SUBSET S |-> f[s]] /\ Appends(f, k, g)
    BY <1>1, <1>3, AppendsExist
  <2>2. \A s \in SUBSET S : f[s] = Body(f)[s]
    BY <1>1, <1>4, <2>1, Zenon DEF Appends
  <2>3. Body(f) = [s \in SUBSET S |-> Body(f)[s]]
    BY Zenon
  <2> HIDE DEF Body
  <2>4. [s \in SUBSET S |-> f[s]] = [s \in SUBSET S |-> Body(f)[s]]
    BY <2>2
  <2>5. f = Body(f)
    BY <2>1, <2>3, <2>4
  <2> QED BY <2>5
<1>6. iter = Body(iter)
  BY <1>5
<1> HIDE DEF iter
<1>7. Appends(iter, k, g)
  <2>1. \A s \in SUBSET S : iter[s] = Body(iter)[s]
    BY <1>6
  <2>2. iter[{}] = <<>>
    <3>1. {} \in SUBSET S
      OBVIOUS
    <3> QED BY <2>1, <3>1
  <2>3. ASSUME NEW s \in SUBSET S, s # {}
        PROVE  iter[s] = Append(iter[s \ {Max(s)}], g[Max(s)])
    BY <1>4, <2>1, <2>3, Zenon
  <2> QED BY <1>1, <2>2, <2>3, Zenon DEF Appends
<1>8. /\ iter[1..k] \in Seq(Z) /\ Len(iter[1..k]) = k
      /\ \A i \in 1..k : iter[1..k][i] = g[i]
  <2>1. k \in Nat
    BY <1>1
  <2>2. Sequenced(iter[1..k], k, g, Z)
    BY ONLY <2>1, <1>3, <1>7, Appended
  <2> QED BY <2>2 DEF Sequenced
<1>9. \A i \in 1..k : g[i] = NumberAt(text, i)
  BY NumberAtIs DEF g, items
<1> QED BY <1>1, <1>2, <1>8, <1>9

\* And the list of the sizes has each of them in kB (b2g-info.cpp:224-231).
LEMMA SizesAre ==
  ASSUME NEW text \in Texts, NEW c, NEW k, Cuts(c, k, text)
  PROVE  \E Z : /\ KBs(text) \in Seq(Z) /\ Len(KBs(text)) = k
                /\ \A i \in 1..k : KBs(text)[i] = PagesToKb(NumberAt(text, i))
<1> DEFINE items == Numbers(text)
           S == DOMAIN items
           Z == {PagesToKb(items[i]) : i \in 1..k}
           g == [i \in 1..k |-> PagesToKb(items[i])]
           Body(f) == [s \in SUBSET S |->
                         IF s = {} THEN <<>>
                         ELSE Append(f[s \ {Max(s)}], PagesToKb(items[Max(s)]))]
           iter == CHOOSE f : f = Body(f)
<1>0. PICK Y : /\ items \in Seq(Y) /\ Len(items) = k
               /\ \A i \in 1..k : items[i] = NumberAt(text, i)
  BY NumbersAre
<1>1. S = 1..k /\ k \in Nat
  <2> HIDE DEF items
  <2> QED BY <1>0, LenProperties
<1>2. KBs(text) = iter[S]
  BY DEF KBs, FoldLeft, MapThenFoldSet
<1>3. g \in [1..k -> Z]
  OBVIOUS
<1>4. \A s \in SUBSET S : s # {} => Max(s) \in S /\ g[Max(s)] = PagesToKb(items[Max(s)])
  <2> SUFFICES ASSUME NEW s \in SUBSET S, s # {}
               PROVE  Max(s) \in S
    BY <1>1
  <2>1. IsFiniteSet(S) /\ S \subseteq Int
    BY <1>1, FS_Interval
  <2> HIDE DEF S
  <2>2. s \subseteq Int /\ IsFiniteSet(s)
    BY <2>1, FS_Subset
  <2>3. Max(s) \in s
    BY <2>2, Greatest
  <2> QED BY <2>3
<1> HIDE DEF S, Z, g, items
<1>5. \E f : f = Body(f)
  <2>1. PICK f : f = [s \in SUBSET S |-> f[s]] /\ Appends(f, k, g)
    BY <1>1, <1>3, AppendsExist
  <2>2. \A s \in SUBSET S : f[s] = Body(f)[s]
    BY <1>1, <1>4, <2>1, Zenon DEF Appends
  <2>3. Body(f) = [s \in SUBSET S |-> Body(f)[s]]
    BY Zenon
  <2> HIDE DEF Body
  <2>4. [s \in SUBSET S |-> f[s]] = [s \in SUBSET S |-> Body(f)[s]]
    BY <2>2
  <2>5. f = Body(f)
    BY <2>1, <2>3, <2>4
  <2> QED BY <2>5
<1>6. iter = Body(iter)
  BY <1>5
<1> HIDE DEF iter
<1>7. Appends(iter, k, g)
  <2>1. \A s \in SUBSET S : iter[s] = Body(iter)[s]
    BY <1>6
  <2>2. iter[{}] = <<>>
    <3>1. {} \in SUBSET S
      OBVIOUS
    <3> QED BY <2>1, <3>1
  <2>3. ASSUME NEW s \in SUBSET S, s # {}
        PROVE  iter[s] = Append(iter[s \ {Max(s)}], g[Max(s)])
    BY <1>4, <2>1, <2>3, Zenon
  <2> QED BY <1>1, <2>2, <2>3, Zenon DEF Appends
<1>8. /\ iter[1..k] \in Seq(Z) /\ Len(iter[1..k]) = k
      /\ \A i \in 1..k : iter[1..k][i] = g[i]
  <2>1. k \in Nat
    BY <1>1
  <2>2. Sequenced(iter[1..k], k, g, Z)
    BY ONLY <2>1, <1>3, <1>7, Appended
  <2> QED BY <2>2 DEF Sequenced
<1>9. \A i \in 1..k : g[i] = PagesToKb(NumberAt(text, i))
  BY <1>0 DEF g
<1> QED BY <1>1, <1>2, <1>8, <1>9

\* A product that a long can hold is what it is (utils.cpp:37-49).
LEMMA LongsHold ==
  ASSUME NEW x \in Longs
  PROVE  AsLong(x) = x
<1> DEFINE w == 2 * (LongMax + 1)
           y == x + LongMax + 1
<1>1. LongMax \in Nat
  BY UtilsAssumption DEF UtilsAssumption
<1>2. x \in Int /\ y \in 0..w - 1 /\ w \in Nat \ {0} /\ y - (LongMax + 1) = x
  BY <1>1 DEF Longs
<1>3. AsLong(x) = (y % w) - (LongMax + 1)
  BY DEF AsLong
<1> HIDE DEF w, y
<1>4. y % w = y
  BY <1>2
<1> QED BY <1>2, <1>3, <1>4

\* The inductive invariant of the lists: each is made of all that its file held,
\* when all of it was read, and the rows are made of both.
ListsInv ==
  /\ at \in {"minfree", "done"} /\ "adj" \notin broken
       /\ Len(content["adj"]) <= Room => oomAdjs = Numbers(content["adj"])
  /\ at = "done" =>
       /\ rows = [i \in 1..RowCount(oomAdjs, minfrees) |->
                    <<CellAt(oomAdjs, i), CellAt(minfrees, i)>>]
       /\ "minfree" \notin broken /\ Len(content["minfree"]) <= Room =>
            minfrees = KBs(content["minfree"])

\* A file that was read to its end is all in the buffer (b2g-info.cpp:84-98).
LEMMA WholeRead ==
  ASSUME SystemInv, part = "use", at \notin broken, Len(content[at]) <= Room
  PROVE  buf = content[at]
<1> DEFINE p == buf
           q == content[at]
<1>1. at \in Params /\ p \in Texts /\ q \in Texts
  BY DEF SystemInv, BufferInv, FilesInv
<1>2. Len(p) \in Nat /\ Len(q) \in Nat /\ Room \in Nat /\ Len(p) <= Room
  BY <1>1, LenProperties, SystemInfoAssumption
     DEF SystemInv, BufferInv, Texts, SystemInfoAssumption
<1>3. Len(p) = Len(q)
  BY <1>2 DEF SystemInv, WholeInv
<1>4. p # <<>> => \A i \in 1..Len(p) : p[i] = q[i]
  BY DEF SystemInv, BufferInv
<1> HIDE DEF p, q
<1>5. \A i \in 1..Len(p) : p[i] = q[i]
  BY <1>1, <1>2, <1>4, EmptySeq DEF Texts
<1>6. p = q
  BY <1>1, <1>3, <1>5, SeqEqual DEF Texts
<1> QED BY <1>6 DEF p, q

\* No step, of the program or of who sets the thresholds, disturbs it.
LEMMA ListsStep ==
  ASSUME SystemInv, ListsInv, [SystemNext]_systemVars
  PROVE  ListsInv'
<1>1. CASE UNCHANGED systemVars
  BY <1>1 DEF ListsInv, systemVars, files, reading, shown
<1>2. CASE SetThresholds
  BY <1>2 DEF ListsInv, SetThresholds, reading, shown
<1>3. CASE NoMeminfo \/ PrintMeminfo
  BY <1>3 DEF ListsInv, NoMeminfo, PrintMeminfo, StartLmk
<1>4. CASE OpenFails
  BY <1>4 DEF ListsInv, OpenFails, files, shown, Params
<1>5. CASE Open
  BY <1>5 DEF ListsInv, Open, files, shown
<1>6. CASE ReadFails
  BY <1>6 DEF ListsInv, ReadFails, files, shown, Params
<1>7. CASE ReadSome \/ ReadEnds
  <2>1. /\ at \in Params /\ at' = at /\ broken' = broken /\ oomAdjs' = oomAdjs
        /\ content' = [content EXCEPT ![at] = Text]
    BY <1>7 DEF ReadSome, ReadEnds
  <2>2. at = "minfree" => content'["adj"] = content["adj"]
    BY <2>1
  <2>3. at # "done"
    BY <2>1 DEF Params
  <2> QED BY <2>1, <2>2, <2>3 DEF ListsInv
<1>8. CASE UseNotify
  BY <1>8 DEF ListsInv, UseNotify
<1>9. CASE UseAdj
  <2>1. /\ at = "adj" /\ part = "use" /\ at' = "minfree"
        /\ content' = content /\ broken' = broken /\ oomAdjs' = Numbers(buf)
    BY <1>9 DEF UseAdj
  <2>2. "adj" \notin broken /\ Len(content["adj"]) <= Room => buf = content["adj"]
    BY <2>1, WholeRead
  <2> QED BY <2>1, <2>2 DEF ListsInv
<1>10. CASE UseMinfree
  <2>1. /\ at = "minfree" /\ part = "use" /\ at' = "done"
        /\ content' = content /\ broken' = broken /\ oomAdjs' = oomAdjs
        /\ minfrees' = KBs(buf)
        /\ rows' = [i \in 1..RowCount(oomAdjs, KBs(buf)) |->
                      <<CellAt(oomAdjs, i), CellAt(KBs(buf), i)>>]
    BY <1>10 DEF UseMinfree
  <2>2. "minfree" \notin broken /\ Len(content["minfree"]) <= Room =>
          buf = content["minfree"]
    BY <2>1, WholeRead
  <2>3. "adj" \notin broken /\ Len(content["adj"]) <= Room =>
          oomAdjs = Numbers(content["adj"])
    BY <2>1 DEF ListsInv
  <2>4. rows' = [i \in 1..RowCount(oomAdjs', minfrees') |->
                   <<CellAt(oomAdjs', i), CellAt(minfrees', i)>>]
    BY <2>1
  <2> QED BY <2>1, <2>2, <2>3, <2>4 DEF ListsInv
<1> QED BY <1>1, <1>2, <1>3, <1>4, <1>5, <1>6, <1>7, <1>8, <1>9, <1>10
        DEF SystemNext, SystemStep, ReadWholeFile

\* When both lists were read to the end, the n-th row pairs the n-th threshold
\* with the n-th size in kB, however many each list has and whatever is written
\* meanwhile (b2g-info.cpp:214-251).
THEOREM ListsPaired == SystemSpec => []RowsPairTheLists
<1>1. SystemInit => ListsInv
  BY DEF SystemInit, ListsInv
<1>2. SystemInv /\ ListsInv /\ [SystemNext]_systemVars => ListsInv'
  BY ListsStep
<1>3. SystemInv /\ ListsInv => RowsPairTheLists
  <2> DEFINE adj == content["adj"]
             minfree == content["minfree"]
             Whole(f) == f \notin broken /\ Len(content[f]) <= Room
             InPages(n) == NumberAt(minfree, n) * PageSize
  <2> SUFFICES ASSUME SystemInv, ListsInv, at = "done", Whole("adj"), Whole("minfree")
               PROVE  /\ Len(rows) = Max({Cardinality(ItemsOf(adj)),
                                          Cardinality(ItemsOf(minfree))})
                      /\ \A n \in 1..Len(rows) :
                           /\ rows[n][1] = IF n <= Cardinality(ItemsOf(adj))
                                           THEN NumberAt(adj, n) ELSE None
                           /\ n > Cardinality(ItemsOf(minfree)) => rows[n][2] = None
                           /\ n <= Cardinality(ItemsOf(minfree)) /\ InPages(n) \in Longs =>
                                rows[n][2] = IF NumberAt(minfree, n) = Default THEN Default
                                             ELSE InPages(n) \div Kilo
    BY DEF RowsPairTheLists
  <2>1. /\ oomAdjs = Numbers(adj) /\ minfrees = KBs(minfree)
        /\ rows = [i \in 1..RowCount(oomAdjs, minfrees) |->
                     <<CellAt(oomAdjs, i), CellAt(minfrees, i)>>]
    BY DEF ListsInv
  <2>2. adj \in Texts /\ minfree \in Texts
    BY DEF SystemInv, FilesInv, Params
  <2> HIDE DEF adj, minfree
  <2>3. PICK c, k : Cuts(c, k, adj)
    BY <2>2, CutsExist
  <2>4. PICK d, l : Cuts(d, l, minfree)
    BY <2>2, CutsExist
  <2>5. /\ k \in Nat /\ Cardinality(ItemsOf(adj)) = k
        /\ l \in Nat /\ Cardinality(ItemsOf(minfree)) = l
    <3>1. k \in Nat /\ l \in Nat /\ k \in 0..k /\ l \in 0..l
      BY <2>3, <2>4 DEF Cuts, Rising
    <3>2. /\ Rising(c, k) /\ ItemsOf(adj) = {<<c[i], c[i + 1]>> : i \in 1..k}
          /\ Rising(d, l) /\ ItemsOf(minfree) = {<<d[i], d[i + 1]>> : i \in 1..l}
      BY <2>3, <2>4 DEF Cuts
    <3>3. Cardinality({<<c[i], c[i + 1]>> : i \in 1..k}) = k
      BY <3>1, <3>2, CutsCount
    <3>4. Cardinality({<<d[i], d[i + 1]>> : i \in 1..l}) = l
      BY <3>1, <3>2, CutsCount
    <3> QED BY <3>1, <3>2, <3>3, <3>4
  <2>6. Len(oomAdjs) = k /\ \A i \in 1..k : oomAdjs[i] = NumberAt(adj, i)
    BY <2>1, <2>2, <2>3, NumbersAre
  <2>7. Len(minfrees) = l /\ \A i \in 1..l : minfrees[i] = PagesToKb(NumberAt(minfree, i))
    BY <2>1, <2>2, <2>4, SizesAre
  <2> DEFINE m == Max({k, l})
  <2>8. m \in Nat /\ RowCount(oomAdjs, minfrees) = m
    <3>1. m \in Nat
      BY <2>5 DEF Max
    <3> QED BY <2>6, <2>7, <3>1 DEF RowCount
  <2> HIDE DEF m
  <2>9. /\ Len(rows) = m
        /\ \A n \in 1..m : rows[n] = <<CellAt(oomAdjs, n), CellAt(minfrees, n)>>
    BY <2>1, <2>8
  <2>10. ASSUME NEW n \in 1..m
         PROVE  /\ rows[n][1] = IF n <= k THEN NumberAt(adj, n) ELSE None
                /\ n > l => rows[n][2] = None
                /\ n <= l /\ InPages(n) \in Longs =>
                     rows[n][2] = IF NumberAt(minfree, n) = Default THEN Default
                                  ELSE InPages(n) \div Kilo
    <3>1. rows[n][1] = CellAt(oomAdjs, n) /\ rows[n][2] = CellAt(minfrees, n)
      BY <2>9
    <3>2. rows[n][1] = IF n <= k THEN NumberAt(adj, n) ELSE None
      BY <2>5, <2>6, <2>8, <3>1 DEF CellAt
    <3>3. n > l => rows[n][2] = None
      BY <2>5, <2>7, <2>8, <3>1 DEF CellAt
    <3>4. ASSUME n <= l, InPages(n) \in Longs
          PROVE  rows[n][2] = IF NumberAt(minfree, n) = Default THEN Default
                              ELSE InPages(n) \div Kilo
      <4>1. n \in 1..l
        BY <2>5, <2>8, <3>4
      <4>2. rows[n][2] = PagesToKb(NumberAt(minfree, n))
        BY <2>7, <3>1, <3>4, <4>1 DEF CellAt
      <4>3. AsLong(InPages(n)) = InPages(n)
        BY <3>4, LongsHold
      <4> QED BY <4>2, <4>3 DEF PagesToKb, Default
    <3> QED BY <3>2, <3>3, <3>4
  <2> HIDE DEF InPages
  <2> QED BY <2>5, <2>9, <2>10 DEF m
<1> QED BY <1>1, <1>2, <1>3, SystemInvariance, PTL DEF SystemSpec

-----------------------------------------------------------------------------
(***************************************************************************)
(* The layout of a table (TableClient, Table).                             *)
(***************************************************************************)
\* The rows of a table, and the inductive invariant of a client: the lines have
\* cells, the ends of the header come together, and what was laid out passed
\* the asserts.
ClientRows == [delimiter : BOOLEAN, cells : Seq(Cells)]

SheetInv ==
  /\ sheet \in [rows : Seq(ClientRows), label : Nat, start : Nat \cup {Absent},
                end : Nat \cup {Absent}]
  /\ sheet.start = Absent <=> sheet.end = Absent
  /\ stage = "printed" => AssertsHold(sheet)

\* The rows with a cell more in the last of them are rows.
LEMMA AddedCell ==
  ASSUME NEW S, NEW all \in Seq([delimiter : BOOLEAN, cells : Seq(S)]), all # <<>>,
         NEW c \in S
  PROVE  [all EXCEPT ![Len(all)].cells = Append(@, c)]
           \in Seq([delimiter : BOOLEAN, cells : Seq(S)])
<1> DEFINE E == [delimiter : BOOLEAN, cells : Seq(S)]
           n == Len(all)
<1>1. all \in Seq(E)
  OBVIOUS
<1> HIDE DEF E
<1>2. n \in 1..n /\ all[n] \in E
  BY <1>1, EmptySeq
<1>3. Append(all[n].cells, c) \in Seq(S)
  BY <1>2 DEF E
<1>4. [all[n] EXCEPT !.cells = Append(@, c)] \in E
  BY <1>2, <1>3 DEF E
<1>5. [all EXCEPT ![n].cells = Append(@, c)] \in Seq(E)
  BY <1>1, <1>2, <1>4
<1> QED BY <1>5 DEF E

\* In whatever order a client begins rows, adds cells and sets the header, the
\* table is one of rows of cells with at most one header, and it is laid out
\* only when the asserts of print_with_indent() hold (table.cpp:27-101, 141-143).
THEOREM SheetTypes == ClientSpec => []SheetInv
<1>1. ClientInit => SheetInv
  <2> SUFFICES ASSUME ClientInit
               PROVE  SheetInv
    OBVIOUS
  <2>1. <<>> \in Seq(ClientRows)
    OBVIOUS
  <2> QED BY <2>1 DEF ClientInit, SheetInv, EmptyTable, Absent
<1>2. SheetInv /\ [ClientNext]_clientVars => SheetInv'
  <2> SUFFICES ASSUME SheetInv, [ClientNext]_clientVars
               PROVE  SheetInv'
    OBVIOUS
  <2>0. sheet \in [rows : Seq(ClientRows), label : Nat, start : Nat \cup {Absent},
                   end : Nat \cup {Absent}]
    BY DEF SheetInv
  <2>1. ASSUME NEW d \in BOOLEAN, stage' = stage, stage = "building",
               sheet' = [sheet EXCEPT !.rows = Append(@, [delimiter |-> d, cells |-> <<>>])]
        PROVE  SheetInv'
    <3>1. [delimiter |-> d, cells |-> <<>>] \in ClientRows
      BY DEF ClientRows
    <3>2. Append(sheet.rows, [delimiter |-> d, cells |-> <<>>]) \in Seq(ClientRows)
      BY <2>0, <3>1
    <3>3. sheet' = [sheet EXCEPT !.rows = Append(sheet.rows, [delimiter |-> d, cells |-> <<>>])]
      BY <2>0, <2>1
    <3> QED BY <2>0, <2>1, <3>2, <3>3 DEF SheetInv
  <2>2. CASE NewRow
    BY <2>1, <2>2 DEF NewRow, StartRow
  <2>3. CASE Delimit
    BY <2>1, <2>3 DEF Delimit, AddDelimiter
  <2>4. CASE LayOut
    BY <2>4 DEF LayOut, SheetInv, AssertsHold, Columns, Rows
  <2>5. ASSUME NEW cell \in Cells, Add(cell)
        PROVE  SheetInv'
    <3> DEFINE rows2 == [sheet.rows EXCEPT ![Len(sheet.rows)].cells = Append(@, cell)]
    <3>1. sheet.rows # <<>> /\ stage = "building" /\ stage' = stage
      BY <2>5 DEF Add, HasRow
    <3>2. rows2 \in Seq(ClientRows)
      BY <2>0, <3>1, AddedCell DEF ClientRows
    <3>3. sheet' = [sheet EXCEPT !.rows = rows2]
      BY <2>0, <2>5 DEF Add, AddCell
    <3> HIDE DEF rows2
    <3> QED BY <2>0, <3>1, <3>2, <3>3 DEF SheetInv
  <2>6. ASSUME NEW h \in Headers, SetHeader(h)
        PROVE  SheetInv'
    BY <2>0, <2>6, TableClientAssumption
      DEF TableClientAssumption, SetHeader, MultiColHeader, SheetInv, Absent
  <2>7. CASE UNCHANGED clientVars
    BY <2>7 DEF clientVars, SheetInv, AssertsHold, Columns, Rows
  <2> QED BY <2>2, <2>3, <2>4, <2>5, <2>6, <2>7 DEF ClientNext
<1> QED BY <1>1, <1>2, PTL DEF ClientSpec

\* The columns of a table.
ColumnsOf(t) == 0..Columns(t) - 1

\* The rows of a table are finitely many, and none has more cells than the
\* table has columns.
LEMMA ColumnsAreMost ==
  ASSUME NEW t, NEW S, t.rows \in Seq([delimiter : BOOLEAN, cells : Seq(S)])
  PROVE  /\ IsFiniteSet(Rows(t)) /\ Rows(t) \subseteq [delimiter : BOOLEAN, cells : Seq(S)]
         /\ Columns(t) \in Nat
         /\ \A line \in Rows(t) : Len(line.cells) <= Columns(t)
         /\ Columns(t) # 0 => \E line \in Rows(t) : Len(line.cells) = Columns(t)
<1>1. Rows(t) \subseteq [delimiter : BOOLEAN, cells : Seq(S)]
  <2> DEFINE E == [delimiter : BOOLEAN, cells : Seq(S)]
  <2>1. t.rows \in Seq(E)
    OBVIOUS
  <2> HIDE DEF E
  <2>2. \A r \in 1..Len(t.rows) : t.rows[r] \in E
    BY ONLY <2>1
  <2> QED BY ONLY <2>2 DEF E, Rows
<1>2. IsFiniteSet(Rows(t))
  <2> DEFINE f == [r \in 1..Len(t.rows) |-> t.rows[r]]
  <2>1. IsFiniteSet(1..Len(t.rows))
    BY FS_Interval
  <2>2. Rows(t) = {f[r] : r \in 1..Len(t.rows)}
    BY DEF Rows
  <2>3. f = [r \in 1..Len(t.rows) |-> f[r]]
    OBVIOUS
  <2> HIDE DEF f
  <2>4. IsFiniteSet({f[r] : r \in 1..Len(t.rows)})
    BY ONLY <2>1, <2>3, FiniteImage
  <2> QED BY <2>2, <2>4
<1> DEFINE L == {Len(line.cells) : line \in Rows(t)} \cup {0}
<1>3. L \subseteq Nat /\ L # {}
  BY <1>1
<1>4. IsFiniteSet(L)
  <2> DEFINE g == [line \in Rows(t) |-> Len(line.cells)]
  <2>1. {Len(line.cells) : line \in Rows(t)} = {g[line] : line \in Rows(t)}
    OBVIOUS
  <2>3. g = [line \in Rows(t) |-> g[line]]
    OBVIOUS
  <2> HIDE DEF g
  <2>2. IsFiniteSet({g[line] : line \in Rows(t)})
    BY ONLY <1>2, <2>3, FiniteImage
  <2>4. IsFiniteSet({Len(line.cells) : line \in Rows(t)})
    BY <2>1, <2>2
  <2> QED BY ONLY <2>4, FS_AddElement
<1>5. Columns(t) \in L /\ \A n \in L : n <= Columns(t)
  <2> HIDE DEF L
  <2>2. L \subseteq Int
    BY <1>3
  <2>1. Max(L) \in L /\ \A n \in L : n <= Max(L)
    BY ONLY <1>3, <1>4, <2>2, Greatest
  <2> QED BY <2>1 DEF Columns, L
<1> QED BY <1>1, <1>2, <1>3, <1>5

\* A column is as wide as the longest of its texts.
LEMMA WidthIsMost ==
  ASSUME NEW t, NEW S, \A c \in S : c.len \in Nat,
         t.rows \in Seq([delimiter : BOOLEAN, cells : Seq(S)]), NEW i \in ColumnsOf(t)
  PROVE  /\ Width(t, i) \in Nat
         /\ \A line \in Rows(t) : i < Len(line.cells) =>
              line.cells[i + 1].len \in Nat /\ line.cells[i + 1].len <= Width(t, i)
<1>1. /\ IsFiniteSet(Rows(t)) /\ Rows(t) \subseteq [delimiter : BOOLEAN, cells : Seq(S)]
      /\ Columns(t) \in Nat
      /\ Columns(t) # 0 => \E line \in Rows(t) : Len(line.cells) = Columns(t)
  BY ColumnsAreMost
<1>2. i \in Nat /\ i < Columns(t)
  BY <1>1 DEF ColumnsOf
<1> DEFINE R == {r \in Rows(t) : Len(r.cells) > i}
           L == {line.cells[i + 1].len : line \in R}
<1>3. R # {} /\ IsFiniteSet(R)
  BY <1>1, <1>2, FS_Subset
<1>4. \A line \in R : line.cells[i + 1] \in S
  BY <1>1, <1>2
<1>5. L \subseteq Nat /\ L # {}
  BY <1>3, <1>4
<1>6. IsFiniteSet(L)
  <2> DEFINE g == [line \in R |-> line.cells[i + 1].len]
  <2>1. L = {g[line] : line \in R}
    OBVIOUS
  <2>3. g = [line \in R |-> g[line]]
    OBVIOUS
  <2> HIDE DEF g, L, R
  <2>2. IsFiniteSet({g[line] : line \in R})
    BY ONLY <1>3, <2>3, FiniteImage
  <2> QED BY <2>1, <2>2
<1>7. Width(t, i) = Max(L)
  BY DEF Width
<1>8. Max(L) \in L /\ \A n \in L : n <= Max(L)
  <2> HIDE DEF L
  <2>1. L \subseteq Int
    BY <1>5
  <2> QED BY ONLY <1>5, <1>6, <2>1, Greatest
<1> QED BY <1>1, <1>2, <1>4, <1>5, <1>7, <1>8

\* The widths of columns, with the blanks after them.
Wide(t, a, b) == [i \in a..b |-> Width(t, i) + 1]

\* The characters of some columns are the sum of these widths.
LEMMA ThroughIs ==
  ASSUME NEW t, NEW a \in Int, NEW b \in Int, \A i \in a..b : Width(t, i) \in Nat
  PROVE  \E f : IsSum(f, a..b, Wide(t, a, b)) /\ Through(t, a, b) = f[a..b]
<1> DEFINE S == a..b
           g == Wide(t, a, b)
           Body(f) == [s \in SUBSET S |-> IF s = {} THEN 0
                         ELSE Width(t, CHOOSE x \in s : TRUE) + 1
                                + f[s \ {CHOOSE x \in s : TRUE}]]
           iter == CHOOSE f : f = Body(f)
<1>1. IsFiniteSet(S) /\ \A x \in S : g[x] \in Int
  BY FS_Interval DEF Wide
<1>2. \A s \in SUBSET S : s # {} =>
         (CHOOSE x \in s : TRUE) \in S
         /\ g[CHOOSE x \in s : TRUE] = Width(t, CHOOSE x \in s : TRUE) + 1
  BY DEF Wide
<1>3. \E f : f = Body(f)
  <2> HIDE DEF S, g
  <2>1. PICK f : AddsUp(f, S, g)
    BY ONLY <1>1, SumExists
  <2>2. \A s \in SUBSET S : f[s] = Body(f)[s]
    BY <1>2, <2>1 DEF AddsUp
  <2>3. f = Body(f)
    BY <2>1, <2>2 DEF AddsUp
  <2> QED BY <2>3
<1>4. iter = Body(iter)
  BY <1>3
<1>5. Through(t, a, b) = iter[S]
  BY DEF Through, MapThenSumSet, MapThenFoldSet
<1> HIDE DEF iter, S, g
<1>6. \A s \in SUBSET S : iter[s] = IF s = {} THEN 0
         ELSE g[CHOOSE x \in s : TRUE] + iter[s \ {CHOOSE x \in s : TRUE}]
  BY <1>2, <1>4
<1>7. \E f : IsSum(f, S, g) /\ f[S] = iter[S]
  BY <1>1, <1>6, SumIs
<1> QED BY <1>5, <1>7 DEF S, g

\* The characters of some columns are those of the columns before the last
\* and of the last.
LEMMA ThroughLast ==
  ASSUME NEW t, NEW a \in Int, NEW b \in Int, a <= b, \A i \in a..b : Width(t, i) \in Nat
  PROVE  Through(t, a, b) = Through(t, a, b - 1) + Width(t, b) + 1
<1>1. PICK f : IsSum(f, a..b, Wide(t, a, b)) /\ Through(t, a, b) = f[a..b]
  BY ThroughIs
<1>2. PICK e : IsSum(e, a..b - 1, Wide(t, a, b - 1)) /\ Through(t, a, b - 1) = e[a..b - 1]
  <2>1. b - 1 \in Int /\ \A i \in a..b - 1 : Width(t, i) \in Nat
    OBVIOUS
  <2> QED BY <2>1, ThroughIs
<1> DEFINE g == Wide(t, a, b)
           h == Wide(t, a, b - 1)
<1>3. (\A i \in a..b - 1 : h[i] = g[i]) /\ g[b] = Width(t, b) + 1
  BY DEF Wide
<1>4. f[a..b] = g[b] + e[a..b - 1]
  <2>1. a \in Int /\ b \in Int /\ a <= b
    OBVIOUS
  <2>3. /\ \A i \in a..b - 1 : h[i] = g[i]
    BY <1>3
  <2> HIDE DEF g, h
  <2>2. IsSum(f, a..b, g) /\ IsSum(e, a..b - 1, h)
    BY <1>1, <1>2 DEF g, h
  <2> QED BY ONLY <2>1, <2>2, <2>3, LastOfSum
<1>5. e[a..b - 1] \in Int /\ Width(t, b) \in Nat
  BY <1>2 DEF IsSum
<1> DEFINE x == Through(t, a, b - 1)
           y == Width(t, b)
<1>6. Through(t, a, b) = g[b] + x /\ g[b] = y + 1
  BY <1>1, <1>2, <1>3, <1>4
<1>7. x \in Int /\ y \in Nat
  BY <1>2, <1>5
<1> HIDE DEF x, y, g
<1>8. Through(t, a, b) = x + y + 1
  BY <1>6, <1>7
<1> QED BY <1>8 DEF x, y

\* No columns take no characters.
LEMMA ThroughNone ==
  ASSUME NEW t, NEW a \in Int
  PROVE  Through(t, a, a - 1) = 0
<1>1. a - 1 \in Int /\ a..a - 1 = {}
  OBVIOUS
<1>2. PICK f : IsSum(f, a..a - 1, Wide(t, a, a - 1)) /\ Through(t, a, a - 1) = f[a..a - 1]
  BY <1>1, ThroughIs
<1> QED BY <1>1, <1>2 DEF IsSum

\* The characters through the columns 0..b are those before the column a and
\* those from it on.
LEMMA ThroughAdds ==
  ASSUME NEW t, NEW n \in Nat, \A i \in 0..n - 1 : Width(t, i) \in Nat,
         NEW a \in 0..n
  PROVE  \A b \in a - 1..n - 1 :
           /\ Through(t, 0, a - 1) \in Nat /\ Through(t, a, b) \in Nat
           /\ Through(t, 0, b) = Through(t, 0, a - 1) + Through(t, a, b)
<1> DEFINE Q(k, d) == k + d <= n =>
             /\ Through(t, k, k + d - 1) \in Nat
             /\ Through(t, 0, k + d - 1) = Through(t, 0, k - 1) + Through(t, k, k + d - 1)
<1>1. ASSUME NEW k \in 0..n, Through(t, 0, k - 1) \in Nat
      PROVE  \A d \in Nat : Q(k, d)
  <2> DEFINE T == {d \in Nat : Q(k, d)}
  <2>1. 0 \in T
    <3>1. Through(t, k, k - 1) = 0 /\ k + 0 - 1 = k - 1
      BY ThroughNone
    <3> QED BY <1>1, <3>1
  <2>2. ASSUME NEW d \in Nat, d \in T
        PROVE  d + 1 \in T
    <3>1. CASE k + (d + 1) <= n
      <4> DEFINE b == k + d
      <4>1. /\ b \in Int /\ k \in Int /\ 0 \in Int /\ k <= b /\ 0 <= b
            /\ k + (d + 1) - 1 = b /\ k + d - 1 = b - 1
            /\ (\A i \in k..b : Width(t, i) \in Nat) /\ (\A i \in 0..b : Width(t, i) \in Nat)
        BY <3>1
      <4>2. /\ Through(t, k, b - 1) \in Nat
            /\ Through(t, 0, b - 1) = Through(t, 0, k - 1) + Through(t, k, b - 1)
        BY <2>2, <3>1, <4>1
      <4>3. Through(t, k, b) = Through(t, k, b - 1) + Width(t, b) + 1
        BY ONLY <4>1, ThroughLast
      <4>4. Through(t, 0, b) = Through(t, 0, b - 1) + Width(t, b) + 1
        BY ONLY <4>1, ThroughLast
      <4>5. Width(t, b) \in Nat
        BY <4>1
      <4> HIDE DEF b
      <4>6. /\ Through(t, k, b) \in Nat
            /\ Through(t, 0, b) = Through(t, 0, k - 1) + Through(t, k, b)
        BY <1>1, <4>2, <4>3, <4>4, <4>5
      <4> QED BY <4>1, <4>6
    <3>2. CASE ~(k + (d + 1) <= n)
      BY <3>2
    <3> QED BY <3>1, <3>2
  <2> HIDE DEF T
  <2>3. Nat \subseteq T
    BY <2>1, <2>2, InductionUp
  <2> QED BY <2>3 DEF T
<1>2. Through(t, 0, a - 1) \in Nat
  <2>1. Through(t, 0, 0 - 1) = 0
    BY ThroughNone
  <2>2. \A d \in Nat : Q(0, d)
    BY <1>1, <2>1
  <2> QED BY <2>2
<1>3. \A d \in Nat : Q(a, d)
  BY <1>1, <1>2
<1>4. ASSUME NEW b \in a - 1..n - 1
      PROVE  /\ Through(t, a, b) \in Nat
             /\ Through(t, 0, b) = Through(t, 0, a - 1) + Through(t, a, b)
  <2>1. b - a + 1 \in Nat /\ a + (b - a + 1) <= n /\ a + (b - a + 1) - 1 = b
    OBVIOUS
  <2>2. Q(a, b - a + 1)
    BY <1>3, <2>1
  <2> QED BY <2>1, <2>2
<1> QED BY <1>2, <1>4

-----------------------------------------------------------------------------
\* What the layout of a table rests on: its rows hold texts, and its columns
\* widths.
Texted(t) ==
  /\ t.rows \in Seq([delimiter : BOOLEAN, cells : Seq([len : 0..127, left : BOOLEAN])])
  /\ Columns(t) \in Nat
  /\ \A i \in ColumnsOf(t) : Width(t, i) \in Nat
  /\ \A line \in Rows(t) :
       /\ line.cells \in Seq([len : 0..127, left : BOOLEAN])
       /\ Len(line.cells) <= Columns(t)
       /\ \A i \in 0..Len(line.cells) - 1 :
            /\ line.cells[i + 1].len \in Nat
            /\ line.cells[i + 1].len <= Width(t, i)

\* A table of texts has columns that are as wide as the longest of their texts
\* (table.cpp:120-131).
LEMMA TextedTable ==
  ASSUME NEW t,
         t.rows \in Seq([delimiter : BOOLEAN, cells : Seq([len : 0..127, left : BOOLEAN])])
  PROVE  Texted(t)
<1> DEFINE S == [len : 0..127, left : BOOLEAN]
<1>0. ASSUME NEW c \in S
      PROVE  c.len \in Nat
  <2>1. c.len \in 0..127
    BY Zenon
  <2> QED BY ONLY <2>1
<1>1. t.rows \in Seq([delimiter : BOOLEAN, cells : Seq(S)])
  OBVIOUS
<1> HIDE DEF S
<1>2. /\ Rows(t) \subseteq [delimiter : BOOLEAN, cells : Seq(S)]
      /\ Columns(t) \in Nat
      /\ \A line \in Rows(t) : Len(line.cells) <= Columns(t)
  BY ONLY <1>1, ColumnsAreMost
<1>3. ASSUME NEW i \in ColumnsOf(t)
      PROVE  /\ Width(t, i) \in Nat
             /\ \A line \in Rows(t) : i < Len(line.cells) =>
                  line.cells[i + 1].len \in Nat /\ line.cells[i + 1].len <= Width(t, i)
  <2>1. (\A c \in S : c.len \in Nat) /\ i \in ColumnsOf(t)
    BY <1>0
  <2> QED BY ONLY <1>1, <2>1, WidthIsMost
<1>4. ASSUME NEW line \in Rows(t)
      PROVE  /\ line.cells \in Seq(S)
             /\ \A i \in 0..Len(line.cells) - 1 :
                  /\ line.cells[i + 1].len \in Nat
                  /\ line.cells[i + 1].len <= Width(t, i)
  <2>1. line.cells \in Seq(S) /\ Len(line.cells) <= Columns(t)
    BY <1>2
  <2>2. ASSUME NEW i \in 0..Len(line.cells) - 1
        PROVE  /\ line.cells[i + 1].len \in Nat
               /\ line.cells[i + 1].len <= Width(t, i)
    <3>1. i \in ColumnsOf(t) /\ i < Len(line.cells) /\ i + 1 \in 1..Len(line.cells)
      BY <1>2, <2>1 DEF ColumnsOf
    <3>2. line.cells[i + 1] \in S
      BY <2>1, <3>1
    <3> QED BY <1>0, <1>3, <3>1, <3>2
  <2> QED BY <2>1, <2>2
<1> QED BY <1>1, <1>2, <1>3, <1>4 DEF Texted, S

\* A cell is no wider than its column, so the fields of a line are as wide as
\* the columns they are in.
LEMMA FieldsAreColumns ==
  ASSUME NEW t, Texted(t), NEW line \in Rows(t), NEW i \in 0..Len(line.cells) - 1
  PROVE  /\ Field(t, line, i) = Width(t, i)
         /\ FieldAt(t, line, i) = Through(t, 0, i - 1)
<1>0. /\ Columns(t) \in Nat /\ Len(line.cells) \in Nat /\ Len(line.cells) <= Columns(t)
  BY DEF Texted
<1>1. ASSUME NEW j \in 0..i
      PROVE  Field(t, line, j) = Width(t, j) /\ Width(t, j) \in Nat
  <2>1. j \in 0..Len(line.cells) - 1 /\ j \in ColumnsOf(t)
    BY <1>0 DEF ColumnsOf
  <2>2. Width(t, j) \in Nat /\ line.cells[j + 1].len \in Nat /\ line.cells[j + 1].len <= Width(t, j)
    BY <2>1 DEF Texted
  <2> QED BY <2>2 DEF Field, Max
<1> DEFINE S == 0..i - 1
           g == Wide(t, 0, i - 1)
           Body(f) == [s \in SUBSET S |-> IF s = {} THEN 0
                         ELSE Field(t, line, CHOOSE x \in s : TRUE) + 1
                                + f[s \ {CHOOSE x \in s : TRUE}]]
           iter == CHOOSE f : f = Body(f)
<1>2. IsFiniteSet(S) /\ \A x \in S : g[x] \in Int
  BY <1>1, FS_Interval DEF Wide
<1>3. \A s \in SUBSET S : s # {} =>
         (CHOOSE x \in s : TRUE) \in S
         /\ g[CHOOSE x \in s : TRUE] = Field(t, line, CHOOSE x \in s : TRUE) + 1
  <2>1. \A x \in S : g[x] = Field(t, line, x) + 1
    BY <1>1 DEF Wide
  <2> HIDE DEF S, g
  <2> QED BY <2>1
<1>4. \E f : f = Body(f)
  <2> HIDE DEF S, g
  <2>1. PICK f : AddsUp(f, S, g)
    BY ONLY <1>2, SumExists
  <2>2. \A s \in SUBSET S : f[s] = Body(f)[s]
    BY <1>3, <2>1 DEF AddsUp
  <2>3. f = Body(f)
    BY <2>1, <2>2 DEF AddsUp
  <2> QED BY <2>3
<1>5. iter = Body(iter)
  BY <1>4
<1>6. FieldAt(t, line, i) = iter[S]
  BY DEF FieldAt, MapThenSumSet, MapThenFoldSet
<1>10. PICK e : IsSum(e, 0..i - 1, Wide(t, 0, i - 1)) /\ Through(t, 0, i - 1) = e[0..i - 1]
  BY <1>1, ThroughIs
<1> HIDE DEF iter, S, g
<1>7. \A s \in SUBSET S : iter[s] = IF s = {} THEN 0
         ELSE g[CHOOSE x \in s : TRUE] + iter[s \ {CHOOSE x \in s : TRUE}]
  BY <1>3, <1>5
<1>8. PICK f : IsSum(f, S, g) /\ f[S] = iter[S]
  BY <1>2, <1>7, SumIs
<1>11. IsSum(e, S, g) /\ Through(t, 0, i - 1) = e[S]
  BY <1>10 DEF S, g
<1>12. e[S] = f[S]
  <2>1. IsSum(e, S, g) /\ IsSum(f, S, g) /\ IsFiniteSet(S) /\ S \subseteq S /\ \A x \in S : g[x] = g[x]
    BY <1>2, <1>8, <1>11
  <2> QED BY ONLY <2>1, SumsAgree
<1> QED BY <1>1, <1>6, <1>8, <1>11, <1>12

\* Where a column begins, and the place after its last character.
Begins(t, i) == Through(t, 0, i - 1)
Stops(t, i) == Begins(t, i) + Width(t, i)

\* A column begins after the blank after the one before it, and the delimiters
\* reach as far as the last one.
LEMMA ColumnsInOrder ==
  ASSUME NEW t, Texted(t), NEW i \in ColumnsOf(t)
  PROVE  /\ Begins(t, i) \in Nat /\ Stops(t, i) \in Nat
         /\ \A j \in ColumnsOf(t) : i < j => Stops(t, i) < Begins(t, j)
         /\ Stops(t, i) <= TableWidth(t)
<1> DEFINE n == Columns(t)
<1>1. n \in Nat /\ i \in 0..n - 1 /\ \A j \in 0..n - 1 : Width(t, j) \in Nat
  BY DEF Texted, ColumnsOf
<1> HIDE DEF n
<1>2. ASSUME NEW a \in 0..n
      PROVE  \A b \in a - 1..n - 1 :
               /\ Through(t, 0, a - 1) \in Nat /\ Through(t, a, b) \in Nat
               /\ Through(t, 0, b) = Through(t, 0, a - 1) + Through(t, a, b)
  BY <1>1, ThroughAdds
<1>3. Begins(t, i) \in Nat /\ Stops(t, i) \in Nat
  <2>1. i \in 0..n /\ i \in i - 1..n - 1
    BY <1>1
  <2>2. Through(t, 0, i - 1) \in Nat
    BY <1>2, <2>1
  <2>3. Width(t, i) \in Nat
    BY <1>1
  <2>4. Begins(t, i) \in Nat
    BY <2>2 DEF Begins
  <2>5. Stops(t, i) = Begins(t, i) + Width(t, i)
    BY DEF Stops
  <2> QED BY <2>3, <2>4, <2>5
<1>4. Through(t, 0, i) = Stops(t, i) + 1
  <2>1. 0 \in Int /\ i \in Int /\ 0 <= i /\ \A j \in 0..i : Width(t, j) \in Nat
    BY <1>1
  <2>2. Through(t, 0, i) = Through(t, 0, i - 1) + Width(t, i) + 1
    BY ONLY <2>1, ThroughLast
  <2> QED BY <2>2 DEF Begins, Stops
<1>5. \A b \in i..n - 1 : Stops(t, i) < Through(t, 0, b)
  <2>1. i + 1 \in 0..n /\ (i + 1) - 1 = i
    BY <1>1
  <2>2. ASSUME NEW b \in i..n - 1
        PROVE  Stops(t, i) < Through(t, 0, b)
    <3>1. b \in (i + 1) - 1..n - 1
      BY <1>1
    <3>2. Through(t, i + 1, b) \in Nat /\ Through(t, 0, b) = Through(t, 0, i) + Through(t, i + 1, b)
      BY <1>2, <2>1, <3>1
    <3> QED BY <1>3, <1>4, <3>2
  <2> QED BY <2>2
<1>6. ASSUME NEW j \in ColumnsOf(t), i < j
      PROVE  Stops(t, i) < Begins(t, j)
  <2>1. j - 1 \in i..n - 1
    BY <1>1, <1>6 DEF ColumnsOf, n
  <2> QED BY <1>5, <2>1 DEF Begins
<1>7. Stops(t, i) <= TableWidth(t)
  <2>1. n - 1 \in i..n - 1 /\ n \in 0..n /\ n - 1 \in n - 1..n - 1
    BY <1>1
  <2>2. Stops(t, i) < Through(t, 0, n - 1) /\ Through(t, 0, n - 1) \in Nat
    BY <1>2, <1>5, <2>1
  <2> QED BY <1>3, <2>2 DEF TableWidth, n
<1> QED BY <1>3, <1>6, <1>7

\* A text lies in its column, at one end of it.
LEMMA TextInColumn ==
  ASSUME NEW t, Texted(t), NEW line \in Rows(t), NEW i \in 1..Len(line.cells)
  PROVE  /\ i - 1 \in ColumnsOf(t) /\ line.cells[i].len \in Nat
         /\ TextAt(t, line, i - 1) \in Int
         /\ Begins(t, i - 1) <= TextAt(t, line, i - 1)
         /\ TextAt(t, line, i - 1) + line.cells[i].len <= Stops(t, i - 1)
         /\ line.cells[i].left => TextAt(t, line, i - 1) = Begins(t, i - 1)
         /\ ~line.cells[i].left => TextAt(t, line, i - 1) + line.cells[i].len = Stops(t, i - 1)
<1>1. /\ Len(line.cells) \in Nat /\ i - 1 \in 0..Len(line.cells) - 1 /\ i - 1 \in ColumnsOf(t)
      /\ (i - 1) + 1 = i
  BY DEF Texted, ColumnsOf
<1>2. /\ line.cells[i].len \in Nat
      /\ line.cells[i].len <= Width(t, i - 1) /\ Width(t, i - 1) \in Nat
  BY <1>1 DEF Texted
<1>3. Field(t, line, i - 1) = Width(t, i - 1) /\ FieldAt(t, line, i - 1) = Begins(t, i - 1)
  BY <1>1, FieldsAreColumns DEF Begins
<1>4. Begins(t, i - 1) \in Nat
  BY <1>1, ColumnsInOrder
<1>5. TextAt(t, line, i - 1) =
        Begins(t, i - 1) + (IF line.cells[i].left THEN 0
                            ELSE Width(t, i - 1) - line.cells[i].len)
  BY <1>1, <1>3 DEF TextAt
<1> DEFINE w == Width(t, i - 1)
           l == line.cells[i].len
           first == Begins(t, i - 1)
           left == line.cells[i].left
           x == TextAt(t, line, i - 1)
           stop == Stops(t, i - 1)
<1>6. w \in Nat /\ l \in Nat /\ l <= w /\ first \in Nat
  BY <1>2, <1>4
<1>7. stop = first + w
  BY DEF Stops
<1>8. (left => x = first + 0) /\ (~left => x = first + (w - l))
  BY <1>5
<1> HIDE DEF w, l, first, left, x, stop
<1>9. /\ x \in Int /\ first <= x /\ x + l <= stop
      /\ (left => x = first) /\ (~left => x + l = stop)
  <2>1. CASE left
    BY <1>6, <1>7, <1>8, <2>1
  <2>2. CASE ~left
    BY <1>6, <1>7, <1>8, <2>2
  <2> QED BY <2>1, <2>2
<1> QED BY <1>1, <1>2, <1>9 DEF w, l, first, left, x, stop

\* The table holds texts.
LEMMA SheetTexted ==
  ASSUME SheetInv
  PROVE  Texted(sheet)
<1> DEFINE Sorts == [len : 0..127, left : BOOLEAN]
           E == [delimiter : BOOLEAN, cells : Seq(Sorts)]
<1>2. Cells \subseteq Sorts
  BY TableClientAssumption DEF TableClientAssumption
<1>3. Seq(Cells) \subseteq Seq(Sorts)
  BY ONLY <1>2, SeqOfMore
<1>4. ClientRows \subseteq E
  <2> HIDE DEF Sorts
  <2> QED BY <1>3 DEF ClientRows
<1> HIDE DEF E
<1>1. Seq(ClientRows) \subseteq Seq(E)
  BY ONLY <1>4, SeqOfMore
<1> QED BY <1>1, TextedTable DEF SheetInv, E

\* Whatever the lengths of the texts and the rows they are in, the cells of a
\* column stand below each other and apart from the columns beside it, and the
\* delimiters reach to the end of the last column (table.cpp:120-138, 184-191).
THEOREM CellsAligned == ClientSpec => []Aligned
<1>1. SheetInv => Aligned
  <2> SUFFICES ASSUME SheetInv
               PROVE  Aligned
    OBVIOUS
  <2>1. Texted(sheet)
    BY SheetTexted
  <2>2. ASSUME NEW r1 \in TextRows, NEW r2 \in TextRows,
               NEW i \in 1..Len(r1.cells), NEW j \in 1..Len(r2.cells)
        PROVE  LET end1 == TextAt(sheet, r1, i - 1) + r1.cells[i].len
                   start2 == TextAt(sheet, r2, j - 1)
               IN /\ i < j => end1 < start2
                  /\ i = j /\ r1.cells[i].left /\ r2.cells[j].left =>
                       TextAt(sheet, r1, i - 1) = start2
                  /\ i = j /\ ~r1.cells[i].left /\ ~r2.cells[j].left =>
                       end1 = start2 + r2.cells[j].len
    <3>1. r1 \in Rows(sheet) /\ r2 \in Rows(sheet)
      BY DEF TextRows
    <3>2. /\ i - 1 \in ColumnsOf(sheet) /\ r1.cells[i].len \in Nat
          /\ TextAt(sheet, r1, i - 1) \in Int
          /\ TextAt(sheet, r1, i - 1) + r1.cells[i].len <= Stops(sheet, i - 1)
          /\ r1.cells[i].left => TextAt(sheet, r1, i - 1) = Begins(sheet, i - 1)
          /\ ~r1.cells[i].left => TextAt(sheet, r1, i - 1) + r1.cells[i].len = Stops(sheet, i - 1)
      BY <2>1, <3>1, TextInColumn
    <3>3. /\ j - 1 \in ColumnsOf(sheet) /\ r2.cells[j].len \in Nat
          /\ TextAt(sheet, r2, j - 1) \in Int
          /\ Begins(sheet, j - 1) <= TextAt(sheet, r2, j - 1)
          /\ r2.cells[j].left => TextAt(sheet, r2, j - 1) = Begins(sheet, j - 1)
          /\ ~r2.cells[j].left => TextAt(sheet, r2, j - 1) + r2.cells[j].len = Stops(sheet, j - 1)
      BY <2>1, <3>1, TextInColumn
    <3>4. /\ Stops(sheet, i - 1) \in Nat /\ Begins(sheet, j - 1) \in Nat
          /\ i < j => Stops(sheet, i - 1) < Begins(sheet, j - 1)
      <4>1. i < j => i - 1 < j - 1
        OBVIOUS
      <4>2. /\ Stops(sheet, i - 1) \in Nat
            /\ \A k \in ColumnsOf(sheet) : i - 1 < k => Stops(sheet, i - 1) < Begins(sheet, k)
        BY <2>1, <3>2, ColumnsInOrder
      <4>3. Begins(sheet, j - 1) \in Nat
        BY <2>1, <3>3, ColumnsInOrder
      <4>4. j - 1 \in ColumnsOf(sheet)
        BY <3>3
      <4>5. i < j => Stops(sheet, i - 1) < Begins(sheet, j - 1)
        BY <4>1, <4>2, <4>4
      <4> QED BY <4>2, <4>3, <4>5
    <3> QED BY <3>2, <3>3, <3>4
  <2>3. ASSUME NEW r \in TextRows, NEW i \in 1..Len(r.cells)
        PROVE  TextAt(sheet, r, i - 1) + r.cells[i].len <= TableWidth(sheet)
    <3>1. /\ i - 1 \in ColumnsOf(sheet) /\ r.cells[i].len \in Nat
          /\ TextAt(sheet, r, i - 1) \in Int
          /\ TextAt(sheet, r, i - 1) + r.cells[i].len <= Stops(sheet, i - 1)
      BY <2>1, TextInColumn DEF TextRows
    <3>2. Stops(sheet, i - 1) \in Nat /\ Stops(sheet, i - 1) <= TableWidth(sheet)
      BY <2>1, <3>1, ColumnsInOrder
    <3>3. TableWidth(sheet) \in Int
      <4> DEFINE n == Columns(sheet)
      <4>1. n \in Nat /\ 0 \in 0..n /\ n - 1 \in 0 - 1..n - 1 /\ \A k \in 0..n - 1 : Width(sheet, k) \in Nat
        BY <2>1 DEF Texted, ColumnsOf
      <4> HIDE DEF n
      <4>2. Through(sheet, 0, n - 1) \in Nat
        BY <4>1, ThroughAdds
      <4> QED BY <4>2 DEF TableWidth, n
    <3> QED BY <3>1, <3>2, <3>3
  <2> QED BY <2>2, <2>3 DEF Aligned
<1>2. []SheetInv => []Aligned
  BY <1>1, PTL
<1> QED BY <1>2, SheetTypes

\* The asserts are all that the header needs, and its bars enclose its columns
\* unless its label is too long for them (table.cpp:141-169).
THEOREM HeaderPlaced == ClientSpec => []HeaderSpansItsColumns
<1>1. SheetInv => HeaderSpansItsColumns
  <2> SUFFICES ASSUME SheetInv, Printed, sheet.start # Absent
               PROVE  /\ sheet.start..LastColumn(sheet) \subseteq 0..Columns(sheet) - 1
                      /\ LET end == Through(sheet, 0, LastColumn(sheet) - 1)
                                      + Width(sheet, LastColumn(sheet)) - 1
                         IN IF SecondBar(sheet) - FirstBar(sheet) - 1 > sheet.label
                            THEN SecondBar(sheet) = end
                            ELSE /\ SecondBar(sheet) = FirstBar(sheet) + 1 + sheet.label
                                 /\ SecondBar(sheet) >= end
    BY DEF HeaderSpansItsColumns
  <2>1. Texted(sheet)
    BY SheetTexted
  <2> DEFINE n == Columns(sheet)
             first == sheet.start
             last == LastColumn(sheet)
             label == sheet.label
             between == Between(sheet)
             spaces == Spaces(sheet)
  <2>2. n \in Nat /\ \A i \in 0..n - 1 : Width(sheet, i) \in Nat
    BY <2>1 DEF Texted, ColumnsOf
  <2>3. /\ first \in Nat /\ first < n /\ label \in Nat
        /\ last \in Nat /\ first <= last /\ last < n
    <3>1. first \in Nat /\ sheet.end \in Nat /\ label \in Nat
      BY DEF SheetInv
    <3>2. first < n /\ sheet.end <= n
      BY DEF SheetInv, Printed, AssertsHold
    <3> HIDE DEF n, first
    <3>3. last = IF sheet.end - 1 > first THEN sheet.end - 1 ELSE first
      BY DEF LastColumn, first
    <3> HIDE DEF last
    <3> QED BY <2>2, <3>1, <3>2, <3>3
  <2> HIDE DEF n, first, last, label
  <2>4. /\ Through(sheet, 0, first - 1) \in Nat /\ Through(sheet, first, last - 1) \in Nat
        /\ Through(sheet, 0, last - 1) = Through(sheet, 0, first - 1) + Through(sheet, first, last - 1)
    <3>1. first \in 0..n /\ last - 1 \in first - 1..n - 1
      BY <2>2, <2>3
    <3> QED BY <2>2, <3>1, ThroughAdds
  <2>5. Width(sheet, last) \in Nat
    BY <2>2, <2>3
  <2>6. between = Through(sheet, first, last - 1) + Width(sheet, last) - 2
    BY DEF Between, first, last
  <2>7. between \in Int /\ Through(sheet, 0, last - 1) + Width(sheet, last) - 1
                             = FirstBar(sheet) + between + 1
    <3>1. FirstBar(sheet) = Through(sheet, 0, first - 1)
      BY DEF FirstBar, first
    <3> HIDE DEF between
    <3> QED BY <2>4, <2>5, <2>6, <3>1
  <2>8. spaces = IF between > label THEN between - label ELSE 0
    <3>1. spaces = Max({between - label, 0})
      BY DEF Spaces, label
    <3> HIDE DEF spaces, between
    <3> QED BY <2>3, <2>7, <3>1 DEF Max
  <2>9. SecondBar(sheet) = FirstBar(sheet) + 1 + spaces + label
    <3>1. SecondBar(sheet) = FirstBar(sheet) + 1 + (spaces + 1) \div 2 + label + spaces \div 2
      BY DEF SecondBar, label
    <3> HIDE DEF spaces, between
    <3>2. spaces \in Nat
      BY <2>3, <2>7, <2>8
    <3>3. (spaces + 1) \div 2 + spaces \div 2 = spaces
      BY <3>2
    <3>4. FirstBar(sheet) \in Nat
      BY <2>4 DEF FirstBar, first
    <3>5. (spaces + 1) \div 2 \in Int /\ spaces \div 2 \in Int
      BY <3>2
    <3> QED BY <2>3, <3>1, <3>2, <3>3, <3>4, <3>5
  <2>10. FirstBar(sheet) \in Nat
    BY <2>4 DEF FirstBar, first
  <2>11. first..last \subseteq 0..n - 1
    BY <2>2, <2>3
  <2> HIDE DEF spaces, between
  <2>12. LET end == Through(sheet, 0, last - 1) + Width(sheet, last) - 1
         IN IF SecondBar(sheet) - FirstBar(sheet) - 1 > label
            THEN SecondBar(sheet) = end
            ELSE /\ SecondBar(sheet) = FirstBar(sheet) + 1 + label
                 /\ SecondBar(sheet) >= end
    BY <2>3, <2>7, <2>8, <2>9, <2>10
  <2> QED BY <2>11, <2>12 DEF first, last, label, n
<1>2. []SheetInv => []HeaderSpansItsColumns
  BY <1>1, PTL
<1> QED BY <1>2, SheetTypes
=============================================================================
