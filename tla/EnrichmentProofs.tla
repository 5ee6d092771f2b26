--------------------------- MODULE EnrichmentProofs ---------------------------
(***************************************************************************)
(* What a signal of a GitLab pipeline is enriched with (GitLabContext),     *)
(* for logs, diffs and histories of every length and for every limit of     *)
(* the configuration. The three results are folds over what the service     *)
(* answers, so what holds of them is shown by induction over the            *)
(* elements. The induction theorems of the library take an operator; here   *)
(* a set of numbers takes its place (Induction), and for each fold the      *)
(* sequence of its intermediate results is shown to exist (FoldExists and   *)
(* the lemmas named after it).                                              *)
(***************************************************************************)
EXTENDS MCWork, FiniteSetTheorems, WellFoundedInduction, TLAPS

(* A set of numbers has a least one.                                        *)
LEMMA LeastNumber ==
  ASSUME NEW T, T \subseteq Nat, T # {}
  PROVE  \E x \in T : \A y \in T : x <= y
<1> DEFINE R == OpToRel(<, Nat)
<1>1. IsWellFoundedOn(R, Nat)
  BY NatLessThanWellFounded
<1>2. \A x, y \in Nat : <<x, y>> \in R <=> x < y
  BY DEF OpToRel
<1> HIDE DEF R
<1>3. \E x \in T : \A y \in T : ~ (<<y, x>> \in R)
  BY <1>1, WFMin
<1>4. PICK x \in T : \A y \in T : ~ (<<y, x>> \in R)
  BY <1>3
<1>5. \A y \in T : y \in Nat /\ ~ (y < x)
  BY <1>2, <1>4
<1>6. x \in Nat
  BY <1>4
<1>7. \A y \in T : x <= y
  BY <1>5, <1>6
<1>8. QED
  BY <1>4, <1>7

(* A set of numbers with zero and the next of each of them has all.         *)
LEMMA Induction ==
  ASSUME NEW S, S \subseteq Nat, 0 \in S, \A n \in S : n + 1 \in S
  PROVE  S = Nat
<1> DEFINE T == Nat \ S
<1>1. CASE T = {}
  BY <1>1
<1>2. CASE T # {}
  <2>1. PICK x \in T : \A y \in T : x <= y
    BY <1>2, LeastNumber
  <2>2. x \in Nat /\ x # 0 /\ x - 1 \in Nat /\ x - 1 \notin T
    BY <2>1
  <2>3. x - 1 + 1 = x
    BY <2>2
  <2>4. QED
    BY <2>1, <2>2, <2>3
<1>3. QED
  BY <1>1, <1>2

(* Induction up to a bound.                                                *)
LEMMA BoundedInduction ==
  ASSUME NEW n \in Nat, NEW S, 0 \in S, \A i \in 1..n : i - 1 \in S => i \in S
  PROVE  \A i \in 0..n : i \in S
<1> DEFINE U == {i \in Nat : i <= n => i \in S}
<1>1. U \subseteq Nat /\ 0 \in U
  OBVIOUS
<1>2. ASSUME NEW i \in U PROVE i + 1 \in U
  <2>1. i \in Nat /\ (i + 1 <= n => i + 1 \in 1..n /\ i <= n) /\ (i + 1) - 1 = i
    BY <1>2
  <2>2. i + 1 <= n => i + 1 \in S
    BY <2>1, <1>2
  <2>3. QED
    BY <2>1, <2>2
<1> HIDE DEF U
<1>3. U = Nat
  BY <1>1, <1>2, Induction
<1>4. QED
  BY <1>3 DEF U

(* A segment without its last number is the one before.                     *)
LEMMA LastOfSegment ==
  ASSUME NEW n \in Nat, NEW i \in 1..n
  PROVE  /\ 1..i \in SUBSET (1..n) /\ 1..i # {} /\ i \in Nat \ {0}
         /\ (1..i) \ {i} = 1..(i - 1) /\ i \in 0..n /\ i - 1 \in 0..n
<1>1. /\ i \in Nat \ {0} /\ i \in 0..n /\ i - 1 \in 0..n /\ i \in 1..i
  OBVIOUS
<1>2. 1..i \subseteq 1..n
  OBVIOUS
<1>3. (1..i) \ {i} = 1..(i - 1)
  OBVIOUS
<1>4. QED
  BY <1>1, <1>2, <1>3

(* The largest number of a segment.                                         *)
LEMMA MaxOfSegment ==
  ASSUME NEW i \in Nat \ {0}
  PROVE  Context!Max(1..i) = i
<1>1. i \in 1..i /\ \A y \in 1..i : i >= y
  OBVIOUS
<1>2. \A x \in 1..i : (\A y \in 1..i : x >= y) => x = i
  BY <1>1
<1>3. QED
  BY <1>1, <1>2 DEF Context!Max

(* The largest of some numbers up to n is one of them.                      *)
LEMMA MaxIsElement ==
  ASSUME NEW n \in Nat, NEW s \in SUBSET (1..n), s # {}
  PROVE  Context!Max(s) \in 1..n
<1> DEFINE T == {n - x : x \in s}
<1>1. T \subseteq Nat /\ T # {}
  OBVIOUS
<1>2. PICK t \in T : \A y \in T : t <= y
  BY <1>1, LeastNumber
<1>3. PICK m \in s : t = n - m
  BY <1>2
<1>4. ASSUME NEW y \in s PROVE m >= y
  <2>1. n - m <= n - y
    BY <1>2, <1>3
  <2>2. m \in Nat /\ y \in Nat
    OBVIOUS
  <2>3. QED
    BY <2>1, <2>2
<1>5. Context!Max(s) \in s
  BY <1>4 DEF Context!Max
<1>6. QED
  BY <1>5

(* g folds F, a function of a position and a value, over the sets of        *)
(* positions up to n, the largest position last.                           *)
IsFold(g, n, base, F) ==
  \A s \in SUBSET (1..n) :
    g[s] = IF s = {} THEN base
           ELSE F[<<Context!Max(s), g[s \ {Context!Max(s)}]>>]

(* The fold over the elements of a finite set of positions, largest first,  *)
(* exists.                                                                  *)
LEMMA FoldExists ==
  ASSUME NEW n \in Nat, NEW A, NEW base \in A, NEW F \in [(1..n) \X A -> A]
  PROVE  \E g \in [SUBSET (1..n) -> A] : IsFold(g, n, base, F)
<1> DEFINE P(m, g) ==
       /\ g \in [SUBSET (1..m) -> A]
       /\ IsFold(g, m, base, F)
<1> DEFINE S == {m \in 0..n : \E g : P(m, g)}
<1>1. 0 \in S
  <2> DEFINE g == [s \in SUBSET (1..0) |-> base]
  <2>1. 1..0 = {}
    OBVIOUS
  <2>2. SUBSET (1..0) = {{}}
    BY <2>1
  <2>3. g \in [SUBSET (1..0) -> A] /\ \A s \in SUBSET (1..0) : s = {} /\ g[s] = base
    BY <2>2
  <2>4. P(0, g)
    BY <2>3 DEF IsFold
  <2>5. 0 \in 0..n
    OBVIOUS
  <2> HIDE DEF P
  <2>6. \E f : P(0, f)
    BY <2>4
  <2>7. QED
    BY <2>5, <2>6
<1>2. ASSUME NEW i \in 1..n, i - 1 \in S PROVE i \in S
  <2>1. PICK f : P(i - 1, f)
    BY <1>2
  <2> DEFINE g == [s \in SUBSET (1..i) |-> IF i \in s THEN F[<<i, f[s \ {i}]>>] ELSE f[s]]
  <2>2. /\ \A s \in SUBSET (1..i) : s \ {i} \in SUBSET (1..(i - 1))
        /\ \A s \in SUBSET (1..i) : i \notin s => s \in SUBSET (1..(i - 1))
        /\ \A s \in SUBSET (1..(i - 1)) : s \in SUBSET (1..i) /\ i \notin s
    OBVIOUS
  <2>3. ASSUME NEW s \in SUBSET (1..i) PROVE g[s] \in A
    <3>1. f[s \ {i}] \in A
      BY <2>1, <2>2
    <3>2. CASE i \in s
      <4>1. <<i, f[s \ {i}]>> \in (1..n) \X A
        BY <3>1
      <4>2. QED
        BY <3>2, <4>1
    <3>3. CASE i \notin s
      BY <3>3, <2>1, <2>2
    <3>4. QED
      BY <3>2, <3>3
  <2>4. g \in [SUBSET (1..i) -> A]
    BY <2>3
  <2>5. ASSUME NEW s \in SUBSET (1..(i - 1)) PROVE g[s] = f[s]
    BY <2>2
  <2>6. ASSUME NEW s \in SUBSET (1..i)
        PROVE  g[s] = IF s = {} THEN base
                      ELSE F[<<Context!Max(s), g[s \ {Context!Max(s)}]>>]
    <3>1. CASE i \in s
      <4>1. i \in s /\ \A y \in s : i >= y
        BY <3>1
      <4>2. \A x \in s : (\A y \in s : x >= y) => x = i
        BY <3>1
      <4>3. Context!Max(s) = i
        BY <4>1, <4>2 DEF Context!Max
      <4>4. g[s \ {i}] = f[s \ {i}]
        BY <2>2, <2>5
      <4>5. g[s] = F[<<i, f[s \ {i}]>>]
        BY <3>1
      <4>6. s # {}
        BY <3>1
      <4>7. QED
        BY <4>3, <4>4, <4>5, <4>6
    <3>2. CASE i \notin s
      <4>1. s \in SUBSET (1..(i - 1))
        BY <2>2, <3>2
      <4>2. s \ {Context!Max(s)} \in SUBSET (1..(i - 1))
        BY <4>1
      <4>3. g[s] = f[s] /\ g[s \ {Context!Max(s)}] = f[s \ {Context!Max(s)}]
        BY <2>5, <4>1, <4>2
      <4>4. f[s] = IF s = {} THEN base
                   ELSE F[<<Context!Max(s), f[s \ {Context!Max(s)}]>>]
        BY <2>1, <4>1 DEF IsFold
      <4>5. QED
        BY <4>3, <4>4
    <3>3. QED
      BY <3>1, <3>2
  <2>7. P(i, g)
    BY <2>4, <2>6 DEF IsFold
  <2>8. i \in 0..n
    OBVIOUS
  <2>9. QED
    BY <2>7, <2>8
<1>3. n \in S
  <2> HIDE DEF S
  <2>1. \A i \in 0..n : i \in S
    BY <1>1, <1>2, BoundedInduction
  <2>2. QED
    BY <2>1
<1>4. PICK g : P(n, g)
  BY <1>3
<1>5. QED
  BY <1>4

(* The folds of the enrichment: the value after each element of the        *)
(* sequence, from the value before it.                                     *)
LEMMA LinesFold ==
  ASSUME NEW n \in Nat, NEW q \in [1..n -> Int], NEW base \in SUBSET Int
  PROVE  \E h : /\ h[0] = base
                /\ \A i \in 1..n : h[i] = Context!KeepLine(h[i - 1], q[i])
                /\ Context!FoldLeft(Context!KeepLine, base, q) = h[n]
<1> DEFINE A == SUBSET Int
           F == [p \in (1..n) \X A |-> Context!KeepLine(p[2], q[p[1]])]
           E(it) == [s \in SUBSET (1..n) |->
                       IF s = {} THEN base
                       ELSE Context!KeepLine(it[s \ {Context!Max(s)}], q[Context!Max(s)])]
           g == CHOOSE it : it = E(it)
           h == [i \in 0..n |-> g[1..i]]
<1>1. F \in [(1..n) \X A -> A]
  BY DEF Context!KeepLine
<1>2. \E it : it = E(it)
  <2>1. PICK f \in [SUBSET (1..n) -> A] : IsFold(f, n, base, F)
    <3> HIDE DEF A, F
    <3>1. base \in A
      BY DEF A
    <3>2. QED
      BY <1>1, <3>1, FoldExists
  <2>2. ASSUME NEW s \in SUBSET (1..n), s # {}
        PROVE  f[s] = Context!KeepLine(f[s \ {Context!Max(s)}], q[Context!Max(s)])
    <3> DEFINE m == Context!Max(s)
               p == <<m, f[s \ {m}]>>
    <3>1. m \in 1..n
      BY <2>2, MaxIsElement
    <3>2. s \ {m} \in SUBSET (1..n)
      OBVIOUS
    <3> HIDE DEF m
    <3>3. p \in (1..n) \X A
      BY <3>1, <3>2, <2>1
    <3>4. F[p] = Context!KeepLine(p[2], q[p[1]])
      BY <3>3
    <3>5. f[s] = F[p]
      BY <2>1, <2>2 DEF m, IsFold
    <3>6. QED
      BY <3>4, <3>5 DEF m
  <2>3. f = E(f)
    BY <2>1, <2>2 DEF IsFold
  <2>4. QED
    BY <2>3
<1>3. g = E(g)
  <2> HIDE DEF E
  <2>1. QED
    BY <1>2
<1>4. Context!FoldLeft(Context!KeepLine, base, q) = g[1..n]
  BY DEF Context!FoldLeft, Context!MapThenFoldSet
<1> HIDE DEF g
<1>5. h[0] = base
  <2>1. 1..0 = {} /\ {} \in SUBSET (1..n)
    OBVIOUS
  <2>2. g[{}] = base
    BY <1>3, <2>1
  <2>3. QED
    BY <2>1, <2>2
<1>6. ASSUME NEW i \in 1..n PROVE h[i] = Context!KeepLine(h[i - 1], q[i])
  <2>1. /\ 1..i \in SUBSET (1..n) /\ 1..i # {} /\ i \in Nat \ {0}
        /\ (1..i) \ {i} = 1..(i - 1) /\ i \in 0..n /\ i - 1 \in 0..n
    BY LastOfSegment
  <2>2. Context!Max(1..i) = i
    BY <2>1, MaxOfSegment
  <2>3. g[1..i] = Context!KeepLine(g[1..(i - 1)], q[i])
    BY <1>3, <2>1, <2>2
  <2>4. QED
    BY <2>1, <2>3
<1>7. n \in 0..n
  OBVIOUS
<1>8. h[n] = g[1..n]
  BY <1>7
<1> HIDE DEF h
<1>9. QED
  BY <1>4, <1>5, <1>6, <1>8

-----------------------------------------------------------------------------
(* Ranks.                                                                   *)
LEMMA ContextCardinality == \A S : Context!Cardinality(S) = Cardinality(S)
BY DEF Context!Cardinality, Cardinality

(* The numbers up to n are n.                                               *)
LEMMA Segment ==
  ASSUME NEW n \in Nat
  PROVE  IsFiniteSet(1..n) /\ Cardinality(1..n) = n
<1>1. \A k \in Nat : Cardinality(1..k) = IF 1 > k THEN 0 ELSE k - 1 + 1
  BY FS_Interval
<1>2. IsFiniteSet(1..n)
  BY FS_Interval
<1>3. QED
  BY <1>1, <1>2

(* How many elements of s are below x.                                      *)
Rank(s, x) == Cardinality({y \in s : y < x})

(* Of two elements the larger has the larger rank.                          *)
LEMMA RankGrows ==
  ASSUME NEW n \in Nat, NEW s \in SUBSET (1..n)
  PROVE  /\ IsFiniteSet(s) /\ Cardinality(s) \in Nat
         /\ \A x \in s : Rank(s, x) \in Nat /\ Rank(s, x) + 1 <= Cardinality(s)
         /\ \A x, y \in s : x < y => Rank(s, x) + 1 <= Rank(s, y)
<1>1. IsFiniteSet(s) /\ Cardinality(s) \in Nat
  BY Segment, FS_Subset, FS_CardinalityType
<1>2. ASSUME NEW x \in s
      PROVE  /\ IsFiniteSet({y \in s : y < x}) /\ Rank(s, x) \in Nat
             /\ Cardinality({y \in s : y < x} \cup {x}) = Rank(s, x) + 1
  <2> DEFINE below == {y \in s : y < x}
  <2>1. below \in SUBSET s /\ x \notin below
    OBVIOUS
  <2>2. IsFiniteSet(below)
    BY <1>1, <2>1, FS_Subset
  <2>3. Cardinality(below) \in Nat /\ Cardinality(below \cup {x}) = Cardinality(below) + 1
    BY <2>1, <2>2, FS_AddElement, FS_CardinalityType
  <2>4. QED
    BY <2>2, <2>3 DEF Rank
<1>3. ASSUME NEW x \in s PROVE Rank(s, x) + 1 <= Cardinality(s)
  <2>1. ({y \in s : y < x} \cup {x}) \in SUBSET s
    OBVIOUS
  <2>2. Cardinality({y \in s : y < x} \cup {x}) <= Cardinality(s)
    BY <1>1, <2>1, FS_Subset
  <2>3. QED
    BY <1>2, <2>2
<1>4. ASSUME NEW x \in s, NEW y \in s, x < y PROVE Rank(s, x) + 1 <= Rank(s, y)
  <2> DEFINE upTo == {z \in s : z < x} \cup {x}
  <2>4. \A z \in s : z \in Nat
    OBVIOUS
  <2>5. \A z \in upTo : z \in s /\ (z < x \/ z = x)
    OBVIOUS
  <2>6. ASSUME NEW z \in upTo PROVE z \in s /\ z < y
    <3> HIDE DEF upTo
    <3>1. z \in Nat /\ x \in Nat /\ y \in Nat /\ (z < x \/ z = x)
      BY <2>4, <2>5
    <3>2. QED
      BY <2>5, <3>1, <1>4
  <2>1. upTo \in SUBSET {z \in s : z < y}
    BY <2>6
  <2>2. Cardinality({z \in s : z < x} \cup {x}) <= Cardinality({z \in s : z < y})
    BY <1>2, <2>1, FS_Subset
  <2>3. QED
    BY <1>2, <2>2 DEF Rank
<1>5. QED
  BY <1>1, <1>2, <1>3, <1>4

(* Every number below the size of a set of numbers is the rank of an        *)
(* element.                                                                 *)
LEMMA RankIsOnto ==
  ASSUME NEW n \in Nat, NEW s \in SUBSET (1..n), NEW i \in 1..Cardinality(s)
  PROVE  \E x \in s : Rank(s, x) = i - 1
<1> DEFINE c == Cardinality(s)
           f == [x \in s |-> Rank(s, x) + 1]
<1>1. c \in Nat /\ \A x \in s : Rank(s, x) \in Nat /\ Rank(s, x) + 1 <= c
  BY RankGrows
<1>2. \A x, y \in s : x < y => Rank(s, x) + 1 <= Rank(s, y)
  BY RankGrows
<1>3. \A x, y \in s : x # y => x < y \/ y < x
  OBVIOUS
<1>4. \A x, y \in s : x # y => f[x] # f[y]
  <2>1. \A x, y \in s : x < y => Rank(s, x) # Rank(s, y)
    BY <1>1, <1>2
  <2>2. \A x, y \in s : x # y => Rank(s, x) # Rank(s, y)
    BY <1>3, <2>1
  <2>3. QED
    BY <1>1, <2>2
<1>5. f \in [s -> 1..c]
  BY <1>1
<1>6. f \in Injection(s, 1..c)
  BY <1>4, <1>5 DEF Injection, IsInjective
<1> HIDE DEF f
<1>7. f \in Surjection(s, 1..c)
  <2>1. IsFiniteSet(1..c) /\ Cardinality(1..c) = c
    BY <1>1, Segment
  <2>2. QED
    BY <1>6, <2>1, FS_Injection
<1>8. \E x \in s : f[x] = i
  BY <1>7 DEF Surjection
<1>9. QED
  BY <1>1, <1>8 DEF f

(* Ascending lists the elements of a set in their order.                    *)
LEMMA AscendingOrder ==
  ASSUME NEW n \in Nat, NEW s \in SUBSET (1..n)
  PROVE  /\ Context!Ascending(s) \in [1..Cardinality(s) -> s]
         /\ \A i, j \in 1..Cardinality(s) :
              i < j => Context!Ascending(s)[i] < Context!Ascending(s)[j]
         /\ \A x \in s : \E i \in 1..Cardinality(s) : Context!Ascending(s)[i] = x
<1> DEFINE a == Context!Ascending(s)
           c == Cardinality(s)
<1>1. a = [i \in 1..c |-> CHOOSE x \in s : Rank(s, x) = i - 1]
  BY DEF Context!Ascending, Rank, Context!Cardinality, Cardinality
<1> HIDE DEF a
<1>2. \A i \in 1..c : a[i] \in s /\ Rank(s, a[i]) = i - 1
  <2>1. \A i \in 1..c : \E x \in s : Rank(s, x) = i - 1
    BY RankIsOnto
  <2>2. QED
    BY <1>1, <2>1
<1>3. /\ c \in Nat
      /\ \A x \in s : Rank(s, x) \in Nat /\ Rank(s, x) + 1 <= c
      /\ \A x \in s : x \in Nat
  <2>1. \A x \in s : x \in Nat
    OBVIOUS
  <2>2. QED
    BY <2>1, RankGrows
<1>4. \A x, y \in s : x < y => Rank(s, x) + 1 <= Rank(s, y)
  BY RankGrows
<1>5. ASSUME NEW i \in 1..c, NEW j \in 1..c, i < j PROVE a[i] < a[j]
  <2>1. a[i] \in s /\ a[j] \in s /\ Rank(s, a[i]) = i - 1 /\ Rank(s, a[j]) = j - 1
    BY <1>2
  <2>2. a[i] # a[j]
    BY <1>5, <2>1
  <2>3. ~ (a[j] < a[i])
    <3>1. a[j] < a[i] => Rank(s, a[j]) + 1 <= Rank(s, a[i])
      BY <1>4, <2>1
    <3>2. a[j] < a[i] => j - 1 + 1 <= i - 1
      BY <2>1, <3>1
    <3>3. i \in Nat /\ j \in Nat
      BY <1>3
    <3>4. QED
      BY <1>5, <3>2, <3>3
  <2>4. a[i] \in Nat /\ a[j] \in Nat
    BY <1>3, <2>1
  <2>5. QED
    BY <2>2, <2>3, <2>4
<1>6. ASSUME NEW x \in s PROVE \E i \in 1..c : a[i] = x
  <2> DEFINE i == Rank(s, x) + 1
  <2>1. i \in 1..c /\ Rank(s, x) = i - 1
    BY <1>3
  <2>2. a[i] \in s /\ Rank(s, a[i]) = Rank(s, x)
    BY <1>2, <2>1
  <2>3. ~ (a[i] < x) /\ ~ (x < a[i])
    <3>1. /\ a[i] < x => Rank(s, a[i]) + 1 <= Rank(s, x)
          /\ x < a[i] => Rank(s, x) + 1 <= Rank(s, a[i])
      BY <1>4, <2>2
    <3>2. Rank(s, x) \in Nat
      BY <1>3
    <3>3. QED
      BY <2>2, <3>1, <3>2
  <2>4. a[i] \in Nat /\ x \in Nat
    BY <1>3, <2>2
  <2>5. a[i] = x
    BY <2>3, <2>4
  <2>6. QED
    BY <2>1, <2>5
<1>7. a \in [1..c -> s]
  BY <1>1, <1>2
<1>8. QED
  BY <1>5, <1>6, <1>7 DEF a

-----------------------------------------------------------------------------
(* The error context.                                                       *)
LEMMA ContextConstants ==
  /\ KeptLines \in Nat /\ Tail0 \in Nat /\ Fallback \in Nat /\ Around \in Nat
  /\ JobPage \in Nat /\ MaxRead \in Nat /\ Jobs \in Nat
  /\ MaxDiff \in Nat /\ FilePage \in Nat /\ HistoryPage \in Nat
  /\ MaxStatuses \in Nat /\ MinStatuses \in Nat /\ LogLines \in Nat /\ Files \in Nat
  /\ Pipeline \in Nat /\ Tail0 <= KeptLines /\ Tail0 <= Fallback /\ Sizes \subseteq Nat
BY PartAssumptions DEF Context!ContextAssumption

(* The base and the first k lines of q, all of them unless there was no     *)
(* more room.                                                               *)
KeptUpTo(lines, base, q, c, k) ==
  /\ lines = base \cup {q[j] : j \in 1..k}
  /\ Cardinality(lines) <= KeptLines
  /\ k = c \/ Cardinality(lines) = KeptLines

(* That is what was kept after all of q.                                    *)
LEMMA LinesAreKeptInOrder ==
  ASSUME NEW n \in Nat, NEW c \in Nat, NEW q \in [1..c -> 1..n],
         NEW base \in SUBSET (1..n), Cardinality(base) <= KeptLines
  PROVE  \E k \in 0..c :
           KeptUpTo(Context!FoldLeft(Context!KeepLine, base, q), base, q, c, k)
<1>1. q \in [1..c -> Int] /\ base \in SUBSET Int
  OBVIOUS
<1>2. PICK h : /\ h[0] = base
               /\ \A i \in 1..c : h[i] = Context!KeepLine(h[i - 1], q[i])
               /\ Context!FoldLeft(Context!KeepLine, base, q) = h[c]
  BY <1>1, LinesFold
<1> DEFINE Kept(i, k) ==
             /\ h[i] = base \cup {q[j] : j \in 1..k}
             /\ Cardinality(h[i]) <= KeptLines
             /\ k = i \/ Cardinality(h[i]) >= KeptLines
           S == {i \in 0..c : \E k \in 0..i : Kept(i, k)}
<1>3. 0 \in S
  <2>1. {q[j] : j \in 1..0} = {} /\ 0 \in 0..0 /\ 0 \in 0..c
    OBVIOUS
  <2>2. Kept(0, 0)
    BY <1>2, <2>1
  <2> HIDE DEF Kept
  <2>3. QED
    BY <2>1, <2>2
<1>4. ASSUME NEW i \in 1..c, i - 1 \in S PROVE i \in S
  <2>1. PICK k \in 0..(i - 1) : Kept(i - 1, k)
    BY <1>4
  <2>2. /\ i \in 0..c /\ k \in 0..i /\ i \in 0..i /\ i - 1 \in Nat
        /\ KeptLines \in Nat /\ q[i] \in 1..n
    BY ContextConstants
  <2>3. IsFiniteSet(h[i - 1]) /\ Cardinality(h[i - 1]) \in Nat
    <3>1. {q[j] : j \in 1..k} \in SUBSET (1..n)
      OBVIOUS
    <3>2. h[i - 1] \in SUBSET (1..n)
      BY <2>1, <3>1
    <3>3. QED
      BY <3>2, RankGrows
  <2>4. CASE Cardinality(h[i - 1]) >= KeptLines
    <3>1. h[i] = h[i - 1]
      BY <1>2, <2>4, ContextCardinality DEF Context!KeepLine
    <3>2. Kept(i, k)
      BY <2>1, <2>4, <3>1
    <3> HIDE DEF Kept
    <3>3. QED
      BY <2>2, <3>2
  <2>5. CASE ~ (Cardinality(h[i - 1]) >= KeptLines)
    <3>1. h[i] = h[i - 1] \cup {q[i]}
      BY <1>2, <2>5, ContextCardinality DEF Context!KeepLine
    <3>2. k = i - 1
      BY <2>1, <2>5
    <3>3. {q[j] : j \in 1..(i - 1)} \cup {q[i]} = {q[j] : j \in 1..i}
      <4>1. 1..i = (1..(i - 1)) \cup {i}
        OBVIOUS
      <4>2. QED
        BY <4>1
    <3>4. h[i] = base \cup {q[j] : j \in 1..i}
      BY <2>1, <3>1, <3>2, <3>3
    <3>5. Cardinality(h[i]) <= KeptLines
      <4>1. Cardinality(h[i]) = IF q[i] \in h[i - 1] THEN Cardinality(h[i - 1])
                                ELSE Cardinality(h[i - 1]) + 1
        <5>1. \A x : Cardinality(h[i - 1] \cup {x}) =
                       IF x \in h[i - 1] THEN Cardinality(h[i - 1])
                       ELSE Cardinality(h[i - 1]) + 1
          BY <2>3, FS_AddElement
        <5>2. QED
          BY <3>1, <5>1
      <4>2. QED
        BY <2>2, <2>3, <2>5, <4>1
    <3>6. Kept(i, i)
      BY <3>4, <3>5
    <3> HIDE DEF Kept
    <3>7. QED
      BY <2>2, <3>6
  <2>6. QED
    BY <2>4, <2>5
<1>5. c \in S
  <2> HIDE DEF S
  <2>1. \A i \in 0..c : i \in S
    BY <1>3, <1>4, BoundedInduction
  <2>2. QED
    BY <2>1
<1>6. PICK k \in 0..c : Kept(c, k)
  BY <1>5
<1>7. h[c] \in SUBSET (1..n)
  <2>1. {q[j] : j \in 1..k} \in SUBSET (1..n)
    OBVIOUS
  <2>2. QED
    BY <1>6, <2>1
<1>8. Cardinality(h[c]) \in Nat /\ KeptLines \in Nat
  BY <1>7, RankGrows, ContextConstants
<1>9. k = c \/ Cardinality(h[c]) = KeptLines
  BY <1>6, <1>8
<1> HIDE DEF Kept
<1>10. /\ h[c] = base \cup {q[j] : j \in 1..k}
       /\ Cardinality(h[c]) <= KeptLines
  BY <1>6 DEF Kept
<1>11. QED
  BY <1>2, <1>9, <1>10 DEF KeptUpTo

(* What is kept of any text that was read, however long and wherever the    *)
(* patterns match, is its tail and its first errors.                        *)
LEMMA ExtractIsFaithful ==
  ASSUME NEW n \in Nat, NEW hits \in SUBSET (1..n)
  PROVE  LET extract == Context!ExtractErrorContext(n, hits)
             tail == (n - Tail0 + 1)..n
             near == {i \in 1..n : \E h \in hits : h - Around <= i /\ i <= h + Around}
         IN  /\ extract \subseteq 1..n
             /\ n > Fallback /\ hits # {} =>
                  /\ tail \subseteq extract
                  /\ Cardinality(extract) <= KeptLines
                  /\ \A i \in extract \ tail : i \in near
                  /\ \A i \in (1..n) \ extract, j \in extract \ tail : i \in near => j < i
                  /\ (\E i \in (1..n) \ extract : i \in near) => Cardinality(extract) = KeptLines
<1> DEFINE extract == Context!ExtractErrorContext(n, hits)
           tail == (n - Tail0 + 1)..n
           near == {i \in 1..n : \E h \in hits : h - Around <= i /\ i <= h + Around}
           q == Context!Ascending(near)
           c == Cardinality(near)
<1>2. n \in Nat /\ Tail0 \in Nat /\ Fallback \in Nat /\ KeptLines \in Nat
      /\ Tail0 <= KeptLines /\ Tail0 <= Fallback
  BY ContextConstants
<1>3. near \in SUBSET (1..n)
  OBVIOUS
<1> HIDE DEF near
<1>5. ASSUME n > Fallback, hits # {}
      PROVE  /\ tail \subseteq extract /\ extract \subseteq 1..n
             /\ Cardinality(extract) <= KeptLines
             /\ \A i \in extract \ tail : i \in near
             /\ \A i \in (1..n) \ extract, j \in extract \ tail : i \in near => j < i
             /\ (\E i \in (1..n) \ extract : i \in near) => Cardinality(extract) = KeptLines
  <2>1. extract = Context!FoldLeft(Context!KeepLine, tail, q)
    <3>1. Context!ContextLines(n, hits) = q
      BY DEF Context!ContextLines, near
    <3>2. ~ (n <= Fallback) /\ hits # {}
      BY <1>2, <1>5
    <3> HIDE DEF q
    <3>3. QED
      BY <3>1, <3>2 DEF Context!ExtractErrorContext
  <2>2. tail \in SUBSET (1..n) /\ Cardinality(tail) <= KeptLines
    <3>1. n - Tail0 + 1 \in Int /\ n - Tail0 + 1 >= 1
      BY <1>2, <1>5
    <3>2. Cardinality(tail) = IF n - Tail0 + 1 > n THEN 0 ELSE n - (n - Tail0 + 1) + 1
      <4>1. \A a, b \in Int : Cardinality(a..b) = IF a > b THEN 0 ELSE b - a + 1
        BY FS_Interval
      <4>2. n \in Int
        BY <1>2
      <4>3. QED
        BY <3>1, <4>1, <4>2
    <3>3. QED
      BY <1>2, <3>1, <3>2
  <2>3. /\ c \in Nat /\ q \in [1..c -> near]
        /\ \A i, j \in 1..c : i < j => q[i] < q[j]
        /\ \A x \in near : \E i \in 1..c : q[i] = x
    BY <1>2, <1>3, AscendingOrder, RankGrows
  <2> HIDE DEF q, c, extract, tail
  <2>4. q \in [1..c -> 1..n]
    BY <1>3, <2>3
  <2>5. PICK k \in 0..c : /\ extract = tail \cup {q[j] : j \in 1..k}
                          /\ Cardinality(extract) <= KeptLines
                          /\ k = c \/ Cardinality(extract) = KeptLines
    <3>1. c \in Nat
      BY <2>3
    <3>2. \E k \in 0..c :
             KeptUpTo(Context!FoldLeft(Context!KeepLine, tail, q), tail, q, c, k)
      BY <1>2, <2>2, <3>1, <2>4, LinesAreKeptInOrder
    <3>3. PICK k \in 0..c :
             KeptUpTo(Context!FoldLeft(Context!KeepLine, tail, q), tail, q, c, k)
      BY <3>2
    <3>4. KeptUpTo(extract, tail, q, c, k)
      BY <2>1, <3>3
    <3>5. QED
      BY <3>4 DEF KeptUpTo
  <2>6. /\ \A i \in 1..c : i \in 1..k \/ k < i
        /\ \A i \in 1..k : i \in 1..c
    BY <2>3
  <2>7. \A i \in (1..n) \ extract : i \in near => \E p \in 1..c : q[p] = i /\ k < p
    BY <2>3, <2>5, <2>6
  <2>8. \A j \in extract \ tail : \E p \in 1..k : q[p] = j /\ p \in 1..c
    BY <2>5, <2>6
  <2>9. ASSUME NEW i \in (1..n) \ extract, NEW j \in extract \ tail, i \in near
        PROVE  j < i
    <3>1. PICK p \in 1..c : q[p] = i /\ k < p
      BY <2>7, <2>9
    <3>2. PICK r \in 1..k : q[r] = j /\ r \in 1..c
      BY <2>8
    <3>3. r < p
      BY <3>1, <3>2
    <3>4. QED
      BY <2>3, <3>1, <3>2, <3>3
  <2>10. ASSUME NEW i \in (1..n) \ extract, i \in near PROVE Cardinality(extract) = KeptLines
    <3>1. PICK p \in 1..c : q[p] = i /\ k < p
      BY <2>7, <2>10
    <3>2. k # c
      BY <3>1, <2>3
    <3>3. QED
      BY <2>5, <3>2
  <2>11. extract \subseteq 1..n /\ tail \subseteq extract
    BY <2>2, <2>4, <2>5, <2>6
  <2>12. \A j \in extract \ tail : j \in near
    BY <2>3, <2>8
  <2>13. QED
    BY <2>5, <2>9, <2>10, <2>11, <2>12
<1>8. extract \subseteq 1..n
  <2>1. CASE n <= Fallback
    BY <2>1 DEF Context!ExtractErrorContext
  <2>2. CASE n > Fallback /\ hits = {}
    BY <1>2, <2>2 DEF Context!ExtractErrorContext
  <2>3. QED
    BY <1>2, <1>5, <2>1, <2>2
<1> HIDE DEF extract, tail
<1>9. n > Fallback /\ hits # {} =>
        /\ tail \subseteq extract
        /\ Cardinality(extract) <= KeptLines
        /\ \A i \in extract \ tail : i \in near
        /\ \A i \in (1..n) \ extract, j \in extract \ tail : i \in near => j < i
        /\ (\E i \in (1..n) \ extract : i \in near) => Cardinality(extract) = KeptLines
  BY <1>5
<1>10. QED
  BY <1>8, <1>9 DEF extract, tail, near

(* Each reply gives a text to extract from: nothing, all of the log, or the *)
(* beginning of it.                                                         *)
LEMMA LogIsRead ==
  ASSUME Context!FetchFailedJobLogs
  PROVE  \E n \in Nat : \E read \in 0..n : \E found \in SUBSET (1..read) :
           /\ call'.of = "log" /\ call'.lines = n /\ call'.read = read /\ call'.seen = found
           /\ call'.kept = Context!ExtractErrorContext(read, found)
<1>1. PICK bad \in SUBSET (1..Jobs) :
        Context!NoFailedJob(bad) \/ Context!FetchJobTrace(bad)
  BY DEF Context!FetchFailedJobLogs
<1>2. CASE Context!NoFailedJob(bad)
  <2>1. PICK listed \in BOOLEAN : call' = Context!LogCall(bad, listed, 0, 0, {}, 0, {})
    BY <1>2 DEF Context!NoFailedJob
  <2>2. /\ call'.of = "log" /\ call'.lines = 0 /\ call'.read = 0 /\ call'.seen = {}
        /\ call'.kept = Context!ExtractErrorContext(0, {})
    BY <2>1 DEF Context!LogCall
  <2>3. 0 \in Nat /\ 0 \in 0..0 /\ {} \in SUBSET (1..0)
    OBVIOUS
  <2>4. QED
    BY <2>2, <2>3
<1>3. CASE Context!FetchJobTrace(bad)
  <2>1. PICK job \in bad, n \in 0..LogLines : \E hits \in SUBSET (1..n) :
        \E read \in {0, Context!Min({n, MaxRead})} :
        \E found \in {hits \cap (1..read), hits \cap (1..(read - 1))} :
          call' = Context!LogCall(bad, TRUE, job, n, hits, read, found)
    BY <1>3 DEF Context!FetchJobTrace
  <2>2. PICK hits \in SUBSET (1..n), read \in {0, Context!Min({n, MaxRead})} :
        \E found \in {hits \cap (1..read), hits \cap (1..(read - 1))} :
          call' = Context!LogCall(bad, TRUE, job, n, hits, read, found)
    BY <2>1
  <2>3. PICK found \in {hits \cap (1..read), hits \cap (1..(read - 1))} :
          call' = Context!LogCall(bad, TRUE, job, n, hits, read, found)
    BY <2>2
  <2>4. n \in Nat /\ MaxRead \in Nat
    BY ContextConstants
  <2>5. read \in 0..n
    <3>1. Context!Min({n, MaxRead}) \in {n, MaxRead}
          /\ \A x \in {n, MaxRead} : Context!Min({n, MaxRead}) <= x
      BY <2>4 DEF Context!Min
    <3>2. QED
      BY <2>4, <3>1
  <2>6. found \in SUBSET (1..read)
    BY <2>4, <2>5
  <2>7. /\ call'.of = "log" /\ call'.lines = n /\ call'.read = read /\ call'.seen = found
        /\ call'.kept = Context!ExtractErrorContext(read, found)
    BY <2>3 DEF Context!LogCall
  <2>8. QED
    BY <2>4, <2>5, <2>6, <2>7
<1>4. QED
  BY <1>1, <1>2, <1>3

(* Of what was read of a log, the signal has the tail and the first errors. *)
LEMMA LogExtractIsFaithful ==
  ASSUME Context!FetchFailedJobLogs
  PROVE  Context!ExtractKeepsTailAndFirstErrors' /\ Context!TypeOK'
<1>0. PICK n \in Nat : \E read \in 0..n : \E found \in SUBSET (1..read) :
        /\ call'.of = "log" /\ call'.lines = n /\ call'.read = read /\ call'.seen = found
        /\ call'.kept = Context!ExtractErrorContext(read, found)
  BY LogIsRead
<1>1. PICK read \in 0..n : \E found \in SUBSET (1..read) :
        /\ call'.of = "log" /\ call'.lines = n /\ call'.read = read /\ call'.seen = found
        /\ call'.kept = Context!ExtractErrorContext(read, found)
  BY <1>0
<1>2. PICK found \in SUBSET (1..read) :
        /\ call'.of = "log" /\ call'.lines = n /\ call'.read = read /\ call'.seen = found
        /\ call'.kept = Context!ExtractErrorContext(read, found)
  BY <1>1
<1> DEFINE extract == Context!ExtractErrorContext(read, found)
           tail == (read - Tail0 + 1)..read
           near == {i \in 1..read : \E h \in found : h - Around <= i /\ i <= h + Around}
<1>3. read \in Nat
  BY <1>1
<1>4. /\ extract \subseteq 1..read
      /\ read > Fallback /\ found # {} =>
           /\ tail \subseteq extract
           /\ Cardinality(extract) <= KeptLines
           /\ \A i \in extract \ tail : i \in near
           /\ \A i \in (1..read) \ extract, j \in extract \ tail : i \in near => j < i
           /\ (\E i \in (1..read) \ extract : i \in near) => Cardinality(extract) = KeptLines
  BY <1>3, ExtractIsFaithful
<1>5. \A i \in 1..read : i \in near <=> \E h \in found : h - Around <= i /\ i <= h + Around
  OBVIOUS
<1> HIDE DEF near, extract
<1>6. call'.kept = extract
  BY <1>2 DEF extract
<1>7. Context!ExtractKeepsTailAndFirstErrors'
  <2> SUFFICES ASSUME read > Fallback, found # {}
               PROVE  Context!ExtractKeepsTailAndFirstErrors'
    BY <1>2 DEF Context!ExtractKeepsTailAndFirstErrors
  <2>1. tail \subseteq extract /\ Cardinality(extract) <= KeptLines /\ extract \subseteq 1..read
    BY <1>4
  <2>2. \A i \in extract \ tail : \E h \in found : h - Around <= i /\ i <= h + Around
    BY <1>4, <1>5
  <2>3. \A i \in (1..read) \ extract, j \in extract \ tail :
          (\E h \in found : h - Around <= i /\ i <= h + Around) => j < i
    BY <1>4, <1>5
  <2>4. (\E i \in (1..read) \ extract : \E h \in found : h - Around <= i /\ i <= h + Around)
          => Cardinality(extract) = KeptLines
    BY <1>4, <1>5
  <2>5. QED
    BY <1>2, <1>6, <2>1, <2>2, <2>3, <2>4, ContextCardinality
       DEF Context!ExtractKeepsTailAndFirstErrors, Context!NearHit
<1>8. QED
  BY <1>1, <1>2, <1>4, <1>6, <1>7 DEF Context!TypeOK

-----------------------------------------------------------------------------
(***************************************************************************)
(* The diff of the commit: the files of a page are added one by one.        *)
(***************************************************************************)
(* A sum, one summand after the other.                                      *)
LEMMA SumFold ==
  ASSUME NEW n \in Nat, NEW q \in [1..n -> Nat], NEW base \in Nat
  PROVE  \E h : /\ h[0] = base
                /\ \A i \in 1..n : h[i] = h[i - 1] + q[i]
                /\ Context!FoldLeft(+, base, q) = h[n]
<1> DEFINE A == Nat
           F == [p \in (1..n) \X A |-> p[2] + q[p[1]]]
           E(it) == [s \in SUBSET (1..n) |->
                       IF s = {} THEN base
                       ELSE it[s \ {Context!Max(s)}] + q[Context!Max(s)]]
           g == CHOOSE it : it = E(it)
           h == [i \in 0..n |-> g[1..i]]
<1>1. F \in [(1..n) \X A -> A]
  OBVIOUS
<1>2. \E it : it = E(it)
  <2>1. PICK f \in [SUBSET (1..n) -> A] : IsFold(f, n, base, F)
    <3> HIDE DEF A, F
    <3>1. base \in A
      BY DEF A
    <3>2. QED
      BY <1>1, <3>1, FoldExists
  <2>2. ASSUME NEW s \in SUBSET (1..n), s # {}
        PROVE  f[s] = f[s \ {Context!Max(s)}] + q[Context!Max(s)]
    <3> DEFINE m == Context!Max(s)
               p == <<m, f[s \ {m}]>>
    <3>1. m \in 1..n
      BY <2>2, MaxIsElement
    <3>2. s \ {m} \in SUBSET (1..n)
      OBVIOUS
    <3> HIDE DEF m
    <3>3. p \in (1..n) \X A
      BY <3>1, <3>2, <2>1
    <3>4. F[p] = p[2] + q[p[1]]
      BY <3>3
    <3>5. f[s] = F[p]
      BY <2>1, <2>2 DEF m, IsFold
    <3>6. QED
      BY <3>4, <3>5 DEF m
  <2>3. f = E(f)
    BY <2>1, <2>2 DEF IsFold
  <2>4. QED
    BY <2>3
<1>3. g = E(g)
  <2> HIDE DEF E
  <2>1. QED
    BY <1>2
<1>4. Context!FoldLeft(+, base, q) = g[1..n]
  BY DEF Context!FoldLeft, Context!MapThenFoldSet
<1> HIDE DEF g
<1>5. h[0] = base
  <2>1. 1..0 = {} /\ {} \in SUBSET (1..n)
    OBVIOUS
  <2>2. g[{}] = base
    BY <1>3, <2>1
  <2>3. QED
    BY <2>1, <2>2
<1>6. ASSUME NEW i \in 1..n PROVE h[i] = h[i - 1] + q[i]
  <2>1. /\ 1..i \in SUBSET (1..n) /\ 1..i # {} /\ i \in Nat \ {0}
        /\ (1..i) \ {i} = 1..(i - 1) /\ i \in 0..n /\ i - 1 \in 0..n
    BY LastOfSegment
  <2>2. Context!Max(1..i) = i
    BY <2>1, MaxOfSegment
  <2>3. g[1..i] = g[1..(i - 1)] + q[i]
    BY <1>3, <2>1, <2>2
  <2>4. QED
    BY <2>1, <2>3
<1>7. n \in 0..n
  OBVIOUS
<1>8. h[n] = g[1..n]
  BY <1>7
<1> HIDE DEF h
<1>9. QED
  BY <1>4, <1>5, <1>6, <1>8

(* ReadDiff, one file after the other.                                      *)
LEMMA FilesFold ==
  ASSUME NEW n \in Nat, NEW q \in [1..n -> Nat],
         NEW base \in [files : Seq(Nat), diff : Nat, tooLarge : BOOLEAN]
  PROVE  \E h : /\ h[0] = base
                /\ \A i \in 1..n : h[i] = Context!AddFile(h[i - 1], q[i])
                /\ Context!FoldLeft(Context!AddFile, base, q) = h[n]
<1> DEFINE A == [files : Seq(Nat), diff : Nat, tooLarge : BOOLEAN]
           F == [p \in (1..n) \X A |-> Context!AddFile(p[2], q[p[1]])]
           E(it) == [s \in SUBSET (1..n) |->
                       IF s = {} THEN base
                       ELSE Context!AddFile(it[s \ {Context!Max(s)}], q[Context!Max(s)])]
           g == CHOOSE it : it = E(it)
           h == [i \in 0..n |-> g[1..i]]
<1>1. F \in [(1..n) \X A -> A]
  <2> SUFFICES ASSUME NEW a \in A, NEW size \in Nat PROVE Context!AddFile(a, size) \in A
    OBVIOUS
  <2>1. a.files \in Seq(Nat) /\ a.diff \in Nat /\ a.tooLarge \in BOOLEAN
    OBVIOUS
  <2>2. Append(a.files, size) \in Seq(Nat) /\ a.diff + size \in Nat
    BY <2>1
  <2>3. [a EXCEPT !.files = Append(a.files, size)]
          \in [files : Seq(Nat), diff : Nat, tooLarge : BOOLEAN]
    BY <2>2
  <2>4. Context!AddFile(a, size) \in [files : Seq(Nat), diff : Nat, tooLarge : BOOLEAN]
    <3>1. CASE a.tooLarge
      BY <2>1, <2>2, <2>3, <3>1 DEF Context!AddFile
    <3>2. CASE ~ a.tooLarge
      BY <2>1, <2>2, <3>2 DEF Context!AddFile
    <3>3. QED
      BY <3>1, <3>2
  <2>5. QED
    BY <2>4
<1>2. \E it : it = E(it)
  <2>1. PICK f \in [SUBSET (1..n) -> A] : IsFold(f, n, base, F)
    <3> HIDE DEF A, F
    <3>1. base \in A
      BY DEF A
    <3>2. QED
      BY <1>1, <3>1, FoldExists
  <2>2. ASSUME NEW s \in SUBSET (1..n), s # {}
        PROVE  f[s] = Context!AddFile(f[s \ {Context!Max(s)}], q[Context!Max(s)])
    <3> DEFINE m == Context!Max(s)
               p == <<m, f[s \ {m}]>>
    <3>1. m \in 1..n
      BY <2>2, MaxIsElement
    <3>2. s \ {m} \in SUBSET (1..n)
      OBVIOUS
    <3> HIDE DEF m
    <3>3. p \in (1..n) \X A
      BY <3>1, <3>2, <2>1
    <3>4. F[p] = Context!AddFile(p[2], q[p[1]])
      BY <3>3
    <3>5. f[s] = F[p]
      BY <2>1, <2>2 DEF m, IsFold
    <3>6. QED
      BY <3>4, <3>5 DEF m
  <2>3. f = E(f)
    BY <2>1, <2>2 DEF IsFold
  <2>4. QED
    BY <2>3
<1>3. g = E(g)
  <2> HIDE DEF E
  <2>1. QED
    BY <1>2
<1>4. Context!FoldLeft(Context!AddFile, base, q) = g[1..n]
  BY DEF Context!FoldLeft, Context!MapThenFoldSet
<1> HIDE DEF g
<1>5. h[0] = base
  <2>1. 1..0 = {} /\ {} \in SUBSET (1..n)
    OBVIOUS
  <2>2. g[{}] = base
    BY <1>3, <2>1
  <2>3. QED
    BY <2>1, <2>2
<1>6. ASSUME NEW i \in 1..n PROVE h[i] = Context!AddFile(h[i - 1], q[i])
  <2>1. /\ 1..i \in SUBSET (1..n) /\ 1..i # {} /\ i \in Nat \ {0}
        /\ (1..i) \ {i} = 1..(i - 1) /\ i \in 0..n /\ i - 1 \in 0..n
    BY LastOfSegment
  <2>2. Context!Max(1..i) = i
    BY <2>1, MaxOfSegment
  <2>3. g[1..i] = Context!AddFile(g[1..(i - 1)], q[i])
    BY <1>3, <2>1, <2>2
  <2>4. QED
    BY <2>1, <2>3
<1>7. n \in 0..n
  OBVIOUS
<1>8. h[n] = g[1..n]
  BY <1>7
<1> HIDE DEF h
<1>9. QED
  BY <1>4, <1>5, <1>6, <1>8

-----------------------------------------------------------------------------
(***************************************************************************)
(* The history of the ref: the statuses of the finished pipelines are       *)
(* gathered until there are enough.                                         *)
(***************************************************************************)
(* The statuses of a pipeline that has ended or still runs.                 *)
Ended == {"success", "failed", "running"}

(* Statuses, one pipeline after the other.                                  *)
LEMMA StatusFold ==
  ASSUME NEW n \in Nat, NEW q \in [1..n -> [id : Int, status : Ended]], NEW base \in Seq(Ended)
  PROVE  \E h : /\ h[0] = base
                /\ \A i \in 1..n : h[i] = Context!KeepStatus(h[i - 1], q[i])
                /\ Context!FoldLeft(Context!KeepStatus, base, q) = h[n]
<1> DEFINE A == Seq(Ended)
           F == [p \in (1..n) \X A |-> Context!KeepStatus(p[2], q[p[1]])]
           E(it) == [s \in SUBSET (1..n) |->
                       IF s = {} THEN base
                       ELSE Context!KeepStatus(it[s \ {Context!Max(s)}], q[Context!Max(s)])]
           g == CHOOSE it : it = E(it)
           h == [i \in 0..n |-> g[1..i]]
<1>1. F \in [(1..n) \X A -> A]
  <2> SUFFICES ASSUME NEW a \in A, NEW p \in [id : Int, status : Ended]
               PROVE  Context!KeepStatus(a, p) \in A
    OBVIOUS
  <2>1. QED
    BY DEF Context!KeepStatus
<1>2. \E it : it = E(it)
  <2>1. PICK f \in [SUBSET (1..n) -> A] : IsFold(f, n, base, F)
    <3> HIDE DEF A, F
    <3>1. base \in A
      BY DEF A
    <3>2. QED
      BY <1>1, <3>1, FoldExists
  <2>2. ASSUME NEW s \in SUBSET (1..n), s # {}
        PROVE  f[s] = Context!KeepStatus(f[s \ {Context!Max(s)}], q[Context!Max(s)])
    <3> DEFINE m == Context!Max(s)
               p == <<m, f[s \ {m}]>>
    <3>1. m \in 1..n
      BY <2>2, MaxIsElement
    <3>2. s \ {m} \in SUBSET (1..n)
      OBVIOUS
    <3> HIDE DEF m
    <3>3. p \in (1..n) \X A
      BY <3>1, <3>2, <2>1
    <3>4. F[p] = Context!KeepStatus(p[2], q[p[1]])
      BY <3>3
    <3>5. f[s] = F[p]
      BY <2>1, <2>2 DEF m, IsFold
    <3>6. QED
      BY <3>4, <3>5 DEF m
  <2>3. f = E(f)
    BY <2>1, <2>2 DEF IsFold
  <2>4. QED
    BY <2>3
<1>3. g = E(g)
  <2> HIDE DEF E
  <2>1. QED
    BY <1>2
<1>4. Context!FoldLeft(Context!KeepStatus, base, q) = g[1..n]
  BY DEF Context!FoldLeft, Context!MapThenFoldSet
<1> HIDE DEF g
<1>5. h[0] = base
  <2>1. 1..0 = {} /\ {} \in SUBSET (1..n)
    OBVIOUS
  <2>2. g[{}] = base
    BY <1>3, <2>1
  <2>3. QED
    BY <2>1, <2>2
<1>6. ASSUME NEW i \in 1..n PROVE h[i] = Context!KeepStatus(h[i - 1], q[i])
  <2>1. /\ 1..i \in SUBSET (1..n) /\ 1..i # {} /\ i \in Nat \ {0}
        /\ (1..i) \ {i} = 1..(i - 1) /\ i \in 0..n /\ i - 1 \in 0..n
    BY LastOfSegment
  <2>2. Context!Max(1..i) = i
    BY <2>1, MaxOfSegment
  <2>3. g[1..i] = Context!KeepStatus(g[1..(i - 1)], q[i])
    BY <1>3, <2>1, <2>2
  <2>4. QED
    BY <2>1, <2>3
<1>7. n \in 0..n
  OBVIOUS
<1>8. h[n] = g[1..n]
  BY <1>7
<1> HIDE DEF h
<1>9. QED
  BY <1>4, <1>5, <1>6, <1>8

-----------------------------------------------------------------------------
(* The diff.                                                                *)
FileRecords == [files : Seq(Nat), diff : Nat, tooLarge : BOOLEAN]

(* b is a with one more file.                                               *)
FileIsAdded(a, size, b) ==
  /\ b \in FileRecords
  /\ b.files = Append(a.files, size)
  /\ a.tooLarge => b.tooLarge /\ b.diff = a.diff
  /\ (~ a.tooLarge /\ a.diff + size > MaxDiff) => b.tooLarge /\ b.diff = 0
  /\ (~ a.tooLarge /\ ~ (a.diff + size > MaxDiff)) =>
       ~ b.tooLarge /\ b.diff = a.diff + size

(* That is what AddFile does.                                               *)
LEMMA AddFileAdds ==
  ASSUME NEW a \in FileRecords, NEW size \in Nat
  PROVE  FileIsAdded(a, size, Context!AddFile(a, size))
<1>1. a.files \in Seq(Nat) /\ a.diff \in Nat /\ a.tooLarge \in BOOLEAN
  BY DEF FileRecords
<1>2. Append(a.files, size) \in Seq(Nat) /\ a.diff + size \in Nat
  BY <1>1
<1>3. CASE a.tooLarge
  <2>1. /\ [a EXCEPT !.files = Append(a.files, size)] \in FileRecords
        /\ [a EXCEPT !.files = Append(a.files, size)].files = Append(a.files, size)
        /\ [a EXCEPT !.files = Append(a.files, size)].diff = a.diff
        /\ [a EXCEPT !.files = Append(a.files, size)].tooLarge = a.tooLarge
    BY <1>2 DEF FileRecords
  <2>2. Context!AddFile(a, size) = [a EXCEPT !.files = Append(a.files, size)]
    BY <1>3 DEF Context!AddFile
  <2>3. QED
    BY <1>3, <2>1, <2>2 DEF FileIsAdded
<1>4. CASE ~ a.tooLarge
  BY <1>1, <1>2, <1>4 DEF Context!AddFile, FileRecords, FileIsAdded
<1>5. QED
  BY <1>3, <1>4

(* Every file is named, and a diff that is kept has all of them.            *)
LEMMA DiffIsReadWhole ==
  ASSUME NEW n \in Nat, NEW q \in [1..n -> Nat]
  PROVE  /\ Context!ReadDiff(q).files = q
         /\ Context!ReadDiff(q).diff \in 0..MaxDiff
         /\ Context!ReadDiff(q).diff > 0 =>
              Context!ReadDiff(q).diff = Context!Total(q)
<1> DEFINE base == [files |-> << >>, diff |-> 0, tooLarge |-> FALSE]
<1>1. base \in FileRecords /\ MaxDiff \in Nat
  BY ContextConstants DEF FileRecords
<1> HIDE DEF base
<1>2. PICK h : /\ h[0] = base
               /\ \A i \in 1..n : h[i] = Context!AddFile(h[i - 1], q[i])
               /\ Context!FoldLeft(Context!AddFile, base, q) = h[n]
  BY <1>1, FilesFold DEF FileRecords
<1>3. PICK total : /\ total[0] = 0
                   /\ \A i \in 1..n : total[i] = total[i - 1] + q[i]
                   /\ Context!Total(q) = total[n]
  <2>1. 0 \in Nat
    OBVIOUS
  <2>2. QED
    BY <2>1, SumFold DEF Context!Total
<1> DEFINE Read(i) == /\ h[i] \in FileRecords
                      /\ Len(h[i].files) = i
                      /\ \A j \in 1..i : h[i].files[j] = q[j]
                      /\ h[i].diff <= MaxDiff /\ total[i] \in Nat
                      /\ h[i].diff = IF h[i].tooLarge THEN 0 ELSE total[i]
           S == {i \in 0..n : Read(i)}
<1>4. 0 \in S
  <2>1. Len(h[0].files) = 0 /\ h[0].diff = 0 /\ h[0].tooLarge = FALSE
    BY <1>2 DEF base
  <2>2. h[0] \in FileRecords /\ h[0].diff <= MaxDiff
    BY <1>1, <1>2, <2>1
  <2>3. total[0] \in Nat /\ h[0].diff = IF h[0].tooLarge THEN 0 ELSE total[0]
    <3>1. total[0] = 0
      BY <1>3
    <3>2. QED
      BY <2>1, <3>1
  <2>4. \A j \in 1..0 : h[0].files[j] = q[j]
    OBVIOUS
  <2>5. 0 \in 0..n
    OBVIOUS
  <2>6. Read(0)
    BY <2>1, <2>2, <2>3, <2>4
  <2> HIDE DEF Read
  <2>7. QED
    BY <2>5, <2>6
<1>5. ASSUME NEW i \in 1..n, i - 1 \in S PROVE i \in S
  <2> DEFINE a == h[i - 1]
  <2>1. /\ a \in FileRecords /\ Len(a.files) = i - 1 /\ a.files \in Seq(Nat)
        /\ \A j \in 1..(i - 1) : a.files[j] = q[j]
        /\ a.diff <= MaxDiff /\ total[i - 1] \in Nat /\ a.diff \in Nat
        /\ a.diff = IF a.tooLarge THEN 0 ELSE total[i - 1]
    BY <1>5 DEF FileRecords
  <2>2. h[i] = Context!AddFile(a, q[i]) /\ total[i] = total[i - 1] + q[i] /\ q[i] \in Nat
    BY <1>2, <1>3
  <2> HIDE DEF a
  <2> DEFINE b == Context!AddFile(a, q[i])
  <2>10. /\ b \in FileRecords
         /\ b.files = Append(a.files, q[i])
         /\ a.tooLarge => b.tooLarge /\ b.diff = a.diff
         /\ (~ a.tooLarge /\ a.diff + q[i] > MaxDiff) => b.tooLarge /\ b.diff = 0
         /\ (~ a.tooLarge /\ ~ (a.diff + q[i] > MaxDiff)) =>
              ~ b.tooLarge /\ b.diff = a.diff + q[i]
    <3>1. a \in FileRecords /\ q[i] \in Nat
      BY <2>1, <2>2
    <3>2. \A size \in Nat : FileIsAdded(a, size, Context!AddFile(a, size))
      BY <3>1, AddFileAdds
    <3>3. FileIsAdded(a, q[i], Context!AddFile(a, q[i]))
      BY <3>1, <3>2
    <3>4. QED
      BY <3>3 DEF FileIsAdded
  <2>11. h[i] = b
    BY <2>2
  <2> HIDE DEF b
  <2>3. /\ h[i] \in FileRecords /\ h[i].files = Append(a.files, q[i])
    BY <2>10, <2>11
  <2>4. /\ Len(h[i].files) = i
        /\ \A j \in 1..i : h[i].files[j] = q[j]
    <3>1. Len(Append(a.files, q[i])) = i /\ Append(a.files, q[i])[i] = q[i]
      BY <2>1, <2>2
    <3>2. \A j \in 1..(i - 1) : Append(a.files, q[i])[j] = q[j]
      BY <2>1, <2>2
    <3>3. \A j \in 1..i : j = i \/ j \in 1..(i - 1)
      OBVIOUS
    <3>4. QED
      BY <2>3, <3>1, <3>2, <3>3
  <2>5. total[i] \in Nat
    BY <2>1, <2>2
  <2>6. h[i].diff <= MaxDiff /\ h[i].diff = IF h[i].tooLarge THEN 0 ELSE total[i]
    <3>1. CASE a.tooLarge
      <4>1. h[i].tooLarge /\ h[i].diff = a.diff
        BY <2>10, <2>11, <3>1
      <4>2. QED
        BY <2>1, <3>1, <4>1
    <3>2. CASE ~ a.tooLarge /\ a.diff + q[i] > MaxDiff
      <4>1. h[i].tooLarge /\ h[i].diff = 0
        BY <2>10, <2>11, <3>2
      <4>2. QED
        BY <1>1, <4>1
    <3>3. CASE ~ a.tooLarge /\ ~ (a.diff + q[i] > MaxDiff)
      <4>1. ~ h[i].tooLarge /\ h[i].diff = a.diff + q[i]
        BY <2>10, <2>11, <3>3
      <4>2. h[i].diff = total[i]
        BY <2>1, <2>2, <3>3, <4>1
      <4>3. a.diff + q[i] <= MaxDiff
        BY <1>1, <2>1, <2>2, <3>3
      <4>4. QED
        BY <4>1, <4>2, <4>3
    <3>4. QED
      BY <3>1, <3>2, <3>3
  <2>7. Read(i)
    BY <2>3, <2>4, <2>5, <2>6
  <2>8. i \in 0..n
    OBVIOUS
  <2> HIDE DEF Read
  <2>9. QED
    BY <2>7, <2>8
<1>6. Read(n)
  <2> HIDE DEF Read
  <2>1. \A i \in 0..n : i \in S
    <3> HIDE DEF S
    <3>1. QED
      BY <1>4, <1>5, BoundedInduction
  <2>2. n \in 0..n
    OBVIOUS
  <2>3. QED
    BY <2>1, <2>2
<1>7. Context!ReadDiff(q) = h[n]
  BY <1>2 DEF Context!ReadDiff, base
<1>8. h[n].files = q
  <2>1. h[n].files \in Seq(Nat) /\ Len(h[n].files) = n
    BY <1>6 DEF FileRecords
  <2>2. h[n].files \in [1..n -> Nat]
    BY <2>1
  <2>3. \A j \in 1..n : h[n].files[j] = q[j]
    BY <1>6
  <2> DEFINE files == h[n].files
  <2>4. files \in [1..n -> Nat] /\ \A j \in 1..n : files[j] = q[j]
    BY <2>2, <2>3
  <2> HIDE DEF files
  <2>5. files = q
    BY <2>4
  <2>6. QED
    BY <2>5 DEF files
<1>9. h[n].diff \in 0..MaxDiff
  BY <1>1, <1>6 DEF FileRecords
<1>10. h[n].diff > 0 => h[n].diff = total[n]
  BY <1>6, <1>9
<1>11. QED
  BY <1>3, <1>7, <1>8, <1>9, <1>10

(* A commit of any number of files: its diff is whole or absent.            *)
LEMMA CommitDiffIsFaithful ==
  ASSUME Context!FetchCommitDiff
  PROVE  Context!DiffIsWholeOrAbsent' /\ Context!TypeOK'
<1>1. PICK n \in 0..Files : \E commit \in [1..n -> Sizes], whole \in BOOLEAN :
        LET page == SubSeq(commit, 1, Context!Min({n, FilePage}))
        IN  call' = [of |-> "diff", commit |-> commit,
                     files |-> IF whole THEN Context!ReadDiff(page).files ELSE << >>,
                     diff |-> IF whole THEN Context!ReadDiff(page).diff ELSE 0,
                     whole |-> whole]
  BY DEF Context!FetchCommitDiff
<1>2. PICK commit \in [1..n -> Sizes], whole \in BOOLEAN :
        LET page == SubSeq(commit, 1, Context!Min({n, FilePage}))
        IN  call' = [of |-> "diff", commit |-> commit,
                     files |-> IF whole THEN Context!ReadDiff(page).files ELSE << >>,
                     diff |-> IF whole THEN Context!ReadDiff(page).diff ELSE 0,
                     whole |-> whole]
  BY <1>1
<1> DEFINE m == Context!Min({n, FilePage})
           page == SubSeq(commit, 1, m)
<1>3. n \in Nat /\ FilePage \in Nat /\ Sizes \subseteq Nat /\ MaxDiff \in Nat
  BY ContextConstants
<1>4. m \in Nat /\ m <= n
  <2>1. \E x \in {n, FilePage} : \A y \in {n, FilePage} : x <= y
    BY <1>3
  <2>2. m \in {n, FilePage} /\ \A y \in {n, FilePage} : m <= y
    BY <2>1 DEF Context!Min
  <2> HIDE DEF m
  <2>3. QED
    BY <1>3, <2>2
<1> HIDE DEF m
<1>5. page \in [1..m -> Nat]
  <2>0. commit \in [1..n -> Nat]
    BY <1>3
  <2>1. commit \in Seq(Nat) /\ Len(commit) = n
    BY <1>3, <2>0
  <2>2. page \in Seq(Nat) /\ Len(page) = m
    BY <1>3, <1>4, <2>1
  <2> HIDE DEF page
  <2>3. QED
    BY <2>2
<1> HIDE DEF page
<1>6. /\ Context!ReadDiff(page).files = page
      /\ Context!ReadDiff(page).diff \in 0..MaxDiff
      /\ Context!ReadDiff(page).diff > 0 =>
           Context!ReadDiff(page).diff = Context!Total(page)
  BY <1>4, <1>5, DiffIsReadWhole
<1>7. /\ call'.of = "diff"
      /\ call'.files = IF whole THEN Context!ReadDiff(page).files ELSE << >>
      /\ call'.diff = IF whole THEN Context!ReadDiff(page).diff ELSE 0
  BY <1>2 DEF m, page
<1>8. Context!TypeOK'
  <2>1. call'.diff \in 0..MaxDiff
    <3>1. call'.diff = Context!ReadDiff(page).diff \/ call'.diff = 0
      BY <1>7
    <3>2. QED
      BY <1>3, <1>6, <3>1
  <2>2. QED
    BY <1>7, <2>1 DEF Context!TypeOK
<1>9. CASE whole
  <2>1. call'.files = page
    BY <1>6, <1>7, <1>9
  <2>2. call'.diff > 0 => call'.diff = Context!Total(page)
    BY <1>6, <1>7, <1>9
  <2>3. QED
    <3> HIDE DEF page
    <3>1. call'.diff > 0 => call'.diff = Context!Total(call'.files)
      BY <2>1, <2>2
    <3>2. QED
      BY <1>8, <3>1 DEF Context!DiffIsWholeOrAbsent
<1>10. CASE ~ whole
  <2>1. ~ (call'.diff > 0)
    BY <1>7, <1>10
  <2>2. QED
    BY <1>8, <2>1 DEF Context!DiffIsWholeOrAbsent
<1>11. QED
  BY <1>9, <1>10

-----------------------------------------------------------------------------
(* Flakes.                                                                  *)
Pages(n) == [1..n -> [id : Int, status : Ended]]

(* The positions of the finished pipelines other than the failed one.       *)
Others(q) == {i \in DOMAIN q : q[i].id # Pipeline /\ Context!Finished(q[i].status)}

(* The statuses s are those of the first pipelines in others.               *)
AreTheFirst(s, q, others) ==
  /\ s \in Seq(Ended) /\ Len(s) <= Cardinality(others)
  /\ \A o \in others : Rank(others, o) < MaxStatuses =>
       /\ Rank(others, o) + 1 <= Len(s)
       /\ s[Rank(others, o) + 1] = q[o].status

(* The statuses that detectFlake compares are those of the newest others.   *)
LEMMA StatusesAreTheFirst ==
  ASSUME NEW n \in Nat, NEW q \in Pages(n)
  PROVE  AreTheFirst(Context!Statuses(q), q, Others(q))
<1> DEFINE others == Others(q)
           upTo(i) == {o \in others : o <= i}
<1>1. q \in [1..n -> [id : Int, status : Ended]] /\ << >> \in Seq(Ended)
  BY DEF Pages
<1>2. PICK h : /\ h[0] = << >>
               /\ \A i \in 1..n : h[i] = Context!KeepStatus(h[i - 1], q[i])
               /\ Context!FoldLeft(Context!KeepStatus, << >>, q) = h[n]
  BY <1>1, StatusFold
<1>3. others \in SUBSET (1..n) /\ MaxStatuses \in Nat
  BY <1>1, ContextConstants DEF Others
<1>4. \A i \in 1..n : i \in others <=> q[i].id # Pipeline /\ Context!Finished(q[i].status)
  BY <1>1 DEF Others
<1> HIDE DEF others
<1>14. \A o \in others : o \in Nat /\ 1 <= o /\ o <= n
  BY <1>3
<1>5. /\ \A o \in others : Rank(others, o) \in Nat
      /\ \A i : upTo(i) \in SUBSET (1..n)
  BY <1>3, RankGrows
<1>6. \A i : IsFiniteSet(upTo(i)) /\ Cardinality(upTo(i)) \in Nat
  <2> HIDE DEF upTo
  <2>1. QED
    BY <1>5, RankGrows
<1> DEFINE Kept(i) ==
             /\ h[i] \in Seq(Ended)
             /\ Len(h[i]) <= MaxStatuses
             /\ Len(h[i]) <= Cardinality(upTo(i))
             /\ Len(h[i]) = Cardinality(upTo(i)) \/ Len(h[i]) = MaxStatuses
             /\ \A o \in upTo(i) : Rank(others, o) < MaxStatuses =>
                  /\ Rank(others, o) + 1 <= Len(h[i])
                  /\ h[i][Rank(others, o) + 1] = q[o].status
           S == {i \in 0..n : Kept(i)}
<1>7. 0 \in S
  <2>1. upTo(0) = {}
    <3>1. \A o \in others : ~ (o <= 0)
      BY <1>14
    <3>2. QED
      BY <3>1
  <2>2. Cardinality(upTo(0)) = 0
    BY <2>1, FS_EmptySet
  <2>3. h[0] \in Seq(Ended) /\ Len(h[0]) = 0
    BY <1>1, <1>2
  <2>4. Kept(0)
    <3> HIDE DEF upTo
    <3>1. QED
      BY <1>3, <2>1, <2>2, <2>3
  <2>5. 0 \in 0..n
    OBVIOUS
  <2> HIDE DEF Kept
  <2>6. QED
    BY <2>4, <2>5
<1>8. ASSUME NEW i \in 1..n, i - 1 \in S PROVE i \in S
  <2> DEFINE a == h[i - 1]
  <2>1. Kept(i - 1) /\ h[i] = Context!KeepStatus(a, q[i])
    BY <1>2, <1>8
  <2>2. a \in Seq(Ended) /\ Len(a) \in Nat
    BY <2>1
  <2>3. CASE i \notin others
    <3>1. h[i] = a
      BY <1>4, <2>1, <2>3 DEF Context!KeepStatus
    <3>2. upTo(i) = upTo(i - 1)
      <4>1. \A o \in others : o # i
        BY <2>3
      <4>2. \A o \in others : o <= i <=> o <= i - 1
        BY <1>14, <4>1
      <4>3. QED
        BY <4>2
    <3> HIDE DEF upTo
    <3>3. Kept(i)
      BY <2>1, <3>1, <3>2
    <3> HIDE DEF Kept
    <3>4. QED
      BY <3>3
  <2>4. CASE i \in others
    <3>1. upTo(i) = upTo(i - 1) \cup {i} /\ i \notin upTo(i - 1)
      <4>1. \A o \in others : o <= i <=> o <= i - 1 \/ o = i
        BY <1>14
      <4>2. ~ (i <= i - 1) /\ i <= i
        OBVIOUS
      <4>3. QED
        BY <2>4, <4>1, <4>2
    <3>2. {y \in others : y < i} = upTo(i - 1)
      <4>1. \A o \in others : o < i <=> o <= i - 1
        BY <1>14
      <4>2. QED
        BY <4>1
    <3>3. Rank(others, i) = Cardinality(upTo(i - 1))
      BY <3>2 DEF Rank
    <3> HIDE DEF upTo
    <3>4. Cardinality(upTo(i)) = Cardinality(upTo(i - 1)) + 1
      <4>1. \A x : Cardinality(upTo(i - 1) \cup {x}) =
                     IF x \in upTo(i - 1) THEN Cardinality(upTo(i - 1))
                     ELSE Cardinality(upTo(i - 1)) + 1
        BY <1>6, FS_AddElement
      <4>2. QED
        BY <3>1, <4>1
    <3>5. Cardinality(upTo(i - 1)) \in Nat
      BY <1>6
    <3>6. CASE Len(a) >= MaxStatuses
      <4>1. h[i] = a
        BY <2>1, <3>6 DEF Context!KeepStatus
      <4>2. /\ Len(a) <= MaxStatuses /\ Len(a) <= Cardinality(upTo(i - 1))
            /\ \A o \in upTo(i - 1) : Rank(others, o) < MaxStatuses =>
                 /\ Rank(others, o) + 1 <= Len(a)
                 /\ a[Rank(others, o) + 1] = q[o].status
        BY <2>1
      <4>3. Len(a) = MaxStatuses /\ ~ (Rank(others, i) < MaxStatuses)
        BY <1>3, <2>2, <3>3, <3>5, <3>6, <4>2
      <4>4. Len(a) <= Cardinality(upTo(i))
        BY <2>2, <3>4, <3>5, <4>2
      <4>5. \A o \in upTo(i) : Rank(others, o) < MaxStatuses => o \in upTo(i - 1)
        BY <3>1, <4>3
      <4>6. Kept(i)
        BY <2>2, <4>1, <4>2, <4>3, <4>4, <4>5
      <4> HIDE DEF Kept
      <4>7. QED
        BY <4>6
    <3>7. CASE ~ (Len(a) >= MaxStatuses)
      <4>1. h[i] = Append(a, q[i].status)
        BY <1>4, <2>1, <2>4, <3>7 DEF Context!KeepStatus
      <4>2. /\ Len(a) = Cardinality(upTo(i - 1))
            /\ \A o \in upTo(i - 1) : Rank(others, o) < MaxStatuses =>
                 /\ Rank(others, o) + 1 <= Len(a)
                 /\ a[Rank(others, o) + 1] = q[o].status
        BY <1>3, <2>1, <3>7
      <4>3. q[i].status \in Ended
        BY <1>1
      <4>4. /\ h[i] \in Seq(Ended) /\ Len(h[i]) = Len(a) + 1
            /\ h[i][Len(a) + 1] = q[i].status
            /\ \A k \in 1..Len(a) : h[i][k] = a[k]
        BY <2>2, <4>1, <4>3
      <4>5. Len(h[i]) = Cardinality(upTo(i)) /\ Len(h[i]) <= MaxStatuses
        BY <1>3, <2>2, <3>4, <3>5, <3>7, <4>2, <4>4
      <4>6. ASSUME NEW o \in upTo(i), Rank(others, o) < MaxStatuses
            PROVE  /\ Rank(others, o) + 1 <= Len(h[i])
                   /\ h[i][Rank(others, o) + 1] = q[o].status
        <5>1. CASE o = i
          <6>1. Rank(others, o) = Len(a)
            BY <3>3, <4>2, <5>1
          <6>2. QED
            BY <2>2, <4>4, <5>1, <6>1
        <5>2. CASE o # i
          <6>1. o \in upTo(i - 1)
            BY <3>1, <5>2
          <6>2. o \in others
            BY <6>1 DEF upTo
          <6>3. Rank(others, o) \in Nat
            BY <1>5, <6>2
          <6>4. /\ Rank(others, o) + 1 <= Len(a)
                /\ a[Rank(others, o) + 1] = q[o].status
            BY <4>2, <4>6, <6>1
          <6>5. Rank(others, o) + 1 \in 1..Len(a) /\ Rank(others, o) + 1 <= Len(a) + 1
            BY <2>2, <6>3, <6>4
          <6>6. QED
            BY <4>4, <6>4, <6>5
        <5>3. QED
          BY <5>1, <5>2
      <4>7. Cardinality(upTo(i)) \in Nat
        BY <1>6
      <4>8. Kept(i)
        BY <4>4, <4>5, <4>6, <4>7
      <4> HIDE DEF Kept
      <4>9. QED
        BY <4>8
    <3>8. QED
      BY <3>6, <3>7
  <2>5. QED
    BY <2>3, <2>4
<1>9. Kept(n)
  <2> HIDE DEF Kept
  <2>1. \A i \in 0..n : i \in S
    <3> HIDE DEF S
    <3>1. QED
      BY <1>7, <1>8, BoundedInduction
  <2>2. n \in 0..n
    OBVIOUS
  <2>3. QED
    BY <2>1, <2>2
<1>10. upTo(n) = others
  BY <1>14
<1>11. Context!Statuses(q) = h[n]
  BY <1>2 DEF Context!Statuses
<1> HIDE DEF upTo
<1>12. AreTheFirst(h[n], q, others)
  BY <1>9, <1>10 DEF AreTheFirst
<1>13. QED
  BY <1>11, <1>12 DEF others

(* A flake is an alternation of finished runs, for a history of any         *)
(* length.                                                                  *)
LEMMA FlakeIsFaithful ==
  ASSUME Context!FetchHistory
  PROVE  Context!FlakeIsAlternationOfOthers' /\ Context!TypeOK'
<1>1. PICK n \in 0..HistoryPage : \E newest \in Pipeline..(Pipeline + 2) :
        \E status \in [1..n -> Ended] :
          LET page == [i \in 1..n |-> [id |-> newest + 1 - i, status |-> status[i]]]
          IN  call' = [of |-> "flake", page |-> page, flake |-> Context!DetectFlake(page)]
  BY DEF Context!FetchHistory, Ended
<1>2. PICK newest \in Pipeline..(Pipeline + 2) : \E status \in [1..n -> Ended] :
          LET page == [i \in 1..n |-> [id |-> newest + 1 - i, status |-> status[i]]]
          IN  call' = [of |-> "flake", page |-> page, flake |-> Context!DetectFlake(page)]
  BY <1>1
<1>3. PICK status \in [1..n -> Ended] :
          LET page == [i \in 1..n |-> [id |-> newest + 1 - i, status |-> status[i]]]
          IN  call' = [of |-> "flake", page |-> page, flake |-> Context!DetectFlake(page)]
  BY <1>2
<1> DEFINE page == [i \in 1..n |-> [id |-> newest + 1 - i, status |-> status[i]]]
           s == Context!Statuses(page)
           others == Others(page)
<1>4. n \in Nat /\ newest \in Int /\ MaxStatuses \in Nat /\ MinStatuses \in Nat
  BY ContextConstants
<1>5. page \in Pages(n)
  BY <1>4 DEF Pages
<1>6. call'.of = "flake" /\ call'.page = page /\ call'.flake = Context!DetectFlake(page)
  BY <1>3
<1> HIDE DEF page
<1>7. AreTheFirst(s, page, others)
  BY <1>4, <1>5, StatusesAreTheFirst
<1>8. others \in SUBSET (1..n)
  BY <1>5 DEF Others, Pages
<1>9. Context!TypeOK'
  <2>1. Context!DetectFlake(page) \in BOOLEAN
    BY DEF Context!DetectFlake
  <2>2. QED
    BY <1>6, <2>1 DEF Context!TypeOK
<1> HIDE DEF s, others
<1>10. /\ IsFiniteSet(others) /\ Cardinality(others) \in Nat
       /\ \A x \in others : Rank(others, x) \in Nat
  BY <1>4, <1>8, RankGrows
<1>11. s \in Seq(Ended) /\ Len(s) \in Nat /\ Len(s) <= Cardinality(others)
  BY <1>7 DEF AreTheFirst
<1>12. ASSUME Context!DetectFlake(page)
       PROVE  /\ Cardinality(others) >= MinStatuses
              /\ \A i, j \in others :
                   (i < j /\ \A k \in others : k <= i \/ j <= k) =>
                     page[i].status # page[j].status \/ Rank(others, j) >= MaxStatuses
  <2>1. Len(s) >= MinStatuses /\ \A i \in 2..Len(s) : s[i] # s[i - 1]
    BY <1>12 DEF Context!DetectFlake, s
  <2>2. ASSUME NEW i \in others, NEW j \in others, i < j,
               \A k \in others : k <= i \/ j <= k, ~ (Rank(others, j) >= MaxStatuses)
        PROVE  page[i].status # page[j].status
    <3> DEFINE below == {y \in others : y < i}
    <3>1. {y \in others : y < j} = below \cup {i} /\ i \notin below
      <4>1. \A y \in others : y \in Nat
        BY <1>8
      <4>2. \A y \in others : y < j <=> y < i \/ y = i
        BY <2>2, <4>1
      <4>3. QED
        BY <4>1, <4>2
    <3>2. IsFiniteSet(below) /\ Cardinality(below) \in Nat
      BY <1>4, <1>8, RankGrows
    <3>3. Rank(others, i) = Cardinality(below)
      BY DEF Rank
    <3> HIDE DEF below
    <3>4. Rank(others, j) = Rank(others, i) + 1
      <4>1. \A x : Cardinality(below \cup {x}) =
                     IF x \in below THEN Cardinality(below) ELSE Cardinality(below) + 1
        BY <3>2, FS_AddElement
      <4>2. Rank(others, j) = Cardinality(below \cup {i})
        BY <3>1 DEF Rank
      <4>3. QED
        BY <3>1, <3>3, <4>1, <4>2
    <3>5. Rank(others, i) \in Nat /\ Rank(others, j) < MaxStatuses /\ Rank(others, i) < MaxStatuses
      BY <1>4, <1>10, <2>2, <3>4
    <3>6. /\ s[Rank(others, i) + 1] = page[i].status
          /\ Rank(others, j) + 1 <= Len(s)
          /\ s[Rank(others, j) + 1] = page[j].status
      BY <1>7, <3>5 DEF AreTheFirst
    <3>7. Rank(others, j) + 1 \in 2..Len(s) /\ Rank(others, j) + 1 - 1 = Rank(others, i) + 1
      BY <1>11, <3>4, <3>5, <3>6
    <3>8. s[Rank(others, j) + 1] # s[Rank(others, i) + 1]
      <4>1. PICK r \in 2..Len(s) : r = Rank(others, j) + 1
        BY <3>7
      <4>2. s[r] # s[r - 1]
        BY <2>1
      <4>3. r - 1 = Rank(others, i) + 1
        BY <3>4, <3>5, <4>1
      <4>4. QED
        BY <4>1, <4>2, <4>3
    <3>9. QED
      BY <3>6, <3>8
  <2>3. Cardinality(others) >= MinStatuses
    BY <1>4, <1>10, <1>11, <2>1
  <2>4. QED
    BY <2>2, <2>3
<1>13. others = {i \in DOMAIN page : page[i].id # Pipeline /\ Context!Finished(page[i].status)}
  BY DEF others, Others
<1>14. Context!FlakeIsAlternationOfOthers'
  <2> SUFFICES ASSUME Context!DetectFlake(page)
               PROVE  Context!FlakeIsAlternationOfOthers'
    BY <1>6 DEF Context!FlakeIsAlternationOfOthers
  <2>1. /\ Cardinality(others) >= MinStatuses
        /\ \A i, j \in others :
             (i < j /\ \A k \in others : k <= i \/ j <= k) =>
               \/ page[i].status # page[j].status
               \/ Cardinality({k \in others : k < j}) >= MaxStatuses
    BY <1>12 DEF Rank
  <2>2. \A t : Context!Finished(t)' = Context!Finished(t)
    BY DEF Context!Finished
  <2>3. QED
    BY <1>6, <1>13, <2>1, ContextCardinality DEF Context!FlakeIsAlternationOfOthers
<1>15. QED
  BY <1>9, <1>14

-----------------------------------------------------------------------------
(* All of it.                                                               *)
-----------------------------------------------------------------------------
(* The three results, and their types; a call makes one of them.            *)
EnrichmentInv ==
  /\ Context!ExtractKeepsTailAndFirstErrors
  /\ Context!DiffIsWholeOrAbsent
  /\ Context!FlakeIsAlternationOfOthers
  /\ Context!TypeOK

(* Before the first call there is no result.                                *)
LEMMA EnrichmentInitInv == Context!Init => EnrichmentInv
BY DEF Context!Init, EnrichmentInv, Context!TypeOK, Context!ExtractKeepsTailAndFirstErrors,
       Context!DiffIsWholeOrAbsent, Context!FlakeIsAlternationOfOthers

(* Each call makes a result that is faithful.                               *)
LEMMA EnrichmentNextInv == EnrichmentInv /\ [Context!Next]_contextVars => EnrichmentInv'
<1> SUFFICES ASSUME EnrichmentInv, [Context!Next]_contextVars PROVE EnrichmentInv'
  OBVIOUS
<1>1. CASE UNCHANGED contextVars
  <2>1. call' = call
    BY <1>1 DEF contextVars
  <2>2. QED
    BY <2>1 DEF EnrichmentInv, Context!TypeOK, Context!ExtractKeepsTailAndFirstErrors,
       Context!DiffIsWholeOrAbsent, Context!FlakeIsAlternationOfOthers, Context!NearHit
<1>2. CASE Context!FetchFailedJobLogs
  <2>1. call'.of = "log"
    BY <1>2, LogIsRead
  <2>2. Context!ExtractKeepsTailAndFirstErrors' /\ Context!TypeOK'
    BY <1>2, LogExtractIsFaithful
  <2>3. Context!DiffIsWholeOrAbsent' /\ Context!FlakeIsAlternationOfOthers'
    BY <2>1 DEF Context!DiffIsWholeOrAbsent, Context!FlakeIsAlternationOfOthers
  <2>4. QED
    BY <2>2, <2>3 DEF EnrichmentInv
<1>3. CASE Context!FetchCommitDiff
  <2>1. call'.of = "diff"
    BY <1>3 DEF Context!FetchCommitDiff
  <2>2. Context!DiffIsWholeOrAbsent' /\ Context!TypeOK'
    BY <1>3, CommitDiffIsFaithful
  <2>3. Context!ExtractKeepsTailAndFirstErrors' /\ Context!FlakeIsAlternationOfOthers'
    BY <2>1 DEF Context!ExtractKeepsTailAndFirstErrors, Context!FlakeIsAlternationOfOthers
  <2>4. QED
    BY <2>2, <2>3 DEF EnrichmentInv
<1>4. CASE Context!FetchHistory
  <2>1. call'.of = "flake"
    BY <1>4 DEF Context!FetchHistory
  <2>2. Context!FlakeIsAlternationOfOthers' /\ Context!TypeOK'
    BY <1>4, FlakeIsFaithful
  <2>3. Context!ExtractKeepsTailAndFirstErrors' /\ Context!DiffIsWholeOrAbsent'
    BY <2>1 DEF Context!ExtractKeepsTailAndFirstErrors, Context!DiffIsWholeOrAbsent
  <2>4. QED
    BY <2>2, <2>3 DEF EnrichmentInv
<1>5. QED
  BY <1>1, <1>2, <1>3, <1>4 DEF Context!Next
=============================================================================
