----------------------------- MODULE LogProofs -----------------------------
(***************************************************************************)
(* The logs adapter: invariants of its three parts that every step keeps,   *)
(* for every set of patterns, sources, inodes and commands, every number of *)
(* lines and every capacity.  SignalsProofs makes theorems of them.         *)
(***************************************************************************)
EXTENDS MCSignals, TLAPS, FiniteSetTheorems, SequenceTheorems

(***************************************************************************)
(* Counting from the top: in a finite set of numbers every rank is taken.   *)
(* The ranks are as many as the elements and no two elements share one.     *)
(***************************************************************************)
LEMMA RankOfElement ==
  ASSUME NEW S \in SUBSET Nat, IsFiniteSet(S), NEW n \in S
  PROVE  Cardinality({m \in S : m > n}) \in 0..(Cardinality(S) - 1)
<1> DEFINE above == {m \in S : m > n}
<1>1. above \subseteq S \ {n}
  OBVIOUS
<1>2. IsFiniteSet(S \ {n}) /\ Cardinality(S \ {n}) = Cardinality(S) - 1
  BY FS_RemoveElement
<1>3. IsFiniteSet(above) /\ Cardinality(above) <= Cardinality(S \ {n})
  BY <1>1, <1>2, FS_Subset
<1>4. Cardinality(above) \in Nat /\ Cardinality(S) \in Nat
  BY <1>3, FS_CardinalityType
<1>5. QED
  BY <1>2, <1>3, <1>4

LEMMA RanksDiffer ==
  ASSUME NEW S \in SUBSET Nat, IsFiniteSet(S), NEW n \in S, NEW k \in S, n < k
  PROVE  Cardinality({m \in S : m > n}) # Cardinality({m \in S : m > k})
<1> DEFINE aboveN == {m \in S : m > n}
           aboveK == {m \in S : m > k}
<1>1. \A m \in S : m > k => m > n
  <2>1. TAKE m \in S
  <2>2. m \in Nat /\ n \in Nat /\ k \in Nat
    OBVIOUS
  <2>3. QED
    BY <2>2
<1>2. k > n /\ ~ (k > k)
  <2>1. n \in Nat /\ k \in Nat
    OBVIOUS
  <2>2. QED
    BY <2>1
<1>3. aboveK \subseteq aboveN /\ k \in aboveN /\ k \notin aboveK
  BY <1>1, <1>2
<1>4. IsFiniteSet(aboveN)
  BY FS_Subset
<1>5. QED
  BY <1>3, <1>4, FS_Subset

LEMMA EveryRankIsTaken ==
  ASSUME NEW S \in SUBSET Nat, IsFiniteSet(S), NEW i \in 0..(Cardinality(S) - 1)
  PROVE  \E n \in S : Cardinality({m \in S : m > n}) = i
<1> DEFINE ranks == 0..(Cardinality(S) - 1)
           rank == [n \in S |-> Cardinality({m \in S : m > n})]
<1>1. Cardinality(S) \in Nat
  BY FS_CardinalityType
<1>2. IsFiniteSet(ranks) /\ Cardinality(ranks) = Cardinality(S)
  BY <1>1, FS_Interval
<1>3. rank \in [S -> ranks]
  BY RankOfElement
<1>4. ASSUME NEW n \in S, NEW k \in S, n # k PROVE rank[n] # rank[k]
  BY <1>4, RanksDiffer
<1>5. rank \in Injection(S, ranks)
  BY <1>3, <1>4 DEF Injection, IsInjective
<1>6. rank \in Surjection(S, ranks)
  BY <1>2, <1>5, FS_Injection
<1>7. QED
  BY <1>6 DEF Surjection

-----------------------------------------------------------------------------
(***************************************************************************)
(* The log rules.  The window of the rate rule is pruned only when a line   *)
(* is added, so it may hold lines that no longer count; what it must agree  *)
(* on with all matching lines since the rule was armed is, for every age    *)
(* within the window, how many lines are younger (SameCounts): that is what *)
(* a tick of the clock, a line and a pruning preserve.                      *)
(***************************************************************************)
Instants(ages, limit) == {i \in DOMAIN ages : ages[i] < limit}
Count(ages, limit) == Cardinality(Instants(ages, limit))

Ages == 0..Matcher!Oldest

SameCounts == \A w \in 0..RateWindow : Count(matches, w) = Count(burst, w)

RateRule ==
  /\ armed["rate"] => Threshold > 0
  /\ ~ armed["rate"] => matches = << >> /\ burst = << >>

QuietWhenArmed ==
  \A r \in Matcher!LogRules :
    age[r] = silence[r] /\ (armed[r] => silence[r] >= Matcher!QuietOf(r))

MatcherInv ==
  Matcher!TypeOK /\ SameCounts /\ RateRule /\ QuietWhenArmed /\ NoBurstMissed

LEMMA MatcherCardinality == ASSUME NEW S PROVE Matcher!Cardinality(S) = Cardinality(S)
BY DEF Matcher!Cardinality, Cardinality

LEMMA MatcherConstants ==
  /\ RateWindow \in Nat \ {0} /\ RateQuiet \in Nat \ {0} /\ Threshold \in Nat
  /\ Quiet \in [Patterns -> Nat \ {0}] /\ "rate" \notin Patterns
  /\ IsFiniteSet(Matcher!LogRules)
<1>1. IsFiniteSet(Patterns)
  BY PartAssumptions DEF Matcher!MatcherAssumption, Matcher!IsFiniteSet, IsFiniteSet
<1>2. IsFiniteSet(Matcher!LogRules)
  BY <1>1, FS_AddElement DEF Matcher!LogRules
<1>3. QED
  BY <1>2, PartAssumptions DEF Matcher!MatcherAssumption

LEMMA QuietIsPositive == \A r \in Matcher!LogRules : Matcher!QuietOf(r) \in Nat \ {0}
BY MatcherConstants DEF Matcher!LogRules, Matcher!QuietOf

LEMMA CountType ==
  ASSUME NEW ages \in Seq(Ages), NEW limit \in Nat
  PROVE  IsFiniteSet(Instants(ages, limit)) /\ Count(ages, limit) \in Nat
         /\ Instants(ages, limit) \in SUBSET Nat
<1>1. DOMAIN ages = 1..Len(ages) /\ Len(ages) \in Nat
  BY LenProperties
<1>2. IsFiniteSet(DOMAIN ages)
  BY <1>1, FS_Interval
<1>3. Instants(ages, limit) \in SUBSET DOMAIN ages
  BY DEF Instants
<1>4. IsFiniteSet(Instants(ages, limit)) /\ Cardinality(Instants(ages, limit)) \in Nat
  BY <1>2, <1>3, FS_Subset, FS_CardinalityType
<1>5. QED
  BY <1>1, <1>3, <1>4 DEF Count

LEMMA FewerAreYounger ==
  ASSUME NEW ages \in Seq(Ages), NEW v \in Nat, NEW w \in Nat, v <= w
  PROVE  Count(ages, v) <= Count(ages, w)
<1>1. Instants(ages, v) \in SUBSET Instants(ages, w)
  <2>1. \A i \in DOMAIN ages : ages[i] \in Ages
    BY LenProperties, ElementOfSeq
  <2>2. Ages \subseteq Nat
    BY MatcherConstants DEF Ages, Matcher!Oldest
  <2>3. \A a \in Nat : a < v => a < w
    OBVIOUS
  <2>4. QED
    BY <2>1, <2>2, <2>3 DEF Instants
<1>2. QED
  BY <1>1, CountType, FS_Subset DEF Count

(* Younger keeps the ages below its limit, each once: its j-th entry is the *)
(* entry with as many kept ones behind it as there are beyond j.            *)
LEMMA YoungerCounts ==
  ASSUME NEW ages \in Seq(Ages), NEW limit \in Nat
  PROVE  /\ Matcher!Younger(ages, limit) \in Seq(Ages)
         /\ Len(Matcher!Younger(ages, limit)) = Count(ages, limit)
         /\ \A w \in 0..limit : Count(Matcher!Younger(ages, limit), w) = Count(ages, w)
<1> DEFINE kept == Instants(ages, limit)
           size == Cardinality(kept)
           place(j) == CHOOSE i \in kept : Cardinality({k \in kept : k > i}) = size - j
           nth == [j \in 1..size |-> place(j)]
           young == [j \in 1..size |-> ages[nth[j]]]
<1>1. IsFiniteSet(kept) /\ kept \in SUBSET Nat /\ size \in Nat
  BY CountType DEF Count
<1>2. Matcher!Younger(ages, limit) = young
  <2>1. Matcher!Younger(ages, limit) = [j \in 1..size |-> ages[place(j)]]
    BY DEF Matcher!Younger, Matcher!Cardinality, Cardinality, Instants
  <2> HIDE DEF place
  <2>2. \A j \in 1..size : nth[j] = place(j)
    OBVIOUS
  <2>3. QED
    BY <2>1, <2>2
<1>3. ASSUME NEW j \in 1..size
      PROVE  nth[j] \in kept /\ Cardinality({k \in kept : k > nth[j]}) = size - j
  <2>1. size - j \in 0..(size - 1)
    BY <1>1
  <2>2. \E i \in kept : Cardinality({k \in kept : k > i}) = size - j
    BY <1>1, <2>1, EveryRankIsTaken
  <2>3. place(j) \in kept /\ Cardinality({k \in kept : k > place(j)}) = size - j
    BY <2>2
  <2>4. nth[j] = place(j)
    OBVIOUS
  <2>5. QED
    BY <2>3, <2>4
<1> HIDE DEF place
<1>4. nth \in [1..size -> kept] /\ DOMAIN nth = 1..size
  BY <1>3
<1> HIDE DEF nth
<1>5. ASSUME NEW i \in 1..size, NEW j \in 1..size, nth[i] = nth[j] PROVE i = j
  <2>1. size - i = size - j
    BY <1>3, <1>5
  <2>2. QED
    BY <1>1, <2>1
<1>6. nth \in Injection(1..size, kept)
  BY <1>4, <1>5 DEF Injection, IsInjective
<1>7. nth \in Surjection(1..size, kept)
  <2>1. IsFiniteSet(1..size) /\ Cardinality(1..size) = size
    BY <1>1, FS_Interval
  <2>2. QED
    BY <1>1, <1>6, <2>1, FS_Injection
<1>8. \A i \in kept : \E j \in 1..size : nth[j] = i
  BY <1>7 DEF Surjection
<1>9. \A i \in kept : i \in DOMAIN ages /\ ages[i] \in Ages
  BY LenProperties, ElementOfSeq DEF Instants
<1>10. young \in [1..size -> Ages]
  BY <1>3, <1>9
<1>11. young \in Seq(Ages) /\ Len(young) = size /\ DOMAIN young = 1..size
  BY <1>1, <1>10, SeqDef
<1>12. ASSUME NEW w \in 0..limit PROVE Count(young, w) = Count(ages, w)
  <2> DEFINE J == Instants(young, w)
             I == Instants(ages, w)
             f == [j \in J |-> nth[j]]
  <2>1. J = {j \in 1..size : ages[nth[j]] < w}
    BY <1>11 DEF Instants
  <2>2. I = {i \in kept : ages[i] < w}
    <3>1. \A i \in DOMAIN ages : ages[i] \in Ages
      BY LenProperties, ElementOfSeq
    <3>2. Ages \subseteq Nat
      BY MatcherConstants DEF Ages, Matcher!Oldest
    <3>3. \A a \in Nat : a < w => a < limit
      OBVIOUS
    <3>4. QED
      BY <3>1, <3>2, <3>3 DEF Instants
  <2>3. f \in [J -> I]
    BY <1>3, <2>1, <2>2
  <2>4. f \in Injection(J, I)
    BY <1>5, <2>1, <2>3 DEF Injection, IsInjective
  <2>5. f \in Surjection(J, I)
    BY <1>8, <2>1, <2>2, <2>3 DEF Surjection
  <2>6. ExistsBijection(J, I)
    BY <2>4, <2>5 DEF ExistsBijection, Bijection
  <2>7. IsFiniteSet(J)
    BY <1>11, CountType
  <2>8. QED
    BY <2>6, <2>7, FS_Bijection DEF Count
<1>13. QED
  BY <1>2, <1>11, <1>12 DEF Count

(* A matching line counts once at every age.                               *)
LEMMA AppendCounts ==
  ASSUME NEW ages \in Seq(Ages), NEW w \in Nat
  PROVE  Count(Append(ages, 0), w) = IF w = 0 THEN Count(ages, w) ELSE Count(ages, w) + 1
<1> DEFINE longer == Append(ages, 0)
           n == Len(ages)
<1>1. 0 \in Ages
  BY MatcherConstants DEF Ages, Matcher!Oldest
<1>2. /\ longer \in Seq(Ages) /\ Len(longer) = n + 1 /\ n \in Nat
      /\ longer[n + 1] = 0 /\ \A i \in 1..n : longer[i] = ages[i]
  BY <1>1, AppendProperties, LenProperties
<1>3. DOMAIN longer = 1..(n + 1) /\ DOMAIN ages = 1..n
  BY <1>2, LenProperties
<1> HIDE DEF longer, n
<1>4. 1..(n + 1) = 1..n \cup {n + 1} /\ n + 1 \notin 1..n
  BY <1>2
<1>5. Instants(longer, w) = Instants(ages, w) \cup {i \in {n + 1} : 0 < w}
  BY <1>2, <1>3, <1>4 DEF Instants
<1>6. n + 1 \notin Instants(ages, w) /\ IsFiniteSet(Instants(ages, w))
  BY <1>3, <1>4, CountType DEF Instants
<1>7. CASE w = 0
  <2>1. {i \in {n + 1} : 0 < w} = {}
    BY <1>7
  <2>2. QED
    BY <1>5, <1>7, <2>1 DEF Count, longer
<1>8. CASE w # 0
  <2>1. Instants(longer, w) = Instants(ages, w) \cup {n + 1}
    BY <1>5, <1>8
  <2>2. QED
    BY <1>6, <1>8, <2>1, FS_AddElement DEF Count, longer
<1>9. QED
  BY <1>7, <1>8

(* A tick later as many lines are younger than w as were younger than w - 1.*)
LEMMA TickCounts ==
  ASSUME NEW ages \in Seq(Ages), NEW w \in 1..Matcher!Oldest
  PROVE  LET ticked == [i \in DOMAIN ages |-> Matcher!Older(ages[i], Matcher!Oldest)]
         IN  ticked \in Seq(Ages) /\ Count(ticked, w) = Count(ages, w - 1)
             /\ Count(ticked, 0) = 0
<1> DEFINE ticked == [i \in DOMAIN ages |-> Matcher!Older(ages[i], Matcher!Oldest)]
<1>1. Matcher!Oldest \in Nat /\ Matcher!Oldest = RateWindow + 1
  BY MatcherConstants DEF Matcher!Oldest
<1>2. DOMAIN ages = 1..Len(ages) /\ Len(ages) \in Nat /\ \A i \in DOMAIN ages : ages[i] \in Ages
  BY LenProperties, ElementOfSeq
<1>3. \A a \in Ages : /\ Matcher!Older(a, Matcher!Oldest) \in Ages
                      /\ Matcher!Older(a, Matcher!Oldest) < w <=> a < w - 1
                      /\ ~ (Matcher!Older(a, Matcher!Oldest) < 0)
  BY <1>1 DEF Ages, Matcher!Older
<1>4. ticked \in [1..Len(ages) -> Ages]
  BY <1>2, <1>3
<1>5. ticked \in Seq(Ages) /\ DOMAIN ticked = DOMAIN ages
  BY <1>2, <1>4, SeqDef
<1>6. Instants(ticked, w) = Instants(ages, w - 1)
  BY <1>2, <1>3 DEF Instants
<1>7. Instants(ticked, 0) = {}
  BY <1>2, <1>3 DEF Instants
<1>8. QED
  BY <1>5, <1>6, <1>7, FS_EmptySet DEF Count

LEMMA NothingCounts == \A w \in Nat : Count(<< >>, w) = 0
<1>1. \A w \in Nat : Instants(<< >>, w) = {}
  BY DEF Instants
<1>2. QED
  BY <1>1, FS_EmptySet DEF Count

LEMMA InWindowCounts ==
  \A ages \in Seq(Ages) :
    /\ Matcher!InWindow(ages) \in Seq(Ages)
    /\ Len(Matcher!InWindow(ages)) = Count(ages, RateWindow)
    /\ \A w \in 0..RateWindow : Count(Matcher!InWindow(ages), w) = Count(ages, w)
BY MatcherConstants, YoungerCounts DEF Matcher!InWindow

LEMMA WindowWithCounts ==
  ASSUME NEW ages \in Seq(Ages)
  PROVE  /\ Matcher!WindowWith(ages) \in Seq(Ages)
         /\ Len(Matcher!WindowWith(ages)) = Count(ages, RateWindow) + 1
         /\ \A w \in 0..RateWindow :
              Count(Matcher!WindowWith(ages), w) = IF w = 0 THEN Count(ages, w) ELSE Count(ages, w) + 1
<1>1. 0 \in Ages
  BY MatcherConstants DEF Ages, Matcher!Oldest
<1> DEFINE young == Matcher!InWindow(ages)
<1>2. /\ young \in Seq(Ages) /\ Len(young) = Count(ages, RateWindow)
      /\ \A w \in 0..RateWindow : Count(young, w) = Count(ages, w)
  BY InWindowCounts
<1> HIDE DEF young
<1>3. Append(young, 0) \in Seq(Ages) /\ Len(Append(young, 0)) = Len(young) + 1
  BY <1>1, <1>2, AppendProperties
<1>4. \A w \in 0..RateWindow :
        Count(Append(young, 0), w) = IF w = 0 THEN Count(young, w) ELSE Count(young, w) + 1
  BY <1>2, AppendCounts, MatcherConstants
<1>5. QED
  BY <1>2, <1>3, <1>4 DEF Matcher!WindowWith, young

LEMMA MatcherInitInv == Matcher!Init => MatcherInv
<1> SUFFICES ASSUME Matcher!Init PROVE MatcherInv
  OBVIOUS
<1>1. matches = << >> /\ burst = << >> /\ Threshold \in Nat
  BY MatcherConstants DEF Matcher!Init
<1>2. armed \in [Matcher!LogRules -> BOOLEAN] /\ matched \in [Sources -> Seq(Matcher!LogRules)]
  BY DEF Matcher!Init
<1>3. Matcher!TypeOK
  <2>1. \A r \in Matcher!LogRules :
          age[r] \in 0..Matcher!QuietOf(r) /\ silence[r] \in 0..Matcher!QuietOf(r)
    BY QuietIsPositive DEF Matcher!Init
  <2>2. << >> \in Seq(0..Matcher!Oldest)
    BY EmptySeq
  <2>3. QED
    BY <1>1, <1>2, <2>1, <2>2 DEF Matcher!Init, Matcher!TypeOK
<1>4. SameCounts
  BY <1>1 DEF SameCounts
<1>5. "rate" \in Matcher!LogRules
  BY DEF Matcher!LogRules
<1>6. RateRule
  BY <1>1, <1>5 DEF Matcher!Init, RateRule
<1>7. QuietWhenArmed
  BY QuietIsPositive DEF Matcher!Init, QuietWhenArmed
<1>8. << >> \in Seq(Ages)
  BY EmptySeq
<1>9. Len(Matcher!InWindow(burst)) = 0
  BY <1>1, <1>8, InWindowCounts, NothingCounts, MatcherConstants
<1>10. NoBurstMissed
  BY <1>1, <1>6, <1>9 DEF RateRule, NoBurstMissed, Matcher!NoBurstMissed
<1>11. QED
  BY <1>3, <1>4, <1>6, <1>7, <1>10 DEF MatcherInv

LEMMA TickKeepsInv == MatcherInv /\ Matcher!Tick => MatcherInv'
<1> SUFFICES ASSUME MatcherInv, Matcher!Tick PROVE MatcherInv'
  OBVIOUS
<1> DEFINE ticked(ages) == [i \in DOMAIN ages |-> Matcher!Older(ages[i], Matcher!Oldest)]
<1>1. /\ age' = [r \in Matcher!LogRules |-> Matcher!Older(age[r], Matcher!QuietOf(r))]
      /\ silence' = [r \in Matcher!LogRules |-> Matcher!Older(silence[r], Matcher!QuietOf(r))]
      /\ matches' = ticked(matches)
      /\ burst' = Matcher!Younger(ticked(burst), Matcher!Oldest)
      /\ UNCHANGED <<armed, matched, logsStopped>>
  BY DEF Matcher!Tick
<1>2. matches \in Seq(Ages) /\ burst \in Seq(Ages)
  BY DEF MatcherInv, Matcher!TypeOK, Ages
<1>3. Matcher!Oldest \in Nat /\ RateWindow \in Nat /\ Matcher!Oldest = RateWindow + 1
  BY MatcherConstants DEF Matcher!Oldest
<1>4. \A ages \in Seq(Ages) :
        /\ ticked(ages) \in Seq(Ages) /\ Len(ticked(ages)) = Len(ages)
        /\ Count(ticked(ages), 0) = 0
        /\ \A w \in 1..RateWindow : Count(ticked(ages), w) = Count(ages, w - 1)
  <2>1. TAKE ages \in Seq(Ages)
  <2>2. ticked(ages) \in Seq(Ages) /\ Count(ticked(ages), 0) = 0
    <3>1. 1 \in 1..Matcher!Oldest
      BY <1>3
    <3>2. QED
      BY <3>1, TickCounts
  <2>3. \A w \in 1..RateWindow : Count(ticked(ages), w) = Count(ages, w - 1)
    <3>1. TAKE w \in 1..RateWindow
    <3>2. w \in 1..Matcher!Oldest
      BY <1>3
    <3>3. QED
      BY <3>2, TickCounts
  <2>4. Len(ticked(ages)) = Len(ages)
    <3>1. DOMAIN ticked(ages) = 1..Len(ages) /\ Len(ages) \in Nat
      BY LenProperties
    <3>2. DOMAIN ticked(ages) = 1..Len(ticked(ages)) /\ Len(ticked(ages)) \in Nat
      BY <2>2, LenProperties
    <3>3. QED
      BY <3>1, <3>2
  <2>5. QED
    BY <2>2, <2>3, <2>4
<1> HIDE DEF ticked
<1>5. /\ burst' \in Seq(Ages)
      /\ \A w \in 0..RateWindow : Count(burst', w) = Count(ticked(burst), w)
  <2>1. ticked(burst) \in Seq(Ages)
    BY <1>2, <1>4
  <2>2. \A w \in 0..RateWindow : w \in 0..Matcher!Oldest
    BY <1>3
  <2>3. QED
    BY <1>1, <1>3, <2>1, <2>2, YoungerCounts
<1>6. matches' \in Seq(Ages) /\ Len(matches') = Len(matches)
  BY <1>1, <1>2, <1>4
<1>7. \A w \in 1..RateWindow : Count(matches', w) = Count(matches, w - 1)
                               /\ Count(burst', w) = Count(burst, w - 1)
  <2>1. \A w \in 1..RateWindow : w \in 0..RateWindow
    OBVIOUS
  <2>2. QED
    BY <1>1, <1>2, <1>4, <1>5, <2>1
<1>8. SameCounts'
  <2> SUFFICES ASSUME NEW w \in 0..RateWindow PROVE Count(matches', w) = Count(burst', w)
    BY DEF SameCounts, Count, Instants
  <2>1. CASE w = 0
    BY <1>1, <1>2, <1>4, <1>5, <2>1
  <2>2. CASE w # 0
    <3>1. w \in 1..RateWindow /\ w - 1 \in 0..RateWindow
      BY <1>3, <2>2
    <3>2. QED
      BY <1>7, <3>1 DEF MatcherInv, SameCounts
  <2>3. QED
    BY <2>1, <2>2
<1>9. Len(Matcher!InWindow(burst')) <= Len(Matcher!InWindow(burst))
  <2>1. RateWindow \in 1..RateWindow /\ RateWindow - 1 \in Nat /\ RateWindow - 1 <= RateWindow
    BY MatcherConstants
  <2>2. Count(burst', RateWindow) = Count(burst, RateWindow - 1)
    BY <1>7, <2>1
  <2>3. Count(burst, RateWindow - 1) <= Count(burst, RateWindow)
    BY <1>2, <1>3, <2>1, FewerAreYounger
  <2>4. QED
    BY <1>2, <1>5, <2>2, <2>3, InWindowCounts
<1>10. NoBurstMissed'
  <2>1. /\ Len(Matcher!InWindow(burst')) \in Nat /\ Len(Matcher!InWindow(burst)) \in Nat
        /\ Threshold \in Nat
    BY <1>2, <1>5, InWindowCounts, CountType, MatcherConstants
  <2>2. (Len(Matcher!InWindow(burst)))' = Len(Matcher!InWindow(burst'))
    BY DEF Matcher!InWindow, Matcher!Younger
  <2>3. QED
    BY <1>1, <1>9, <2>1, <2>2 DEF MatcherInv, NoBurstMissed, Matcher!NoBurstMissed
<1>11. RateRule'
  <2> SUFFICES ASSUME ~ armed["rate"] PROVE matches' = << >> /\ burst' = << >>
    BY <1>1 DEF MatcherInv, RateRule
  <2>1. matches = << >> /\ burst = << >>
    BY DEF MatcherInv, RateRule
  <2>2. matches' = << >>
    BY <1>1, <2>1 DEF ticked
  <2>3. ticked(burst) = << >>
    BY <2>1 DEF ticked
  <2>4. << >> \in Seq(Ages)
    BY EmptySeq
  <2>5. Len(burst') = Count(<< >>, Matcher!Oldest)
    BY <1>1, <1>3, <2>3, <2>4, YoungerCounts
  <2>6. Len(burst') = 0
    BY <1>3, <2>5, NothingCounts
  <2>7. QED
    BY <1>5, <2>2, <2>6, EmptySeq
<1>12. \A r \in Matcher!LogRules :
         /\ age'[r] \in 0..Matcher!QuietOf(r) /\ age'[r] = silence'[r]
         /\ silence[r] >= Matcher!QuietOf(r) => silence'[r] >= Matcher!QuietOf(r)
  <2>1. TAKE r \in Matcher!LogRules
  <2>2. /\ age[r] \in 0..Matcher!QuietOf(r) /\ age[r] = silence[r] /\ Matcher!QuietOf(r) \in Nat
    BY QuietIsPositive DEF MatcherInv, Matcher!TypeOK, QuietWhenArmed
  <2>3. QED
    BY <1>1, <2>2 DEF Matcher!Older
<1>13. QuietWhenArmed'
  BY <1>1, <1>12 DEF MatcherInv, QuietWhenArmed, Matcher!QuietOf, Matcher!LogRules
<1>14. Matcher!TypeOK'
  <2>1. \A r \in Matcher!LogRules :
          age'[r] \in 0..Matcher!QuietOf(r) /\ silence'[r] \in 0..Matcher!QuietOf(r)
    BY <1>12
  <2>2. Len(matches') < Threshold \/ matches' = << >>
    BY <1>2, <1>6, EmptySeq DEF MatcherInv, Matcher!TypeOK
  <2>3. QED
    BY <1>1, <1>5, <1>6, <2>1, <2>2 DEF MatcherInv, Matcher!TypeOK, Ages
<1>15. QED
  BY <1>8, <1>10, <1>11, <1>13, <1>14 DEF MatcherInv

(* A line is counted by the rule and by the ghost alike, or fires the rule. *)
LEMMA LineKeepsInv ==
  ASSUME NEW src \in Sources, NEW hits \in SUBSET Patterns
  PROVE  MatcherInv /\ Matcher!ProcessLine(src, hits) => MatcherInv'
<1> SUFFICES ASSUME MatcherInv, Matcher!ProcessLine(src, hits) PROVE MatcherInv'
  OBVIOUS
<1> DEFINE fired == Matcher!Fires(hits)
           counted == armed["rate"] /\ Threshold > 0 /\ hits # {}
<1>1. /\ armed' = [r \in Matcher!LogRules |-> armed[r] /\ r \notin fired]
      /\ age' = [r \in Matcher!LogRules |-> IF r \in fired THEN 0 ELSE age[r]]
      /\ matches' = IF "rate" \in fired THEN << >>
                    ELSE IF counted THEN Matcher!WindowWith(matches) ELSE matches
      /\ \E s \in Matcher!Signals(fired) : matched' = [matched EXCEPT ![src] = s]
      /\ silence' = [r \in Matcher!LogRules |-> IF r \in fired THEN 0 ELSE silence[r]]
      /\ burst' = IF "rate" \in fired THEN << >>
                  ELSE IF counted THEN Append(burst, 0) ELSE burst
      /\ UNCHANGED logsStopped
  BY DEF Matcher!ProcessLine, Matcher!Stamped
<1>2. matches \in Seq(Ages) /\ burst \in Seq(Ages) /\ Threshold \in Nat /\ 0 \in Ages
  BY MatcherConstants DEF MatcherInv, Matcher!TypeOK, Ages, Matcher!Oldest
<1>3. "rate" \in Matcher!LogRules /\ fired \subseteq Matcher!LogRules
  BY DEF Matcher!Fires, Matcher!LogRules
<1>4. "rate" \notin fired /\ counted => Len(Matcher!WindowWith(matches)) < Threshold
  <2>1. Len(Matcher!WindowWith(matches)) \in Nat
    BY <1>2, WindowWithCounts, LenProperties
  <2>2. "rate" \notin fired /\ counted => ~ (Len(Matcher!WindowWith(matches)) >= Threshold)
    BY DEF Matcher!Fires
  <2>3. QED
    BY <1>2, <2>1, <2>2
<1>5. "rate" \in fired => armed["rate"]
  BY MatcherConstants DEF Matcher!Fires
<1>6. matched' \in [Sources -> Seq(Matcher!LogRules)]
  <2>1. PICK s \in Matcher!Signals(fired) : matched' = [matched EXCEPT ![src] = s]
    BY <1>1
  <2>2. Matcher!Cardinality(fired) \in Nat
    BY <1>3, MatcherConstants, MatcherCardinality, FS_Subset, FS_CardinalityType
  <2>3. s \in [1..Matcher!Cardinality(fired) -> Matcher!LogRules]
    BY <1>3 DEF Matcher!Signals
  <2>4. s \in Seq(Matcher!LogRules)
    BY <2>2, <2>3, SeqDef
  <2>5. QED
    BY <2>1, <2>4 DEF MatcherInv, Matcher!TypeOK
<1> HIDE DEF fired
<1>7. RateRule'
  BY <1>1, <1>3 DEF MatcherInv, RateRule
<1>8. QuietWhenArmed'
  BY <1>1, <1>3 DEF MatcherInv, QuietWhenArmed, Matcher!QuietOf, Matcher!LogRules
<1>9. matches' \in Seq(Ages) /\ burst' \in Seq(Ages)
  BY <1>1, <1>2, WindowWithCounts, AppendProperties, EmptySeq
<1>10. Len(matches') < Threshold \/ matches' = << >>
  BY <1>1, <1>4 DEF MatcherInv, Matcher!TypeOK
<1>11. Matcher!TypeOK'
  <2>1. \A r \in Matcher!LogRules :
          age'[r] \in 0..Matcher!QuietOf(r) /\ silence'[r] \in 0..Matcher!QuietOf(r)
    BY <1>1, QuietIsPositive DEF MatcherInv, Matcher!TypeOK
  <2>2. armed' \in [Matcher!LogRules -> BOOLEAN]
    BY <1>1
  <2>3. QED
    BY <1>1, <1>6, <1>9, <1>10, <2>1, <2>2 DEF MatcherInv, Matcher!TypeOK, Ages
<1>12. \A w \in 0..RateWindow : Count(matches', w) = Count(burst', w)
  <2>1. TAKE w \in 0..RateWindow
  <2>2. w \in Nat /\ Count(matches, w) = Count(burst, w)
    BY MatcherConstants DEF MatcherInv, SameCounts
  <2>3. Count(Matcher!WindowWith(matches), w) = Count(Append(burst, 0), w)
    BY <1>2, <2>2, WindowWithCounts, AppendCounts
  <2>4. CASE "rate" \in fired
    BY <1>1, <2>4
  <2>5. CASE "rate" \notin fired
    BY <1>1, <2>2, <2>3, <2>5
  <2>6. QED
    BY <2>4, <2>5
<1>13. SameCounts'
  BY <1>12 DEF SameCounts, Count, Instants
<1>14. Len(Matcher!InWindow(burst')) < Threshold \/ ~ armed'["rate"]
  <2>1. CASE "rate" \in fired
    BY <1>1, <1>3, <2>1
  <2>2. CASE "rate" \notin fired /\ counted
    <3>1. RateWindow \in 0..RateWindow /\ RateWindow # 0 /\ RateWindow \in Nat
      BY MatcherConstants
    <3>2. Len(Matcher!InWindow(burst')) = Count(burst, RateWindow) + 1
      BY <1>1, <1>2, <1>9, <2>2, <3>1, InWindowCounts, AppendCounts
    <3>3. Len(Matcher!WindowWith(matches)) = Count(burst, RateWindow) + 1
      BY <1>2, <3>1, WindowWithCounts DEF MatcherInv, SameCounts
    <3>4. QED
      BY <1>4, <2>2, <3>2, <3>3
  <2>3. CASE "rate" \notin fired /\ ~ counted
    BY <1>1, <1>3, <2>3 DEF MatcherInv, NoBurstMissed, Matcher!NoBurstMissed
  <2>4. QED
    BY <2>1, <2>2, <2>3
<1>15. NoBurstMissed'
  <2>1. (Len(Matcher!InWindow(burst)))' = Len(Matcher!InWindow(burst'))
    BY DEF Matcher!InWindow, Matcher!Younger
  <2>2. QED
    BY <1>14, <2>1 DEF NoBurstMissed, Matcher!NoBurstMissed
<1>16. QED
  BY <1>7, <1>8, <1>11, <1>13, <1>15 DEF MatcherInv

LEMMA RearmKeepsInv == MatcherInv /\ Matcher!Rearm => MatcherInv'
<1> SUFFICES ASSUME MatcherInv, Matcher!Rearm PROVE MatcherInv'
  OBVIOUS
<1>1. /\ armed' = [r \in Matcher!LogRules |-> armed[r] \/ r \in Matcher!Rearmed]
      /\ UNCHANGED <<age, matches, matched, logsStopped, silence, burst>>
  BY DEF Matcher!Rearm
<1>2. "rate" \in Matcher!LogRules
  BY DEF Matcher!LogRules
<1>3. Matcher!TypeOK'
  BY <1>1 DEF MatcherInv, Matcher!TypeOK
<1>4. SameCounts' /\ QuietWhenArmed'
  BY <1>1 DEF MatcherInv, SameCounts, QuietWhenArmed, Matcher!Rearmed, Count, Instants
<1>5. RateRule'
  BY <1>1, <1>2 DEF MatcherInv, RateRule, Matcher!Rearmed
<1>6. NoBurstMissed'
  <2>1. CASE armed["rate"]
    BY <1>1, <2>1 DEF MatcherInv, NoBurstMissed, Matcher!NoBurstMissed
  <2>2. CASE ~ armed["rate"] /\ armed'["rate"]
    <3>1. burst = << >> /\ Threshold > 0
      BY <1>5, <2>2 DEF MatcherInv, RateRule
    <3>2. Len(Matcher!InWindow(burst)) = 0
      BY <3>1, EmptySeq, InWindowCounts, NothingCounts, MatcherConstants
    <3>3. QED
      BY <1>1, <3>1, <3>2 DEF NoBurstMissed, Matcher!NoBurstMissed
  <2>3. CASE ~ armed'["rate"]
    BY <2>3 DEF NoBurstMissed, Matcher!NoBurstMissed
  <2>4. QED
    BY <2>1, <2>2, <2>3
<1>7. QED
  BY <1>3, <1>4, <1>5, <1>6 DEF MatcherInv

LEMMA SendSignalTail ==
  ASSUME NEW src \in Sources, Matcher!TypeOK, Matcher!SendSignal(src)
  PROVE  /\ matched' \in [Sources -> Seq(Matcher!LogRules)]
         /\ \A s \in Sources : Len(matched'[s]) <= Len(matched[s])
<1>1. matched \in [Sources -> Seq(Matcher!LogRules)]
  BY DEF Matcher!TypeOK
<1>2. matched[src] # << >> /\ Tail(matched[src]) \in Seq(Matcher!LogRules)
      /\ Len(Tail(matched[src])) <= Len(matched[src])
  BY <1>1, HeadTailProperties, LenProperties DEF Matcher!SendSignal
<1>3. PICK rest \in Seq(Matcher!LogRules) :
        matched' = [matched EXCEPT ![src] = rest] /\ Len(rest) <= Len(matched[src])
  <2>1. CASE matched' = [matched EXCEPT ![src] = Tail(@)]
    BY <1>2, <2>1
  <2>2. CASE matched' = [matched EXCEPT ![src] = << >>]
    <3>1. << >> \in Seq(Matcher!LogRules) /\ Len(<< >>) = 0
      BY EmptySeq
    <3>2. Len(matched[src]) \in Nat
      BY <1>1, LenProperties
    <3>3. Len(<< >>) <= Len(matched[src])
      BY <3>1, <3>2
    <3>4. QED
      BY <2>2, <3>1, <3>3
  <2>3. QED
    BY <2>1, <2>2 DEF Matcher!SendSignal
<1>4. \A s \in Sources : Len(matched[s]) \in Nat
  BY <1>1, LenProperties
<1>5. QED
  BY <1>1, <1>3, <1>4

LEMMA MatcherNextInv == MatcherInv /\ [Matcher!Next]_matcherVars => MatcherInv'
<1> SUFFICES ASSUME MatcherInv, [Matcher!Next]_matcherVars PROVE MatcherInv'
  OBVIOUS
<1> USE DEF MatcherInv, Matcher!TypeOK, SameCounts, RateRule, QuietWhenArmed, NoBurstMissed,
            Matcher!NoBurstMissed, Count, Instants
<1>1. CASE Matcher!Stop
  BY <1>1 DEF Matcher!Stop
<1>2. ASSUME NEW src \in Sources, Matcher!SendSignal(src) PROVE MatcherInv'
  <2>1. UNCHANGED <<armed, age, matches, logsStopped, silence, burst>>
    BY <1>2 DEF Matcher!SendSignal
  <2>2. matched' \in [Sources -> Seq(Matcher!LogRules)]
    BY <1>2, SendSignalTail
  <2>3. QED
    BY <2>1, <2>2
<1>3. CASE UNCHANGED matcherVars
  BY <1>3 DEF matcherVars
<1> QED
  BY <1>1, <1>2, <1>3, TickKeepsInv, RearmKeepsInv, LineKeepsInv DEF Matcher!Next

(* A rule fires when a line is processed, armed, and the rate rule only     *)
(* when the line completes a burst.                                         *)
LEMMA FiringIsDue ==
  MatcherInv /\ [Matcher!Next]_matcherVars =>
    /\ \A r \in Matcher!LogRules : Matcher!Firing(r) => silence[r] >= Matcher!QuietOf(r)
    /\ Matcher!Firing("rate") => Len(Matcher!InWindow(burst)) + 1 >= Threshold
<1> SUFFICES ASSUME MatcherInv, [Matcher!Next]_matcherVars,
                    NEW r \in Matcher!LogRules, Matcher!Firing(r)
             PROVE  /\ silence[r] >= Matcher!QuietOf(r)
                    /\ r = "rate" => Len(Matcher!InWindow(burst)) + 1 >= Threshold
  BY DEF Matcher!LogRules
<1>1. PICK src \in Sources :
        /\ Len(matched'[src]) > Len(matched[src])
        /\ \E i \in DOMAIN matched'[src] : matched'[src][i] = r
  BY DEF Matcher!Firing
<1>2. \A s \in Sources : matched[s] \in Seq(Matcher!LogRules) /\ Len(matched[s]) \in Nat
  BY LenProperties DEF MatcherInv, Matcher!TypeOK
<1>3. matched' # matched
  BY <1>1, <1>2
<1>4. ~ \E s \in Sources : Matcher!SendSignal(s)
  <2> SUFFICES ASSUME NEW s \in Sources, Matcher!SendSignal(s) PROVE FALSE
    OBVIOUS
  <2>1. /\ matched' \in [Sources -> Seq(Matcher!LogRules)]
        /\ Len(matched'[src]) <= Len(matched[src])
    BY SendSignalTail DEF MatcherInv
  <2>2. Len(matched'[src]) \in Nat
    BY <2>1, LenProperties
  <2>3. QED
    BY <1>1, <1>2, <2>1, <2>2
<1>5. PICK s \in Sources, hits \in SUBSET Patterns : Matcher!ProcessLine(s, hits)
  <2>1. ~ Matcher!Tick /\ ~ Matcher!Rearm /\ ~ Matcher!Stop /\ ~ UNCHANGED matcherVars
    BY <1>3 DEF Matcher!Tick, Matcher!Rearm, Matcher!Stop, matcherVars
  <2>2. QED
    BY <1>4, <2>1 DEF Matcher!Next
<1>6. r \in Matcher!Fires(hits)
  <2>1. PICK f \in Matcher!Signals(Matcher!Fires(hits)) : matched' = [matched EXCEPT ![s] = f]
    BY <1>5 DEF Matcher!ProcessLine
  <2>2. matched'[src] = f
    BY <1>1, <1>2, <2>1 DEF MatcherInv, Matcher!TypeOK
  <2>3. \A i \in DOMAIN f : f[i] \in Matcher!Fires(hits)
    BY DEF Matcher!Signals
  <2>4. QED
    BY <1>1, <2>2, <2>3
<1>7. armed[r]
  BY <1>6 DEF Matcher!Fires
<1>8. silence[r] >= Matcher!QuietOf(r)
  BY <1>7 DEF MatcherInv, QuietWhenArmed
<1>9. ASSUME r = "rate" PROVE Len(Matcher!InWindow(burst)) + 1 >= Threshold
  <2>1. Len(Matcher!WindowWith(matches)) >= Threshold
    BY <1>6, <1>9, MatcherConstants DEF Matcher!Fires
  <2>2. matches \in Seq(Ages) /\ burst \in Seq(Ages)
    BY DEF MatcherInv, Matcher!TypeOK, Ages
  <2>3. RateWindow \in 0..RateWindow
    BY MatcherConstants
  <2>4. Len(Matcher!WindowWith(matches)) = Len(Matcher!InWindow(burst)) + 1
    BY <2>2, <2>3, WindowWithCounts, InWindowCounts DEF MatcherInv, SameCounts
  <2>5. QED
    BY <2>1, <2>4
<1>10. QED
  BY <1>8, <1>9

-----------------------------------------------------------------------------
(***************************************************************************)
(* A followed file.  Scanned lines are in order because lines are numbered  *)
(* as they are begun and only the file at the path grows (LinesGrow), and   *)
(* because what lies past the offset was begun after all that was scanned,  *)
(* a truncation that the adapter does not notice included (ScannedIsBehind).*)
(* Until the first rotation the offset tells how far the scan has come      *)
(* (FollowsTheFile).                                                       *)
(***************************************************************************)
Text(i) == IF i \in partial THEN 1 ELSE 0
Passed == (offset + 1) \div 2

\* The number of the next line to be completed at the path, or a lower bound.
Upcoming == IF path \in partial THEN written ELSE written + 1

InOrder(i) ==
  /\ Len(lines[i]) + Text(i) <= written
  /\ i > used => lines[i] = << >> /\ i \notin partial
  /\ \A j \in DOMAIN lines[i] : lines[i][j] < Upcoming
  /\ \A j, k \in DOMAIN lines[i] : j < k => lines[i][j] < lines[i][k]

LinesGrow == path <= used /\ \A i \in Inodes : InOrder(i)

ScannedIsBehind ==
  /\ \A i \in DOMAIN scanned : scanned[i] < Upcoming
  /\ file # LogFile!Missing =>
       \A i \in DOMAIN scanned, j \in DOMAIN lines[file] :
         j > Passed => scanned[i] < lines[file][j]

FollowsTheFile ==
  ~ rotated =>
    /\ path = 1 /\ file = 1
    /\ \A j \in DOMAIN lines[1] : lines[1][j] = j
    /\ written = Len(lines[1]) + Text(1)
    /\ offset <= LogFile!Size(1)
    /\ scanned = << >> => Passed = before
    /\ scanned # << >> => offset = 2 * (before + Len(scanned))
    /\ \A i \in DOMAIN scanned : scanned[i] = before + i

FileInv ==
  /\ LogFile!TypeOK /\ LinesGrow /\ ScannedIsBehind /\ FollowsTheFile
  /\ LogFile!ScannedInOrder

LEMMA FileConstants ==
  /\ Inodes = 1..LogFile!Cardinality(Inodes) /\ LogFile!Cardinality(Inodes) \in Nat \ {0}
  /\ 1 \in Inodes /\ 0 \notin Inodes /\ Inodes \in SUBSET Nat
  /\ MaxLine \in Nat \ {0}
<1>1. /\ IsFiniteSet(Inodes) /\ Inodes # {} /\ Inodes = 1..LogFile!Cardinality(Inodes)
      /\ MaxLine \in Nat \ {0}
  BY PartAssumptions DEF LogFile!TailAssumption, LogFile!IsFiniteSet, IsFiniteSet
<1>2. LogFile!Cardinality(Inodes) = Cardinality(Inodes)
  BY DEF LogFile!Cardinality, Cardinality
<1>3. Cardinality(Inodes) \in Nat \ {0}
  BY <1>1, FS_CardinalityType, FS_EmptySet
<1>4. QED
  BY <1>1, <1>2, <1>3

LEMMA HalfRoundedUp ==
  ASSUME NEW n \in Nat
  PROVE  /\ (n + 1) \div 2 \in Nat
         /\ n = 2 * ((n + 1) \div 2) \/ n + 1 = 2 * ((n + 1) \div 2)
OBVIOUS

(* The types that the steps below need.                                    *)
LEMMA LinesAreNumbers ==
  ASSUME NEW s \in Seq(LogFile!Lines)
  PROVE  Len(s) \in Nat /\ DOMAIN s = 1..Len(s) /\ \A j \in DOMAIN s : s[j] \in Nat
<1>1. LogFile!Lines \subseteq Nat
  BY FileConstants DEF LogFile!Lines
<1>2. QED
  BY <1>1, LenProperties, ElementOfSeq

LEMMA InodeTypes ==
  ASSUME LogFile!TypeOK, NEW i \in Inodes
  PROVE  /\ lines[i] \in Seq(LogFile!Lines) /\ Len(lines[i]) \in Nat
         /\ DOMAIN lines[i] = 1..Len(lines[i])
         /\ \A j \in DOMAIN lines[i] : lines[i][j] \in Nat
         /\ Text(i) \in 0..1
BY LinesAreNumbers DEF LogFile!TypeOK, Text

LEMMA AdapterTypes ==
  ASSUME LogFile!TypeOK
  PROVE  /\ scanned \in Seq(LogFile!Lines) /\ Len(scanned) \in Nat
         /\ DOMAIN scanned = 1..Len(scanned)
         /\ \A j \in DOMAIN scanned : scanned[j] \in Nat
         /\ offset \in Nat /\ written \in Nat /\ before \in Nat /\ used \in Nat
         /\ path \in Nat /\ Upcoming \in Nat
         /\ Passed \in Nat /\ (offset = 2 * Passed \/ offset + 1 = 2 * Passed)
<1>1. /\ scanned \in Seq(LogFile!Lines) /\ Len(scanned) \in Nat
      /\ DOMAIN scanned = 1..Len(scanned)
      /\ \A j \in DOMAIN scanned : scanned[j] \in Nat
  BY LinesAreNumbers DEF LogFile!TypeOK
<1>2. /\ offset \in Nat /\ written \in Nat /\ before \in Nat /\ used \in Nat
      /\ path \in Nat
  BY FileConstants DEF LogFile!TypeOK, LogFile!Missing
<1>3. Upcoming \in Nat
  BY <1>2 DEF Upcoming
<1>4. Passed \in Nat /\ (offset = 2 * Passed \/ offset + 1 = 2 * Passed)
  BY <1>2, HalfRoundedUp DEF Passed
<1>5. QED
  BY <1>1, <1>2, <1>3, <1>4

(* A step that leaves an inode alone keeps its lines in order.             *)
LEMMA InodeStaysInOrder ==
  ASSUME LogFile!TypeOK, NEW i \in Inodes, InOrder(i),
         lines'[i] = lines[i], i \in partial' => i \in partial, i > used' => i > used,
         written' \in Nat, written <= written',
         Upcoming' \in Nat, Upcoming <= Upcoming'
  PROVE  InOrder(i)'
<1>1. /\ Len(lines[i]) \in Nat /\ \A j \in DOMAIN lines[i] : lines[i][j] \in Nat
      /\ Text(i) \in 0..1
  BY InodeTypes
<1>2. written \in Nat /\ Upcoming \in Nat
  BY AdapterTypes
<1>3. Text(i)' \in 0..1 /\ Text(i)' <= Text(i)
  BY DEF Text
<1>4. Len(lines'[i]) + Text(i)' <= written'
  BY <1>1, <1>2, <1>3 DEF InOrder
<1>5. \A j \in DOMAIN lines'[i] : lines'[i][j] < Upcoming'
  BY <1>1, <1>2 DEF InOrder
<1>6. QED
  BY <1>4, <1>5 DEF InOrder

(* What is scanned stays behind when the file the adapter holds is left     *)
(* alone.                                                                  *)
LEMMA ScannedStaysBehind ==
  ASSUME LogFile!TypeOK, ScannedIsBehind,
         UNCHANGED <<file, offset, scanned>>, Upcoming' \in Nat, Upcoming <= Upcoming',
         file \in Inodes => lines'[file] = lines[file]
  PROVE  ScannedIsBehind'
<1>1. \A i \in DOMAIN scanned : scanned[i] < Upcoming'
  BY AdapterTypes DEF ScannedIsBehind
<1>2. file # LogFile!Missing => file \in Inodes
  BY DEF LogFile!TypeOK
<1>3. QED
  BY <1>1, <1>2 DEF ScannedIsBehind, Passed

LEMMA FileInitInv == LogFile!Init => FileInv
<1> SUFFICES ASSUME LogFile!Init PROVE FileInv
  OBVIOUS
<1>1. PICK n \in 0..1, p \in BOOLEAN :
        /\ lines = [i \in Inodes |-> IF i = 1 /\ n = 1 THEN <<1>> ELSE << >>]
        /\ partial = IF p /\ n + 1 <= MaxLine THEN {1} ELSE {}
        /\ written = n + LogFile!Cardinality(partial)
  BY DEF LogFile!Init
<1>2. /\ path = 1 /\ used = 1 /\ file = 1 /\ offset = LogFile!Size(1) /\ scanned = << >>
      /\ before = written /\ rotated = FALSE /\ tailStopped = FALSE
  BY DEF LogFile!Init
<1>3. LogFile!Cardinality(partial) = Text(1) /\ partial \subseteq {1} /\ Text(1) \in 0..1
  <2>1. \A S : LogFile!Cardinality(S) = Cardinality(S)
    BY DEF LogFile!Cardinality, Cardinality
  <2>2. CASE partial = {1}
    BY <2>1, <2>2, FS_Singleton DEF Text
  <2>3. CASE partial = {}
    BY <2>1, <2>3, FS_EmptySet DEF Text
  <2>4. QED
    BY <1>1, <2>2, <2>3
<1>4. /\ lines[1] = (IF n = 1 THEN <<1>> ELSE << >>) /\ Len(lines[1]) = n
      /\ \A i \in Inodes : i # 1 => lines[i] = << >>
  BY <1>1, FileConstants
<1>5. written = n + Text(1) /\ offset = 2 * n + Text(1) /\ written \in 0..MaxLine
  <2>1. offset = 2 * n + Text(1)
    BY <1>2, <1>4 DEF LogFile!Size, Text
  <2>2. n + Text(1) <= MaxLine
    BY <1>1, FileConstants DEF Text
  <2>3. QED
    BY <1>1, <1>3, <2>1, <2>2, FileConstants
<1>6. LogFile!TypeOK
  <2>1. lines \in [Inodes -> Seq(LogFile!Lines)]
    <3>1. 1 \in LogFile!Lines
      BY FileConstants DEF LogFile!Lines
    <3>2. <<1>> \in Seq(LogFile!Lines) /\ << >> \in Seq(LogFile!Lines)
      BY <3>1
    <3>3. QED
      BY <1>1, <3>2
  <2>2. offset \in 0..(2 * MaxLine + 1)
    BY <1>3, <1>5, FileConstants
  <2>3. scanned \in Seq(LogFile!Lines)
    BY <1>2, EmptySeq
  <2>4. partial \subseteq Inodes /\ 1 \in 1..LogFile!Cardinality(Inodes)
    BY <1>3, FileConstants
  <2>5. QED
    BY <1>2, <1>5, <2>1, <2>2, <2>3, <2>4, FileConstants DEF LogFile!TypeOK, LogFile!Missing
<1>7. LinesGrow
  <2>1. written \in Nat /\ Upcoming = n + 1
    BY <1>2, <1>3, <1>5, FileConstants DEF Upcoming, Text
  <2>2. \A j \in DOMAIN lines[1] : j = 1 /\ lines[1][j] = 1 /\ n = 1
    BY <1>4
  <2>3. InOrder(1)
    <3>1. ~ (1 > used)
      BY <1>2
    <3>2. Len(lines[1]) + Text(1) <= written
      BY <1>3, <1>4, <1>5
    <3>3. QED
      BY <2>1, <2>2, <3>1, <3>2 DEF InOrder
  <2>4. ASSUME NEW i \in Inodes, i # 1 PROVE InOrder(i)
    <3>1. lines[i] = << >> /\ i \notin partial /\ Text(i) = 0
      BY <1>3, <1>4, <2>4 DEF Text
    <3>2. Len(lines[i]) = 0 /\ DOMAIN lines[i] = {}
      BY <3>1
    <3>3. QED
      BY <2>1, <3>1, <3>2 DEF InOrder
  <2>5. QED
    BY <1>2, <2>3, <2>4 DEF LinesGrow
<1>8. ScannedIsBehind /\ LogFile!ScannedInOrder
  BY <1>2 DEF ScannedIsBehind, LogFile!ScannedInOrder
<1>9. FollowsTheFile
  <2>1. Passed = before
    BY <1>2, <1>3, <1>5 DEF Passed
  <2>2. \A j \in DOMAIN lines[1] : lines[1][j] = j
    BY <1>4
  <2>3. QED
    BY <1>2, <1>4, <1>5, <2>1, <2>2 DEF FollowsTheFile, LogFile!Size, Text
<1>10. QED
  BY <1>6, <1>7, <1>8, <1>9 DEF FileInv

LEMMA BeginLineKeepsInv == FileInv /\ LogFile!BeginLine => FileInv'
<1> SUFFICES ASSUME FileInv, LogFile!BeginLine PROVE FileInv'
  OBVIOUS
<1>1. /\ path # LogFile!Missing /\ path \notin partial /\ written < MaxLine
      /\ partial' = partial \cup {path}
      /\ written' = written + 1
      /\ UNCHANGED <<lines, path, used, file, offset, scanned, rotated, tailStopped, before>>
  BY DEF LogFile!BeginLine
<1>2. LogFile!TypeOK /\ LinesGrow /\ ScannedIsBehind /\ path \in Inodes
  BY <1>1 DEF FileInv, LogFile!TypeOK
<1>3. LogFile!TypeOK'
  BY <1>1, <1>2, FileConstants DEF LogFile!TypeOK
<1>4. Upcoming' = written + 1 /\ Upcoming = written + 1 /\ written \in Nat
  BY <1>1, <1>2, AdapterTypes DEF Upcoming
<1>5. LinesGrow'
  <2>1. ASSUME NEW i \in Inodes, i # path PROVE InOrder(i)'
    <3>1. /\ InOrder(i) /\ lines'[i] = lines[i] /\ (i \in partial' => i \in partial)
          /\ (i > used' => i > used) /\ written' \in Nat /\ written <= written'
          /\ Upcoming' \in Nat /\ Upcoming <= Upcoming'
      BY <1>1, <1>2, <1>4, <2>1 DEF LinesGrow
    <3>2. QED
      BY <1>2, <3>1, InodeStaysInOrder
  <2>2. InOrder(path)'
    <3>1. InOrder(path) /\ ~ (path > used) /\ Text(path) = 0 /\ Text(path)' = 1
      BY <1>1, <1>2, FileConstants, AdapterTypes DEF LinesGrow, Text
    <3>2. Len(lines[path]) + 1 <= written + 1
      BY <1>2, <1>4, <3>1, InodeTypes DEF InOrder
    <3>3. QED
      BY <1>1, <1>4, <3>1, <3>2 DEF InOrder
  <2>3. QED
    BY <1>1, <1>2, <2>1, <2>2 DEF LinesGrow
<1>6. ScannedIsBehind'
  BY <1>1, <1>2, <1>4, ScannedStaysBehind
<1>7. FollowsTheFile'
  <2> SUFFICES ASSUME ~ rotated PROVE FollowsTheFile'
    BY <1>1 DEF FollowsTheFile
  <2>1. /\ path = 1 /\ Text(1) = 0 /\ Text(1)' = 1
        /\ written = Len(lines[1]) + Text(1)
        /\ offset <= LogFile!Size(1)
    BY <1>1 DEF FileInv, FollowsTheFile, Text
  <2>2. Len(lines[1]) \in Nat /\ offset \in Nat
    BY <1>2, InodeTypes, AdapterTypes, FileConstants
  <2>3. LogFile!Size(1) = 2 * Len(lines[1]) /\ LogFile!Size(1)' = 2 * Len(lines[1]) + 1
    BY <1>1, <2>1, <2>2 DEF LogFile!Size, Text
  <2>4. offset' <= LogFile!Size(1)' /\ written' = Len(lines'[1]) + Text(1)'
    BY <1>1, <2>1, <2>2, <2>3
  <2>5. QED
    BY <1>1, <2>4 DEF FileInv, FollowsTheFile, Passed
<1>8. LogFile!ScannedInOrder'
  BY <1>1 DEF FileInv, LogFile!ScannedInOrder
<1>9. QED
  BY <1>3, <1>5, <1>6, <1>7, <1>8 DEF FileInv

(* The number of a line that is completed is above all others.             *)
LEMMA FinishLineKeepsInv == FileInv /\ LogFile!FinishLine => FileInv'
<1> SUFFICES ASSUME FileInv, LogFile!FinishLine PROVE FileInv'
  OBVIOUS
<1> DEFINE longer == Append(lines[path], written)
           n == Len(lines[path])
<1>1. /\ path # LogFile!Missing /\ path \in partial
      /\ lines' = [lines EXCEPT ![path] = longer]
      /\ partial' = partial \ {path}
      /\ UNCHANGED <<path, used, written, file, offset, scanned, rotated, tailStopped, before>>
  BY DEF LogFile!FinishLine
<1>2. LogFile!TypeOK /\ LinesGrow /\ ScannedIsBehind /\ path \in Inodes
  BY <1>1 DEF FileInv, LogFile!TypeOK
<1>3. /\ lines[path] \in Seq(LogFile!Lines) /\ n \in Nat /\ DOMAIN lines[path] = 1..n
      /\ \A j \in 1..n : lines[path][j] \in Nat
  BY <1>2, InodeTypes
<1>4. n + 1 <= written /\ written \in LogFile!Lines
  <2>1. n + 1 <= written
    BY <1>1, <1>2 DEF LinesGrow, InOrder, Text
  <2>2. QED
    BY <1>2, <1>3, <2>1 DEF LogFile!TypeOK, LogFile!Lines
<1>5. /\ longer \in Seq(LogFile!Lines) /\ Len(longer) = n + 1
      /\ longer[n + 1] = written /\ \A j \in 1..n : longer[j] = lines[path][j]
  BY <1>3, <1>4, AppendProperties
<1>6. DOMAIN longer = 1..(n + 1) /\ \A j \in 1..(n + 1) : j = n + 1 \/ j \in 1..n
  BY <1>3, <1>5, LenProperties
<1> HIDE DEF longer, n
<1>7. /\ lines'[path] = longer /\ \A i \in Inodes : i # path => lines'[i] = lines[i]
      /\ lines' \in [Inodes -> Seq(LogFile!Lines)]
  BY <1>1, <1>2, <1>5 DEF LogFile!TypeOK
<1>8. LogFile!TypeOK'
  BY <1>1, <1>2, <1>7 DEF LogFile!TypeOK
<1>9. Upcoming = written /\ Upcoming' = written + 1 /\ written \in Nat
  BY <1>1, <1>2, AdapterTypes DEF Upcoming
<1>10. \A j \in 1..n : longer[j] < written /\ longer[j] \in Nat
  BY <1>2, <1>3, <1>5, <1>9 DEF LinesGrow, InOrder
<1>11. LinesGrow'
  <2>1. ASSUME NEW i \in Inodes, i # path PROVE InOrder(i)'
    <3>1. /\ InOrder(i) /\ lines'[i] = lines[i] /\ (i \in partial' => i \in partial)
          /\ (i > used' => i > used) /\ written' \in Nat /\ written <= written'
          /\ Upcoming' \in Nat /\ Upcoming <= Upcoming'
      BY <1>1, <1>2, <1>7, <1>9, <2>1 DEF LinesGrow
    <3>2. QED
      BY <1>2, <3>1, InodeStaysInOrder
  <2>2. InOrder(path)'
    <3>1. Text(path)' = 0 /\ ~ (path > used')
      BY <1>1, <1>2, FileConstants, AdapterTypes DEF LinesGrow, Text
    <3>2. \A j \in DOMAIN longer : longer[j] < written + 1
      BY <1>5, <1>6, <1>9, <1>10
    <3>3. \A j, k \in DOMAIN longer : j < k => longer[j] < longer[k]
      <4> SUFFICES ASSUME NEW j \in DOMAIN longer, NEW k \in DOMAIN longer, j < k
                   PROVE  longer[j] < longer[k]
        OBVIOUS
      <4>1. j \in 1..n
        BY <1>3, <1>6 DEF n
      <4>2. CASE k = n + 1
        BY <1>5, <1>10, <4>1, <4>2
      <4>3. CASE k \in 1..n
        BY <1>2, <1>3, <1>5, <4>1, <4>3 DEF LinesGrow, InOrder
      <4>4. QED
        BY <1>6, <4>2, <4>3
    <3>4. Len(lines'[path]) + Text(path)' <= written'
      BY <1>1, <1>3, <1>4, <1>5, <1>7, <3>1 DEF n
    <3>5. QED
      BY <1>1, <1>7, <1>9, <3>1, <3>2, <3>3, <3>4 DEF InOrder
  <2>3. QED
    BY <1>1, <1>2, <2>1, <2>2 DEF LinesGrow
<1>12. \A i \in DOMAIN scanned : scanned[i] < written /\ scanned[i] < Upcoming'
  BY <1>2, <1>9, AdapterTypes DEF ScannedIsBehind
<1>13. ScannedIsBehind'
  <2> SUFFICES ASSUME file # LogFile!Missing, NEW i \in DOMAIN scanned,
                      NEW j \in DOMAIN lines'[file], j > Passed
               PROVE  scanned[i] < lines'[file][j]
    BY <1>1, <1>12 DEF ScannedIsBehind, Passed
  <2>1. CASE file = path /\ j = n + 1
    BY <1>5, <1>7, <1>12, <2>1
  <2>2. CASE file = path /\ j # n + 1
    <3>1. j \in DOMAIN lines[file] /\ lines'[file][j] = lines[file][j]
      BY <1>3, <1>5, <1>6, <1>7, <2>2
    <3>2. QED
      BY <1>2, <3>1 DEF ScannedIsBehind
  <2>3. CASE file # path
    <3>1. file \in Inodes
      BY <1>2 DEF LogFile!TypeOK
    <3>2. QED
      BY <1>2, <1>7, <2>3, <3>1 DEF ScannedIsBehind
  <2>4. QED
    BY <2>1, <2>2, <2>3
<1>14. FollowsTheFile'
  <2> SUFFICES ASSUME ~ rotated PROVE FollowsTheFile'
    BY <1>1 DEF FollowsTheFile
  <2>1. /\ path = 1 /\ file = 1 /\ written = Len(lines[1]) + Text(1) /\ Text(1) = 1
        /\ Text(1)' = 0 /\ offset <= LogFile!Size(1)
        /\ \A j \in DOMAIN lines[1] : lines[1][j] = j
    BY <1>1 DEF FileInv, FollowsTheFile, Text
  <2>2. written = n + 1 /\ Len(lines'[1]) = n + 1
    BY <1>5, <1>7, <2>1 DEF n
  <2>3. LogFile!Size(1)' = 2 * (n + 1) /\ LogFile!Size(1) = 2 * n + 1
    BY <1>1, <1>3, <2>1, <2>2 DEF LogFile!Size, Text, n
  <2>4. \A j \in DOMAIN lines'[1] : lines'[1][j] = j
    <3>1. \A j \in 1..n : lines[path][j] = j
      BY <1>3, <2>1
    <3>2. QED
      BY <1>5, <1>6, <1>7, <2>1, <2>2, <3>1
  <2>5. offset \in Nat
    BY <1>2, AdapterTypes
  <2>6. offset' <= LogFile!Size(1)' /\ written' = Len(lines'[1]) + Text(1)'
    BY <1>1, <1>3, <2>1, <2>2, <2>3, <2>5 DEF n
  <2>7. QED
    BY <1>1, <2>1, <2>4, <2>6 DEF FileInv, FollowsTheFile, Passed
<1>15. LogFile!ScannedInOrder'
  BY <1>1 DEF FileInv, LogFile!ScannedInOrder
<1>16. QED
  BY <1>8, <1>11, <1>13, <1>14, <1>15 DEF FileInv


LEMMA RotateKeepsInv ==
  ASSUME NEW how \in Rotations
  PROVE  FileInv /\ LogFile!Rotate(how) => FileInv'
<1> SUFFICES ASSUME FileInv, LogFile!Rotate(how) PROVE FileInv'
  OBVIOUS
<1>1. rotated' = TRUE /\ UNCHANGED <<file, offset, scanned, tailStopped, before>>
  BY DEF LogFile!Rotate
<1>2. /\ LogFile!TypeOK /\ LinesGrow /\ ScannedIsBehind
      /\ written \in Nat /\ used \in Nat /\ path \in Nat /\ Upcoming \in Nat
      /\ Upcoming <= written + 1 /\ path <= used
  BY AdapterTypes DEF FileInv, LinesGrow, Upcoming
<1>3. FollowsTheFile' /\ LogFile!ScannedInOrder'
  BY <1>1 DEF FileInv, FollowsTheFile, LogFile!ScannedInOrder
<1>4. CASE how = "rename"
  <2>1. /\ used < LogFile!Cardinality(Inodes)
        /\ used' = used + 1 /\ path' = used + 1
        /\ UNCHANGED <<lines, partial, written>>
    BY <1>4 DEF LogFile!Rotate
  <2>2. path' \in Inodes /\ path' > used /\ used' \in 1..LogFile!Cardinality(Inodes)
    BY <1>2, <2>1, FileConstants
  <2>3. path' \notin partial
    BY <1>2, <2>2 DEF LinesGrow, InOrder
  <2>4. LogFile!TypeOK'
    BY <1>1, <1>2, <2>1, <2>2 DEF LogFile!TypeOK
  <2>5. Upcoming' = written + 1 /\ Upcoming' \in Nat /\ Upcoming <= Upcoming'
    BY <1>2, <2>1, <2>3 DEF Upcoming
  <2>6. ASSUME NEW i \in Inodes PROVE InOrder(i)'
    <3>1. /\ InOrder(i) /\ lines'[i] = lines[i] /\ (i \in partial' => i \in partial)
          /\ written' \in Nat /\ written <= written'
      BY <1>2, <2>1 DEF LinesGrow
    <3>2. i > used' => i > used
      BY <1>2, <2>1, FileConstants
    <3>3. QED
      BY <1>2, <2>5, <3>1, <3>2, InodeStaysInOrder
  <2>7. LinesGrow'
    BY <1>2, <2>1, <2>6 DEF LinesGrow
  <2>8. ScannedIsBehind'
    BY <1>1, <1>2, <2>1, <2>5, ScannedStaysBehind
  <2>9. QED
    BY <1>3, <2>4, <2>7, <2>8 DEF FileInv
<1>5. CASE how = "truncate"
  <2>1. /\ path # LogFile!Missing
        /\ lines' = [lines EXCEPT ![path] = << >>]
        /\ partial' = partial \ {path}
        /\ UNCHANGED <<path, used, written>>
    BY <1>5 DEF LogFile!Rotate
  <2>2. path \in Inodes /\ path \notin partial'
    BY <1>2, <2>1 DEF LogFile!TypeOK
  <2>3. Upcoming' = written + 1 /\ Upcoming' \in Nat /\ Upcoming <= Upcoming'
    BY <1>2, <2>1, <2>2 DEF Upcoming
  <2>4. /\ lines'[path] = << >> /\ \A i \in Inodes : i # path => lines'[i] = lines[i]
        /\ lines' \in [Inodes -> Seq(LogFile!Lines)]
    BY <1>2, <2>1, <2>2, EmptySeq DEF LogFile!TypeOK
  <2>5. LogFile!TypeOK'
    BY <1>1, <1>2, <2>1, <2>4 DEF LogFile!TypeOK
  <2>6. ASSUME NEW i \in Inodes, i # path PROVE InOrder(i)'
    <3>1. /\ InOrder(i) /\ lines'[i] = lines[i] /\ (i \in partial' => i \in partial)
          /\ (i > used' => i > used) /\ written' \in Nat /\ written <= written'
      BY <1>2, <2>1, <2>4, <2>6 DEF LinesGrow
    <3>2. QED
      BY <1>2, <2>3, <3>1, InodeStaysInOrder
  <2>7. InOrder(path)'
    <3>1. Text(path)' = 0
      BY <2>1, <2>2 DEF Text
    <3>2. Len(lines'[path]) = 0 /\ DOMAIN lines'[path] = {}
      BY <2>4
    <3>3. Len(lines'[path]) + Text(path)' <= written'
      BY <1>2, <2>1, <3>1, <3>2
    <3>4. QED
      BY <1>2, <2>1, <2>2, <2>4, <3>2, <3>3, AdapterTypes DEF InOrder
  <2>8. LinesGrow'
    BY <1>2, <2>1, <2>6, <2>7 DEF LinesGrow
  <2>9. ScannedIsBehind'
    <3>1. CASE file = path
      <4>1. DOMAIN lines'[file] = {}
        BY <2>4, <3>1
      <4>2. \A i \in DOMAIN scanned : scanned[i] < Upcoming'
        BY <1>2, <2>3, AdapterTypes DEF ScannedIsBehind
      <4>3. QED
        BY <1>1, <4>1, <4>2 DEF ScannedIsBehind
    <3>2. CASE file # path
      <4>1. file \in Inodes => lines'[file] = lines[file]
        BY <2>4, <3>2
      <4>2. QED
        BY <1>1, <1>2, <2>3, <4>1, ScannedStaysBehind
    <3>3. QED
      BY <3>1, <3>2
  <2>10. QED
    BY <1>3, <2>5, <2>8, <2>9 DEF FileInv
<1>6. CASE how = "remove"
  <2>1. path' = 0 /\ path' = LogFile!Missing /\ UNCHANGED <<lines, partial, used, written>>
    BY <1>6 DEF LogFile!Rotate, LogFile!Missing
  <2>2. 0 \notin partial
    BY <1>2, FileConstants DEF LogFile!TypeOK
  <2>3. Upcoming' = written + 1 /\ Upcoming' \in Nat /\ Upcoming <= Upcoming'
    BY <1>2, <2>1, <2>2 DEF Upcoming
  <2>4. LogFile!TypeOK'
    BY <1>1, <1>2, <2>1 DEF LogFile!TypeOK
  <2>5. ASSUME NEW i \in Inodes PROVE InOrder(i)'
    <3>1. /\ InOrder(i) /\ lines'[i] = lines[i] /\ (i \in partial' => i \in partial)
          /\ (i > used' => i > used) /\ written' \in Nat /\ written <= written'
      BY <1>2, <2>1 DEF LinesGrow
    <3>2. QED
      BY <1>2, <2>3, <3>1, InodeStaysInOrder
  <2>6. LinesGrow'
    BY <1>2, <2>1, <2>5 DEF LinesGrow
  <2>7. ScannedIsBehind'
    BY <1>1, <1>2, <2>1, <2>3, ScannedStaysBehind
  <2>8. QED
    BY <1>3, <2>4, <2>6, <2>7 DEF FileInv
<1>7. how \in {"rename", "truncate", "remove"}
  BY PartAssumptions DEF LogFile!TailAssumption
<1>8. QED
  BY <1>4, <1>5, <1>6, <1>7

(* Reopened at its end, a file has no line past the offset.                *)
LEMMA ReopenKeepsInv == FileInv /\ LogFile!Reopen => FileInv'
<1> SUFFICES ASSUME FileInv, LogFile!Reopen PROVE FileInv'
  OBVIOUS
<1>1. /\ file # LogFile!Missing /\ LogFile!IsRotated
      /\ file' = path
      /\ offset' = IF path = LogFile!Missing THEN 0 ELSE LogFile!Size(path)
      /\ UNCHANGED <<lines, partial, path, used, written, scanned, rotated, tailStopped, before>>
  BY DEF LogFile!Reopen, LogFile!fileVars
<1>2. LogFile!TypeOK /\ LinesGrow /\ ScannedIsBehind
  BY DEF FileInv
<1>3. ASSUME NEW i \in Inodes
      PROVE  /\ Len(lines[i]) \in Nat /\ Text(i) \in 0..1
             /\ LogFile!Size(i) = 2 * Len(lines[i]) + Text(i)
             /\ Len(lines[i]) + Text(i) <= written
  BY <1>2, InodeTypes DEF LogFile!Size, Text, LinesGrow, InOrder
<1>4. LogFile!TypeOK'
  <2>1. offset' \in 0..(2 * MaxLine + 1) /\ (path = LogFile!Missing => offset' = 0)
    <3>1. CASE path = LogFile!Missing
      BY <1>1, <3>1, FileConstants
    <3>2. CASE path # LogFile!Missing
      <4>1. path \in Inodes /\ written \in 0..MaxLine
        BY <1>2, <3>2 DEF LogFile!TypeOK
      <4>2. Len(lines[path]) \in Nat /\ Text(path) \in 0..1
            /\ offset' = 2 * Len(lines[path]) + Text(path)
            /\ Len(lines[path]) + Text(path) <= written
        BY <1>1, <1>3, <3>2, <4>1
      <4>3. QED
        BY <3>2, <4>1, <4>2, FileConstants
    <3>3. QED
      BY <3>1, <3>2
  <2>2. QED
    BY <1>1, <1>2, <2>1 DEF LogFile!TypeOK
<1>5. Upcoming' = Upcoming
  BY <1>1 DEF Upcoming
<1>6. LinesGrow'
  <2>1. ASSUME NEW i \in Inodes PROVE InOrder(i)'
    BY <1>1, <1>2, <1>5 DEF LinesGrow, InOrder, Text
  <2>2. QED
    BY <1>1, <1>2, <2>1 DEF LinesGrow
<1>7. ScannedIsBehind'
  <2>1. ASSUME path # LogFile!Missing, NEW j \in DOMAIN lines[path], j > Passed'
        PROVE  FALSE
    <3>1. path \in Inodes
      BY <1>2, <2>1 DEF LogFile!TypeOK
    <3>2. j \in 1..Len(lines[path])
      BY <1>2, <3>1, InodeTypes
    <3>3. /\ offset' = 2 * Len(lines[path]) + Text(path)
          /\ Text(path) \in 0..1 /\ Len(lines[path]) \in Nat
      BY <1>1, <1>3, <2>1, <3>1
    <3>4. offset' \in Nat
      BY <3>3
    <3>5. Passed' \in Nat /\ (offset' = 2 * Passed' \/ offset' + 1 = 2 * Passed')
      BY <3>4, HalfRoundedUp DEF Passed
    <3>6. QED
      BY <2>1, <3>2, <3>3, <3>5
  <2>2. QED
    BY <1>1, <1>2, <1>5, <2>1 DEF ScannedIsBehind
<1>8. FollowsTheFile'
  <2> SUFFICES ASSUME ~ rotated PROVE FALSE
    BY <1>1 DEF FollowsTheFile
  <2>1. path = 1 /\ file = 1 /\ offset <= LogFile!Size(1)
    BY DEF FileInv, FollowsTheFile
  <2>2. LogFile!Size(1) \in Nat /\ offset \in Nat
    <3>1. /\ Len(lines[1]) \in Nat /\ Text(1) \in 0..1
          /\ LogFile!Size(1) = 2 * Len(lines[1]) + Text(1)
      BY <1>3, FileConstants
    <3>2. LogFile!Size(1) \in Nat
      BY <3>1
    <3>3. QED
      BY <1>2, <3>2, AdapterTypes
  <2>3. QED
    BY <1>1, <2>1, <2>2 DEF LogFile!IsRotated
<1>9. LogFile!ScannedInOrder'
  BY <1>1 DEF FileInv, LogFile!ScannedInOrder
<1>10. QED
  BY <1>4, <1>6, <1>7, <1>8, <1>9 DEF FileInv

(* What is read lies past the offset, so behind all that was scanned.       *)
LEMMA ReadLinesKeepsInv == FileInv /\ LogFile!ReadLines => FileInv'
<1> SUFFICES ASSUME FileInv, LogFile!ReadLines PROVE FileInv'
  OBVIOUS
<1> DEFINE all == lines[file]
           n == Len(all)
           m == Len(scanned)
           k == Passed
           new == LogFile!NewLines
<1>1. /\ file # LogFile!Missing /\ ~ LogFile!IsRotated
      /\ 2 * n > offset
      /\ offset' = 2 * n
      /\ scanned' = scanned \o new
      /\ UNCHANGED <<lines, partial, path, used, written, file, rotated, tailStopped, before>>
  BY DEF LogFile!ReadLines, LogFile!Consumed, LogFile!fileVars
<1>2. LogFile!TypeOK /\ LinesGrow /\ ScannedIsBehind /\ LogFile!ScannedInOrder
      /\ file \in Inodes
  BY <1>1 DEF FileInv, LogFile!TypeOK
<1>3. /\ all \in Seq(LogFile!Lines) /\ n \in Nat /\ DOMAIN all = 1..n
      /\ \A j \in DOMAIN all : all[j] \in Nat
      /\ InOrder(file) /\ Text(file) \in 0..1
  BY <1>2, InodeTypes DEF LinesGrow
<1>4. /\ scanned \in Seq(LogFile!Lines) /\ m \in Nat /\ DOMAIN scanned = 1..m
      /\ \A j \in DOMAIN scanned : scanned[j] \in Nat
      /\ offset \in Nat /\ k \in Nat /\ Upcoming \in Nat
      /\ (offset = 2 * k \/ offset + 1 = 2 * k)
  BY <1>2, AdapterTypes
<1>5. k <= n
  BY <1>1, <1>3, <1>4
<1>6. /\ new \in Seq(LogFile!Lines) /\ Len(new) = n - k
      /\ \A j \in 1..(n - k) : new[j] = all[k + j]
  <2>1. \A j \in (k + 1)..n : all[j] \in LogFile!Lines
    <3>1. \A j \in 1..n : all[j] \in LogFile!Lines
      BY <1>3, ElementOfSeq
    <3>2. QED
      BY <1>3, <1>4, <3>1
  <2>2. new = SubSeq(all, k + 1, n)
    BY DEF LogFile!NewLines, Passed
  <2>3. k + 1 \in Int /\ n \in Int
    BY <1>3, <1>4
  <2> HIDE DEF new, all, k, n
  <2>4. /\ new \in Seq(LogFile!Lines)
        /\ Len(new) = IF k + 1 <= n THEN n - (k + 1) + 1 ELSE 0
        /\ \A j \in 1..(n - (k + 1) + 1) : new[j] = all[k + 1 + j - 1]
    BY <2>1, <2>2, <2>3, SubSeqProperties
  <2>5. k \in Nat /\ n \in Nat /\ k <= n
    BY <1>3, <1>4, <1>5
  <2>6. n - (k + 1) + 1 = n - k /\ \A j \in 1..(n - k) : k + 1 + j - 1 = k + j
    BY <2>5
  <2>7. QED
    BY <2>4, <2>5, <2>6
<1>7. n <= written
  BY <1>2, <1>3, AdapterTypes DEF InOrder
<1>8. \A j \in 1..n : all[j] < Upcoming
  BY <1>3 DEF InOrder
<1>9. \A i, j \in 1..n : i < j => all[i] < all[j]
  BY <1>3 DEF InOrder
<1>10. \A i \in 1..m, j \in 1..n : j > k => scanned[i] < all[j]
  BY <1>1, <1>2, <1>3, <1>4 DEF ScannedIsBehind
<1>11. \A i \in 1..m : scanned[i] < Upcoming
  BY <1>2, <1>4 DEF ScannedIsBehind
<1>12. FollowsTheFile
  BY DEF FileInv
<1>13. n = Len(lines[file]) /\ all = lines[file] /\ k = Passed /\ m = Len(scanned)
  OBVIOUS
<1> HIDE DEF new, all, k, n, m
<1>14. /\ scanned' \in Seq(LogFile!Lines) /\ Len(scanned') = m + (n - k)
       /\ DOMAIN scanned' = 1..(m + (n - k))
       /\ \A i \in 1..m : scanned'[i] = scanned[i]
       /\ \A i \in 1..(n - k) : scanned'[m + i] = all[k + i]
  <2>1. scanned' \in Seq(LogFile!Lines) /\ Len(scanned') = m + (n - k)
        /\ \A i \in 1..(m + (n - k)) :
             scanned'[i] = IF i <= m THEN scanned[i] ELSE new[i - m]
    <3>1. /\ scanned \o new \in Seq(LogFile!Lines)
          /\ Len(scanned \o new) = Len(scanned) + Len(new)
          /\ \A i \in 1..(Len(scanned) + Len(new)) :
               (scanned \o new)[i] = IF i <= Len(scanned) THEN scanned[i]
                                     ELSE new[i - Len(scanned)]
      BY <1>4, <1>6, ConcatProperties
    <3>2. QED
      BY <1>1, <1>6, <1>13, <3>1
  <2>2. \A i \in 1..m : scanned'[i] = scanned[i]
    BY <1>3, <1>4, <1>5, <2>1
  <2>3. \A i \in 1..(n - k) : scanned'[m + i] = all[k + i]
    <3>1. TAKE i \in 1..(n - k)
    <3>2. m + i \in 1..(m + (n - k)) /\ ~ (m + i <= m) /\ m + i - m = i
      BY <1>3, <1>4, <1>5
    <3>3. \A j \in 1..(m + (n - k)) : ~ (j <= m) => scanned'[j] = new[j - m]
      BY <2>1
    <3>4. PICK j \in 1..(m + (n - k)) : j = m + i /\ ~ (j <= m) /\ j - m = i
      BY <1>3, <1>4, <1>5, <3>2
    <3>5. scanned'[j] = new[i]
      BY <3>3, <3>4
    <3>6. QED
      BY <1>6, <3>4, <3>5
  <2>4. QED
    BY <2>1, <2>2, <2>3, LenProperties
<1>15. \A i \in 1..(m + (n - k)) :
         i \in 1..m \/ \E j \in 1..(n - k) : i = m + j
  <2>1. TAKE i \in 1..(m + (n - k))
  <2>2. CASE i <= m
    BY <1>4, <2>2
  <2>3. CASE i > m
    <3>1. i - m \in 1..(n - k) /\ i = m + (i - m)
      BY <1>3, <1>4, <1>5, <2>3
    <3>2. QED
      BY <3>1
  <2>4. QED
    BY <1>3, <1>4, <1>5, <2>2, <2>3
<1>16. \A j \in 1..(n - k) :
         /\ k + j \in 1..n /\ k + j > k /\ all[k + j] \in Nat /\ all[k + j] < Upcoming
  <2>1. TAKE j \in 1..(n - k)
  <2>2. k + j \in 1..n /\ k + j > k
    BY <1>3, <1>4, <1>5
  <2>3. QED
    BY <1>3, <1>8, <2>2
<1>17. \A i \in DOMAIN scanned' : scanned'[i] < Upcoming
  <2>1. TAKE i \in DOMAIN scanned'
  <2>2. CASE i \in 1..m
    BY <1>11, <1>14, <2>2
  <2>3. ASSUME NEW j \in 1..(n - k), i = m + j PROVE scanned'[i] < Upcoming
    BY <1>14, <1>16, <2>3
  <2>4. QED
    BY <1>14, <1>15, <2>2, <2>3
<1>18. LogFile!TypeOK'
  <2>1. offset' \in 0..(2 * MaxLine + 1)
    <3>1. written \in 0..MaxLine
      BY <1>2 DEF LogFile!TypeOK
    <3>2. QED
      BY <1>1, <1>3, <1>7, <3>1, FileConstants DEF n
  <2>2. QED
    BY <1>1, <1>2, <1>14, <2>1 DEF LogFile!TypeOK
<1>19. Upcoming' = Upcoming
  BY <1>1 DEF Upcoming
<1>20. LinesGrow'
  <2>1. ASSUME NEW i \in Inodes PROVE InOrder(i)'
    BY <1>1, <1>2, <1>19 DEF LinesGrow, InOrder, Text
  <2>2. QED
    BY <1>1, <1>2, <2>1 DEF LinesGrow
<1>21. Passed' = n
  <2>1. offset' \in Nat /\ offset' = 2 * n
    BY <1>1, <1>3
  <2>2. Passed' \in Nat /\ (offset' = 2 * Passed' \/ offset' + 1 = 2 * Passed')
    BY <2>1, HalfRoundedUp DEF Passed
  <2>3. n \in Nat
    BY <1>3
  <2>4. ASSUME NEW p \in Nat, 2 * n = 2 * p \/ 2 * n + 1 = 2 * p PROVE p = n
    BY <2>3, <2>4
  <2>5. QED
    BY <2>1, <2>2, <2>4
<1>22. ScannedIsBehind'
  <2>1. \A j \in DOMAIN lines'[file'] : ~ (j > Passed')
    BY <1>1, <1>3, <1>13, <1>21
  <2>2. QED
    BY <1>17, <1>19, <2>1 DEF ScannedIsBehind
<1>23. LogFile!ScannedInOrder'
  <2> SUFFICES ASSUME NEW i \in DOMAIN scanned', NEW j \in DOMAIN scanned', i < j
               PROVE  scanned'[i] < scanned'[j]
    BY DEF LogFile!ScannedInOrder
  <2>1. CASE i \in 1..m /\ j \in 1..m
    BY <1>2, <1>4, <1>14, <2>1 DEF LogFile!ScannedInOrder
  <2>2. ASSUME i \in 1..m, NEW g \in 1..(n - k), j = m + g
        PROVE  scanned'[i] < scanned'[j]
    BY <1>10, <1>14, <1>16, <2>2
  <2>3. ASSUME NEW h \in 1..(n - k), i = m + h, NEW g \in 1..(n - k), j = m + g
        PROVE  scanned'[i] < scanned'[j]
    <3>1. k + h \in 1..n /\ k + g \in 1..n /\ k + h < k + g
      BY <1>3, <1>4, <1>16, <2>3
    <3>2. all[k + h] < all[k + g]
      BY <1>9, <3>1
    <3>3. QED
      BY <1>14, <2>3, <3>2
  <2>4. ASSUME NEW h \in 1..(n - k), i = m + h, j \in 1..m PROVE FALSE
    BY <1>3, <1>4, <2>4
  <2>5. QED
    BY <1>14, <1>15, <2>1, <2>2, <2>3, <2>4
<1>24. FollowsTheFile'
  <2> SUFFICES ASSUME ~ rotated PROVE FollowsTheFile'
    BY <1>1 DEF FollowsTheFile
  <2>1. /\ path = 1 /\ file = 1 /\ all = lines[1]
        /\ \A j \in DOMAIN all : all[j] = j
        /\ written = n + Text(1)
        /\ \A i \in DOMAIN scanned : scanned[i] = before + i
        /\ scanned = << >> => k = before
        /\ scanned # << >> => offset = 2 * (before + m)
    BY <1>12, <1>13 DEF FollowsTheFile, n, k, m, all
  <2>2. before \in Nat
    BY <1>2, AdapterTypes
  <2>3. k = before + m
    <3>1. CASE scanned = << >>
      <4>1. m = 0 /\ k = before
        BY <2>1, <3>1 DEF m
      <4>2. QED
        BY <2>2, <4>1
    <3>2. CASE scanned # << >>
      BY <1>4, <2>1, <2>2, <3>2
    <3>3. QED
      BY <3>1, <3>2
  <2>4. Len(scanned') = n - before /\ offset' = 2 * n
    BY <1>1, <1>3, <1>4, <1>14, <2>2, <2>3
  <2>5. \A i \in DOMAIN scanned' : scanned'[i] = before + i
    <3>1. ASSUME NEW i \in 1..m PROVE scanned'[i] = before + i
      BY <1>4, <1>14, <2>1, <3>1
    <3>2. ASSUME NEW j \in 1..(n - k) PROVE scanned'[m + j] = before + (m + j)
      <4>1. scanned'[m + j] = k + j
        BY <1>3, <1>14, <1>16, <2>1, <3>2
      <4>2. QED
        BY <1>3, <1>4, <2>2, <2>3, <4>1
    <3>3. QED
      BY <1>14, <1>15, <3>1, <3>2
  <2>6. offset' <= LogFile!Size(1)'
    <3>1. LogFile!Size(1)' = 2 * n + Text(1) /\ Text(1) \in 0..1
      BY <1>1, <1>3, <2>1 DEF LogFile!Size, Text, n
    <3>2. QED
      BY <1>3, <2>4, <3>1
  <2>7. scanned' = << >> => n = before
    <3>1. scanned' = << >> => Len(scanned') = 0
      OBVIOUS
    <3>2. QED
      BY <1>3, <2>2, <2>4, <3>1
  <2>8. offset' = 2 * (before + Len(scanned'))
    BY <1>3, <2>2, <2>4
  <2>9. /\ path' = 1 /\ file' = 1 /\ lines' = lines /\ lines[1] = all
        /\ written' = written /\ Text(1)' = Text(1) /\ before' = before
        /\ Len(lines'[1]) = n
    BY <1>1, <2>1 DEF Text, n
  <2>10. QED
    BY <1>21, <2>1, <2>5, <2>6, <2>7, <2>8, <2>9 DEF FollowsTheFile
<1>25. QED
  BY <1>18, <1>20, <1>22, <1>23, <1>24 DEF FileInv

LEMMA FileNextInv == FileInv /\ [LogFile!Next]_fileVars => FileInv'
<1> SUFFICES ASSUME FileInv, [LogFile!Next]_fileVars PROVE FileInv'
  OBVIOUS
<1>1. ASSUME UNCHANGED <<lines, partial, path, used, written, file, offset, scanned, before,
                         rotated>>,
             tailStopped' \in BOOLEAN
      PROVE  FileInv'
  <2>1. LogFile!TypeOK'
    BY <1>1 DEF FileInv, LogFile!TypeOK
  <2>2. LinesGrow' /\ ScannedIsBehind'
    BY <1>1 DEF FileInv, LinesGrow, InOrder, ScannedIsBehind, Upcoming, Text, Passed
  <2>3. FollowsTheFile' /\ LogFile!ScannedInOrder'
    BY <1>1 DEF FileInv, FollowsTheFile, LogFile!ScannedInOrder, LogFile!Size, Text, Passed
  <2>4. QED
    BY <2>1, <2>2, <2>3 DEF FileInv
<1>2. CASE LogFile!Stop
  BY <1>1, <1>2 DEF LogFile!Stop, LogFile!fileVars
<1>3. CASE UNCHANGED fileVars
  <2>1. tailStopped' \in BOOLEAN
    BY <1>3 DEF fileVars, FileInv, LogFile!TypeOK
  <2>2. QED
    BY <1>1, <1>3, <2>1 DEF fileVars
<1>4. QED
  BY <1>2, <1>3, BeginLineKeepsInv, FinishLineKeepsInv, RotateKeepsInv, ReopenKeepsInv,
     ReadLinesKeepsInv DEF LogFile!Next

(* The two properties of a run are what the invariant says.                *)
LEMMA FileInvImplies ==
  FileInv => LogFile!ScannedInOrder /\ LogFile!NothingSkippedUnrotated
<1> SUFFICES ASSUME FileInv, ~ rotated
             PROVE  /\ scanned = [i \in 1..Len(scanned) |-> before + i]
                    /\ scanned # << >> => offset = 2 * scanned[Len(scanned)]
  BY DEF FileInv, LogFile!NothingSkippedUnrotated
<1>1. \A i \in DOMAIN scanned : scanned[i] = before + i
  BY DEF FileInv, FollowsTheFile
<1>2. /\ scanned \in Seq(LogFile!Lines) /\ DOMAIN scanned = 1..Len(scanned)
      /\ Len(scanned) \in Nat
  BY AdapterTypes DEF FileInv
<1>3. scanned = [i \in 1..Len(scanned) |-> before + i]
  BY <1>1, <1>2
<1>4. scanned # << >> => Len(scanned) \in DOMAIN scanned
  BY <1>2, EmptySeq
<1>5. QED
  BY <1>1, <1>3, <1>4 DEF FileInv, FollowsTheFile

-----------------------------------------------------------------------------
(***************************************************************************)
(* A followed command.  The scanning goroutine returns when the pipe is     *)
(* closed, which is when cmd.Wait has returned; so what Wait waited for has *)
(* to be carried along: the shell is gone, and the copying has ended with   *)
(* nobody left to write, or because an overlong line ended the scan.        *)
(***************************************************************************)
WaitMeansOver ==
  \A c \in Commands :
    /\ waited[c] => ~ shell[c] /\ ~ copying[c]
    /\ ~ copying[c] => tooLong[c] \/ (~ shell[c] /\ ~ child[c] /\ pipe[c] = 0)

CommandInv == LogCommand!TypeOK /\ WaitMeansOver /\ LogCommand!OutputReadToItsEnd

LEMMA CommandInitInv == LogCommand!Init => CommandInv
<1> SUFFICES ASSUME LogCommand!Init PROVE CommandInv
  OBVIOUS
<1>1. PICK started \in [Commands -> BOOLEAN] :
    /\ shell = started
    /\ child = [c \in Commands |-> started[c] /\ c \in HasChildren]
    /\ pipe = [c \in Commands |-> 0]
    /\ wrote = [c \in Commands |-> 0]
    /\ copying = started
    /\ waited = [c \in Commands |-> ~ started[c]]
    /\ killer = started
    /\ reader = [c \in Commands |-> IF started[c] THEN "scanning" ELSE "returned"]
    /\ tooLong = [c \in Commands |-> FALSE]
    /\ found = 0
    /\ cancelled = FALSE
    /\ stop = "no"
  BY DEF LogCommand!Init
<1>2. {PipeCap, OutCap, MaxLines} \subseteq Nat
  BY PartAssumptions DEF LogCommand!ProcessAssumption
<1>3. child \in [Commands -> BOOLEAN] /\ waited \in [Commands -> BOOLEAN]
      /\ tooLong \in [Commands -> BOOLEAN]
  BY <1>1, Zenon
<1>4. /\ pipe \in [Commands -> 0..PipeCap] /\ wrote \in [Commands -> 0..MaxLines]
      /\ reader \in [Commands -> {"scanning", "sending", "returned"}]
      /\ found \in 0..OutCap
  BY <1>1, <1>2
<1>5. LogCommand!TypeOK
  BY <1>1, <1>3, <1>4 DEF LogCommand!TypeOK
<1>6. \A c \in Commands :
        /\ waited[c] = ~ shell[c] /\ copying[c] = shell[c] /\ pipe[c] = 0
        /\ ~ shell[c] => ~ child[c]
        /\ reader[c] = "returned" => ~ shell[c]
  BY <1>1
<1>7. QED
  BY <1>5, <1>6 DEF CommandInv, WaitMeansOver, LogCommand!OutputReadToItsEnd

LEMMA CommandNextInv == CommandInv /\ [LogCommand!Next]_commandVars => CommandInv'
<1> SUFFICES ASSUME CommandInv, [LogCommand!Next]_commandVars PROVE CommandInv'
  OBVIOUS
<1>0. {PipeCap, OutCap, MaxLines} \subseteq Nat
  BY PartAssumptions DEF LogCommand!ProcessAssumption
<1> USE <1>0 DEF CommandInv, LogCommand!TypeOK, WaitMeansOver, LogCommand!OutputReadToItsEnd
<1>1. ASSUME NEW c \in Commands, LogCommand!Write(c) PROVE CommandInv'
  BY <1>1 DEF LogCommand!Write
<1>2. ASSUME NEW c \in Commands, LogCommand!ShellExits(c) \/ LogCommand!KilledByContext(c)
      PROVE  CommandInv'
  BY <1>2, ZenonT(40) DEF LogCommand!ShellExits, LogCommand!KilledByContext
<1>3. ASSUME NEW c \in Commands, LogCommand!ChildExits(c) PROVE CommandInv'
  BY <1>3 DEF LogCommand!ChildExits
<1>4. ASSUME NEW c \in Commands, LogCommand!ScanLine(c) PROVE CommandInv'
  BY <1>4 DEF LogCommand!ScanLine
<1>5. ASSUME NEW c \in Commands, LogCommand!ScanFails(c) PROVE CommandInv'
  BY <1>5 DEF LogCommand!ScanFails
<1>6. ASSUME NEW c \in Commands, LogCommand!ScanEnds(c) PROVE CommandInv'
  BY <1>6 DEF LogCommand!ScanEnds
<1>7. ASSUME NEW c \in Commands, LogCommand!Send(c) PROVE CommandInv'
  BY <1>7 DEF LogCommand!Send
<1>8. ASSUME NEW c \in Commands, LogCommand!CopyEnds(c) PROVE CommandInv'
  BY <1>8 DEF LogCommand!CopyEnds
<1>9. ASSUME NEW c \in Commands, LogCommand!WaitReturns(c) PROVE CommandInv'
  BY <1>9 DEF LogCommand!WaitReturns
<1>10. ASSUME NEW c \in Commands, LogCommand!Kill(c) PROVE CommandInv'
  BY <1>10 DEF LogCommand!Kill
<1>11. CASE LogCommand!Receive
  BY <1>11 DEF LogCommand!Receive
<1>12. CASE LogCommand!Cancel
  BY <1>12 DEF LogCommand!Cancel
<1>13. CASE LogCommand!Stop
  BY <1>13 DEF LogCommand!Stop
<1>14. CASE LogCommand!StopReturns
  BY <1>14 DEF LogCommand!StopReturns
<1>15. CASE UNCHANGED commandVars
  BY <1>15 DEF commandVars
<1>16. QED
  BY <1>1, <1>2, <1>3, <1>4, <1>5, <1>6, <1>7, <1>8, <1>9, <1>10, <1>11, <1>12,
     <1>13, <1>14, <1>15
     DEF LogCommand!Next, LogCommand!Goroutines, LogCommand!Scan

=============================================================================
