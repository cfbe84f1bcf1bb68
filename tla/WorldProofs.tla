---------------------------- MODULE WorldProofs -----------------------------
(***************************************************************************)
(* Theorems about the schedulers of a world, for any number of boards.     *)
(***************************************************************************)
EXTENDS MCWorld, TLAPS, NaturalsInduction, WellFoundedInduction, FiniteSetTheorems,
        SequenceTheorems

-----------------------------------------------------------------------------
(* Numbers and finite sets *)

(* Every non-empty set of natural numbers has a least element.             *)
LEMMA LeastNumber ==
    ASSUME NEW T \in SUBSET Nat, T # {}
    PROVE  \E x \in T : \A y \in T : x <= y
  <1>1. PICK x \in T : \A y \in T : ~(<<y, x>> \in OpToRel(<, Nat))
    BY WFMin, NatLessThanWellFounded
  <1>2. ASSUME NEW y \in T PROVE x <= y
    <2>1. <<y, x>> \in Nat \X Nat /\ <<y, x>>[1] = y /\ <<y, x>>[2] = x
      OBVIOUS
    <2>2. y < x => <<y, x>> \in OpToRel(<, Nat)
      BY <2>1, Zenon DEF OpToRel
    <2>3. ~(y < x)
      BY <1>1, <2>2, Zenon
    <2> QED
      BY <2>3
  <1> QED
    BY <1>2

(* A non-empty bounded set of natural numbers has a greatest element.      *)
LEMMA GreatestNumber ==
    ASSUME NEW T \in SUBSET Nat, T # {}, NEW u \in Nat, \A y \in T : y <= u
    PROVE  \E x \in T : \A y \in T : y <= x
  <1> DEFINE Over == {z \in Nat : \A y \in T : y <= z}
  <1>1. u \in Over /\ Over \in SUBSET Nat
    OBVIOUS
  <1>2. PICK x \in Over : \A z \in Over : x <= z
    <2> HIDE DEF Over
    <2> QED
      BY <1>1, LeastNumber
  <1>3. x \in T
    <2>1. SUFFICES ASSUME x \notin T PROVE FALSE
      OBVIOUS
    <2>2. PICK y \in T : TRUE
      OBVIOUS
    <2>3. x \in Nat /\ y <= x /\ y # x /\ y \in Nat
      BY <1>2, <2>1
    <2>4. x - 1 \in Over
      BY <1>2, <2>1, <2>3
    <2> QED
      BY <1>2, <2>3, <2>4
  <1> QED
    BY <1>2, <1>3

(* The values of a function over the first numbers are bounded.            *)
LEMMA ValuesBounded ==
    ASSUME NEW k \in Nat, NEW f \in [0..k -> Nat]
    PROVE  \E u \in Nat : \A b \in 0..k : f[b] <= u
  <1> DEFINE Bad == {j \in 0..k : ~ \E u \in Nat : \A b \in 0..j : f[b] <= u}
  <1>1. SUFFICES ASSUME Bad # {} PROVE FALSE
    <2>1. k \in 0..k
      OBVIOUS
    <2> QED
      BY <2>1
  <1>2. Bad \in SUBSET Nat
    OBVIOUS
  <1>3. PICK j \in Bad : \A i \in Bad : j <= i
    <2> HIDE DEF Bad
    <2> QED
      BY <1>1, <1>2, LeastNumber
  <1>4. j # 0
    <2>1. f[0] \in Nat /\ \A b \in 0..0 : f[b] <= f[0]
      OBVIOUS
    <2>2. 0 \notin Bad
      BY <2>1
    <2> HIDE DEF Bad
    <2> QED
      BY <1>3, <2>2
  <1>5. j \in 1..k /\ j - 1 \in 0..k /\ j - 1 \notin Bad
    <2>1. j \in 0..k
      BY <1>3
    <2> HIDE DEF Bad
    <2> QED
      BY <1>3, <1>4, <2>1
  <1>6. PICK u \in Nat : \A b \in 0..(j - 1) : f[b] <= u
    BY <1>5
  <1> DEFINE n == IF f[j] > u THEN f[j] ELSE u
  <1>7. n \in Nat /\ \A b \in 0..j : f[b] <= n
    BY <1>5, <1>6
  <1> QED
    BY <1>3, <1>7

(* The greatest value a function takes over the first numbers.             *)
LEMMA GreatestValue ==
    ASSUME NEW k \in Nat, NEW f \in [0..k -> Nat]
    PROVE  LET values == {f[b] : b \in 0..k}
               top == CHOOSE x \in values : \A y \in values : y <= x
           IN  /\ top \in Nat /\ \A b \in 0..k : f[b] <= top
               /\ \E b \in 0..k : f[b] = top
  <1> DEFINE values == {f[b] : b \in 0..k}
  <1>1. values \in SUBSET Nat /\ f[0] \in values
    OBVIOUS
  <1>2. PICK u \in Nat : \A b \in 0..k : f[b] <= u
    BY ValuesBounded
  <1>3. \A y \in values : y <= u
    BY <1>2
  <1>4. \E x \in values : \A y \in values : y <= x
    <2> HIDE DEF values
    <2>1. values # {}
      BY <1>1
    <2> QED
      BY <1>1, <1>3, <2>1, GreatestNumber
  <1> DEFINE top == CHOOSE x \in values : \A y \in values : y <= x
  <1>5. top \in values /\ \A y \in values : y <= top
    BY <1>4, Zenon
  <1> HIDE DEF top
  <1>6. /\ top \in Nat /\ \A b \in 0..k : f[b] <= top
        /\ \E b \in 0..k : f[b] = top
    BY <1>1, <1>5
  <1> QED
    BY <1>6 DEF top

-----------------------------------------------------------------------------
(* Lockstep bursts *)

LEMMA BurstLanesTyped ==
    /\ Cardinality(BurstLanes) \in Nat \ {0} /\ 0 \in BurstLanes
    /\ BurstLanes = 0..(Cardinality(BurstLanes) - 1) /\ IsFiniteSet(BurstLanes)
  <1>1. Cardinality(BurstLanes) \in Nat /\ Cardinality(BurstLanes) # 0
    BY BurstAssumption, FS_CardinalityType, FS_EmptySet
  <1> QED
    BY <1>1, BurstAssumption

(* A score is a number.                                                    *)
LEMMA ScoreTyped ==
    ASSUME NEW limits \in [BurstLanes -> Nat]
    PROVE  Score(limits) \in Nat
  <1> DEFINE part1(b) == {b} \X (1..limits[b])
             f == [b \in BurstLanes |-> part1(b)]
             parts == {part1(b) : b \in BurstLanes}
  <1>1. f \in Surjection(BurstLanes, parts)
    BY DEF Surjection
  <1>2. IsFiniteSet(parts)
    <2> HIDE DEF f, parts
    <2> QED
      BY <1>1, BurstLanesTyped, FS_Surjection
  <1>3. ASSUME NEW b \in BurstLanes PROVE IsFiniteSet(part1(b))
    <2>1. IsFiniteSet({b}) /\ IsFiniteSet(1..limits[b])
      <3>1. 1 \in Int /\ limits[b] \in Int
        OBVIOUS
      <3> QED
        BY <3>1, FS_Singleton, FS_Interval
    <2> QED
      BY <2>1, FS_Product
  <1>4. IsFiniteSet(UNION parts)
    <2>1. \A t \in parts : IsFiniteSet(t)
      BY <1>3
    <2> HIDE DEF parts
    <2> QED
      BY <1>2, <2>1, FS_UNION
  <1> QED
    BY <1>4, FS_CardinalityType DEF Score

(* In growing numbers the ones below a target are the first ones.          *)
LEMMA LowOnesFirst ==
    ASSUME NEW l \in Nat, NEW c \in [1..l -> Nat],
           \A i, j \in 1..l : i < j => c[i] < c[j],
           NEW a \in 1..(l + 1), NEW target \in Nat
    PROVE  \E k \in a..(l + 1) :
              /\ k = a + Cardinality({i \in a..l : c[i] < target})
              /\ \A i \in a..(k - 1) : c[i] < target
              /\ \A i \in k..l : c[i] >= target
  <1> DEFINE low == {i \in a..l : c[i] < target}
             high == {i \in a..l : c[i] >= target}
  <1>2. CASE high = {}
    <2>1. low = a..l
      BY <1>2
    <2>2. Cardinality(a..l) = IF a > l THEN 0 ELSE l - a + 1
      <3>1. a \in Int /\ l \in Int
        OBVIOUS
      <3> QED
        BY <3>1, FS_Interval
    <2>3. l + 1 = a + Cardinality(low) /\ l + 1 \in a..(l + 1)
      <3> HIDE DEF low
      <3> QED
        BY <2>1, <2>2
    <2>4. \A i \in a..(l + 1 - 1) : c[i] < target
      BY <2>1
    <2>5. \A i \in (l + 1)..l : c[i] >= target
      OBVIOUS
    <2> QED
      <3> WITNESS l + 1 \in a..(l + 1)
      <3> QED
        BY <2>3, <2>4, <2>5
  <1>3. CASE high # {}
    <2>0. high \in SUBSET Nat
      OBVIOUS
    <2>1. PICK h \in high : \A i \in high : h <= i
      <3> HIDE DEF high
      <3> QED
        BY <1>3, <2>0, LeastNumber
    <2>2. h \in a..l /\ c[h] >= target /\ h \in 1..l
      BY <2>1
    <2>3. \A i \in a..(h - 1) : c[i] < target
      <3>1. ASSUME NEW i \in a..(h - 1) PROVE c[i] < target
        <4>1. i \in a..l /\ ~(h <= i) /\ c[i] \in Nat
          BY <2>2
        <4>2. i \notin high
          BY <2>1, <4>1
        <4> QED
          BY <4>1, <4>2
      <3> QED
        BY <3>1
    <2>4. \A i \in h..l : c[i] >= target
      <3>1. ASSUME NEW i \in h..l, i # h PROVE c[i] >= target
        <4>1. i \in 1..l /\ h < i
          BY <2>2, <3>1
        <4>2. c[h] < c[i] /\ c[h] \in Nat /\ c[i] \in Nat
          BY <2>2, <4>1
        <4> QED
          BY <2>2, <4>2
      <3> QED
        BY <2>2, <3>1
    <2>5. low = a..(h - 1)
      <3>1. ASSUME NEW i \in low PROVE i \in a..(h - 1)
        BY <2>2, <2>4
      <3>2. ASSUME NEW i \in a..(h - 1) PROVE i \in low
        BY <2>2, <2>3
      <3> QED
        BY <3>1, <3>2
    <2>6. Cardinality(a..(h - 1)) = IF a > h - 1 THEN 0 ELSE h - 1 - a + 1
      <3>1. a \in Int /\ h - 1 \in Int
        BY <2>2
      <3> QED
        BY <3>1, FS_Interval
    <2>7. h = a + Cardinality(low) /\ h \in a..(l + 1)
      <3> HIDE DEF low
      <3> QED
        BY <2>2, <2>5, <2>6
    <2> QED
      BY <2>2, <2>3, <2>4, <2>7
  <1> QED
    BY <1>2, <1>3

(* The parts of a burst's state.                                           *)
BurstChoice == [score : Nat, elapsed : Nat, limits : [BurstLanes -> Nat]]
BurstMerging ==
    [phase : {"merge", "chosen"}, fc : [BurstLanes -> Forecasts],
     pure : [BurstLanes -> PureCounts], left : Nat \cup {-1}, idx : [BurstLanes -> Nat],
     best : BurstChoice, rounds : Nat]
BurstPaused == [phase : {"round", "left"}, left : Nat \cup {-1}, rounds : Nat]

(* The admissible choices, and what the merge has made of those it passed. *)
GoodChoices == {s \in PrefixChoices : Admissible(s)}
ScoreOf(s) == Score([b \in BurstLanes |-> Cost(b, s[b]).n])
ChoiceOf(s) == [score |-> ScoreOf(s), elapsed |-> Cost(0, s[0]).num \div BurstHz,
                limits |-> [b \in BurstLanes |-> Cost(b, s[b]).n]]
BestAmong(G) ==
    IF G = {} THEN burst.best = NoChoice
    ELSE \E s \in G : (\A t \in G : ScoreOf(t) <= ScoreOf(s)) /\ burst.best = ChoiceOf(s)

Passed(s) == \A b \in BurstLanes : s[b] < burst.idx[b]
Ahead(s) == \A b \in BurstLanes : s[b] >= burst.idx[b]

(* The merge has passed an admissible choice in every lane or in none, and *)
(* holds the best of those it passed.                                      *)
BurstInv ==
    \/ burst \in BurstPaused
    \/ /\ burst \in BurstMerging /\ burst.phase = "merge"
       /\ \A b \in BurstLanes : burst.idx[b] >= 1 /\ (AllHaveCosts => burst.idx[b] <= Len(burst.fc[b]))
       /\ \A s \in GoodChoices : Passed(s) \/ Ahead(s)
       /\ BestAmong({s \in GoodChoices : Passed(s)})
    \/ burst \in BurstMerging /\ burst.phase = "chosen" /\ BestAmong(GoodChoices)

(* The forecasts of a round as functions of numbers.                       *)
LEMMA ForecastTyped ==
    ASSUME burst \in BurstMerging, NEW b \in BurstLanes
    PROVE  /\ Len(burst.fc[b]) \in Nat /\ DOMAIN burst.fc[b] = 1..Len(burst.fc[b])
           /\ \A i \in 1..Len(burst.fc[b]) : Cost(b, i).num \in Nat /\ Cost(b, i).n \in Nat
           /\ \A i, j \in 1..Len(burst.fc[b]) : i < j => Cost(b, i).num < Cost(b, j).num
  <1>1. PICK f \in Forecasts : f = burst.fc[b]
    BY DEF BurstMerging
  <1>2. f \in Seq([n : Nat, num : Nat])
    BY BurstAssumption
  <1>3. Len(f) \in Nat /\ DOMAIN f = 1..Len(f) /\ \A i \in 1..Len(f) : f[i] \in [n : Nat, num : Nat]
    BY <1>2, LenProperties, ElementOfSeq
  <1>4. \A i, j \in 1..Len(f) : i < j => f[i].num < f[j].num
    BY <1>3, BurstAssumption
  <1> QED
    BY <1>1, <1>3, <1>4 DEF Cost

(* A choice picks an entry of every lane's forecast.                       *)
LEMMA GoodTyped ==
    ASSUME burst \in BurstMerging, NEW s \in GoodChoices
    PROVE  /\ \A b \in BurstLanes : s[b] \in 1..Len(burst.fc[b])
           /\ s = [b \in BurstLanes |-> s[b]]
           /\ \A b, c \in BurstLanes : Cost(b, s[b]).num = Cost(c, s[c]).num
           /\ ScoreOf(s) \in Nat /\ ChoiceOf(s) \in BurstChoice
  <1>1. s \in [BurstLanes -> UNION {DOMAIN f : f \in Forecasts}]
        /\ \A b \in BurstLanes : s[b] <= Len(burst.fc[b])
    BY DEF GoodChoices, PrefixChoices
  <1>2. ASSUME NEW b \in BurstLanes PROVE s[b] \in 1..Len(burst.fc[b])
    <2>1. PICK f \in Forecasts : s[b] \in DOMAIN f
      BY <1>1
    <2>2. f \in Seq([n : Nat, num : Nat])
      BY BurstAssumption
    <2>3. s[b] \in Nat /\ s[b] >= 1
      BY <2>1, <2>2
    <2> QED
      BY <1>1, <2>3, ForecastTyped
  <1>3. \A b, c \in BurstLanes : Cost(b, s[b]).num = Cost(c, s[c]).num
    BY DEF GoodChoices, Admissible
  <1> DEFINE limits == [b \in BurstLanes |-> Cost(b, s[b]).n]
  <1>4. limits \in [BurstLanes -> Nat]
    BY <1>2, ForecastTyped
  <1>5. ScoreOf(s) \in Nat
    <2> HIDE DEF limits
    <2>1. Score(limits) \in Nat
      BY <1>4, ScoreTyped
    <2> QED
      BY <2>1 DEF ScoreOf, limits
  <1>6. Cost(0, s[0]).num \div BurstHz \in Nat
    <2>1. Cost(0, s[0]).num \in Nat /\ BurstHz \in Nat \ {0}
      BY <1>2, ForecastTyped, BurstLanesTyped, BurstAssumption
    <2> QED
      BY <2>1
  <1>7. ChoiceOf(s) \in BurstChoice
    BY <1>4, <1>5, <1>6 DEF ChoiceOf, BurstChoice
  <1> QED
    BY <1>1, <1>2, <1>3, <1>5, <1>7

(* The target of a merge step and the entries the lanes skip to.           *)
MergeTarget ==
    LET nums == {Cost(b, burst.idx[b]).num : b \in BurstLanes}
    IN  CHOOSE x \in nums : \A y \in nums : y <= x
MergeIdx == [b \in BurstLanes |-> Skipped(b, MergeTarget)]

Merging ==
    /\ burst \in BurstMerging /\ burst.phase = "merge" /\ AllHaveCosts
    /\ \A b \in BurstLanes : burst.idx[b] >= 1 /\ burst.idx[b] <= Len(burst.fc[b])

LEMMA TargetGreatest ==
    ASSUME Merging
    PROVE  MergeTarget \in Nat /\ \A b \in BurstLanes : Cost(b, burst.idx[b]).num <= MergeTarget
  <1> DEFINE k == Cardinality(BurstLanes) - 1
             f == [b \in 0..k |-> Cost(b, burst.idx[b]).num]
             values == {f[b] : b \in 0..k}
             top == CHOOSE x \in values : \A y \in values : y <= x
  <1>1. k \in Nat /\ BurstLanes = 0..k
    BY BurstLanesTyped
  <1>2. f \in [0..k -> Nat]
    <2>1. ASSUME NEW b \in BurstLanes PROVE Cost(b, burst.idx[b]).num \in Nat
      <3>1. burst.idx[b] \in 1..Len(burst.fc[b])
        BY ForecastTyped DEF Merging, BurstMerging
      <3> QED
        BY <3>1, ForecastTyped DEF Merging
    <2> QED
      BY <1>1, <2>1
  <1>3. top \in Nat /\ \A b \in 0..k : f[b] <= top
    <2> HIDE DEF k, f
    <2> QED
      BY <1>1, <1>2, GreatestValue
  <1>4. values = {Cost(b, burst.idx[b]).num : b \in BurstLanes}
    BY <1>1
  <1>5. top = MergeTarget
    BY <1>4 DEF MergeTarget
  <1> HIDE DEF top, values
  <1> QED
    BY <1>1, <1>3, <1>5

(* Every lane skips exactly the prefixes that end before the target.       *)
LEMMA SkipExact ==
    ASSUME Merging, NEW b \in BurstLanes
    PROVE  /\ MergeIdx[b] \in burst.idx[b]..(Len(burst.fc[b]) + 1)
           /\ \A i \in burst.idx[b]..(MergeIdx[b] - 1) : Cost(b, i).num < MergeTarget
           /\ \A i \in MergeIdx[b]..Len(burst.fc[b]) : Cost(b, i).num >= MergeTarget
  <1> DEFINE l == Len(burst.fc[b])
             c == [i \in 1..l |-> Cost(b, i).num]
  <1>1. l \in Nat /\ c \in [1..l -> Nat] /\ \A i, j \in 1..l : i < j => c[i] < c[j]
    BY ForecastTyped DEF Merging
  <1>2. burst.idx[b] \in 1..l
    BY ForecastTyped DEF Merging, BurstMerging
  <1>3. PICK a : a = burst.idx[b]
    OBVIOUS
  <1>4. PICK target : target = MergeTarget
    OBVIOUS
  <1>5. a \in 1..(l + 1) /\ target \in Nat
    BY <1>1, <1>2, <1>3, <1>4, TargetGreatest
  <1>6. PICK k \in a..(l + 1) :
              /\ k = a + Cardinality({i \in a..l : c[i] < target})
              /\ \A i \in a..(k - 1) : c[i] < target
              /\ \A i \in k..l : c[i] >= target
    <2> HIDE DEF c, l
    <2> QED
      BY <1>1, <1>5, LowOnesFirst
  <1>7. {i \in a..l : c[i] < target} = {i \in a..l : Cost(b, i).num < target}
    BY <1>1, <1>2, <1>3
  <1>8. k = MergeIdx[b]
    BY <1>3, <1>4, <1>6, <1>7 DEF MergeIdx, Skipped
  <1>0. \A i \in 1..l : c[i] = Cost(b, i).num
    OBVIOUS
  <1>9. \A i \in a..(k - 1) : Cost(b, i).num < target
    <2> HIDE DEF c, l
    <2>1. \A i \in a..(k - 1) : i \in 1..l
      BY <1>1, <1>2, <1>3
    <2> QED
      BY <1>0, <1>6, <2>1
  <1>10. \A i \in k..l : Cost(b, i).num >= target
    <2> HIDE DEF c, l
    <2>1. \A i \in k..l : i \in 1..l
      BY <1>1, <1>2, <1>3
    <2> QED
      BY <1>0, <1>6, <2>1
  <1> QED
    BY <1>3, <1>4, <1>6, <1>8, <1>9, <1>10

(* An admissible choice not yet passed is still ahead after the skip.      *)
LEMMA AheadOfSkip ==
    ASSUME Merging, NEW s \in GoodChoices, Ahead(s), NEW b \in BurstLanes
    PROVE  s[b] >= MergeIdx[b] /\ s[b] \in 1..Len(burst.fc[b]) /\ MergeIdx[b] \in Nat
           /\ Cost(b, s[b]).num >= MergeTarget
  <1>1. \A c \in BurstLanes : s[c] \in 1..Len(burst.fc[c]) /\ burst.idx[c] \in 1..Len(burst.fc[c])
    BY GoodTyped, ForecastTyped DEF Merging, BurstMerging
  <1>2. PICK c \in BurstLanes : Cost(c, burst.idx[c]).num = MergeTarget
    <2> DEFINE nums == {Cost(d, burst.idx[d]).num : d \in BurstLanes}
    <2>1. MergeTarget \in nums
      <3>1. \E x \in nums : \A y \in nums : y <= x
        <4> DEFINE k == Cardinality(BurstLanes) - 1
                   f == [d \in 0..k |-> Cost(d, burst.idx[d]).num]
        <4>1. k \in Nat /\ BurstLanes = 0..k
          BY BurstLanesTyped
        <4>2. f \in [0..k -> Nat]
          BY <1>1, <4>1, ForecastTyped DEF Merging
        <4>3. PICK u \in Nat : \A d \in 0..k : f[d] <= u
          <5> HIDE DEF f, k
          <5> QED
            BY <4>1, <4>2, ValuesBounded
        <4>4. nums \in SUBSET Nat /\ nums # {} /\ \A y \in nums : y <= u
          BY <4>1, <4>2, <4>3, BurstLanesTyped
        <4> HIDE DEF nums
        <4> QED
          BY <4>4, GreatestNumber
      <3> QED
        BY <3>1 DEF MergeTarget
    <2> QED
      BY <2>1
  <1>3. Cost(c, s[c]).num >= MergeTarget
    <2>1. s[c] = burst.idx[c] \/ burst.idx[c] < s[c]
      BY <1>1 DEF Ahead
    <2>2. Cost(c, s[c]).num \in Nat /\ Cost(c, burst.idx[c]).num \in Nat
      BY <1>1, ForecastTyped DEF Merging
    <2>3. burst.idx[c] < s[c] => Cost(c, burst.idx[c]).num < Cost(c, s[c]).num
      BY <1>1, ForecastTyped DEF Merging
    <2> QED
      BY <1>2, <2>1, <2>2, <2>3
  <1>4. Cost(b, s[b]).num >= MergeTarget
    BY <1>3, GoodTyped DEF Merging
  <1>5. ~(s[b] \in burst.idx[b]..(MergeIdx[b] - 1))
    <2>1. Cost(b, s[b]).num \in Nat /\ MergeTarget \in Nat
      BY <1>1, ForecastTyped, TargetGreatest DEF Merging
    <2> QED
      BY <1>4, <2>1, SkipExact
  <1> QED
    BY <1>1, <1>4, <1>5, SkipExact, ForecastTyped DEF Ahead, Merging

(* While a round lasts its forecasts, and so the choices, stay.            *)
SameRound ==
    /\ burst \in BurstMerging /\ burst' \in BurstMerging
    /\ burst'.fc = burst.fc /\ burst'.pure = burst.pure /\ burst'.left = burst.left

LEMMA SameChoices ==
    ASSUME SameRound
    PROVE  /\ GoodChoices' = GoodChoices
           /\ \A s : ScoreOf(s)' = ScoreOf(s) /\ ChoiceOf(s)' = ChoiceOf(s)
  <1>1. \A b, i : Cost(b, i)' = Cost(b, i)
    BY DEF SameRound, Cost
  <1>2. PrefixChoices' = PrefixChoices
    BY DEF SameRound, PrefixChoices
  <1>3. \A s : Admissible(s)' <=> Admissible(s)
    BY <1>1 DEF SameRound, Admissible
  <1>4. GoodChoices' = GoodChoices
    BY <1>2, <1>3 DEF GoodChoices
  <1>5. \A s : ScoreOf(s)' = ScoreOf(s)
    BY <1>1 DEF ScoreOf
  <1>6. \A s : ChoiceOf(s)' = ChoiceOf(s)
    BY <1>1, <1>5 DEF ChoiceOf
  <1> QED
    BY <1>4, <1>5, <1>6

(* The same candidate stays the best of the same choices.                  *)
LEMMA BestStays ==
    ASSUME SameRound, burst'.best = burst.best, NEW G, BestAmong(G)
    PROVE  BestAmong(G)'
  BY SameChoices DEF BestAmong

(* A step that ends with the highest-scoring one has the best.             *)
LEMMA BestIs ==
    ASSUME NEW G, NEW s \in G, SameRound, burst'.best = ChoiceOf(s),
           \A t \in G : ScoreOf(t) <= ScoreOf(s)
    PROVE  BestAmong(G)'
  <1>1. \A t : ScoreOf(t)' = ScoreOf(t) /\ ChoiceOf(t)' = ChoiceOf(t)
    BY SameChoices
  <1> QED
    BY <1>1 DEF BestAmong

(* No lane has entries left: every choice has been passed.                 *)
LEMMA NoneAhead ==
    ASSUME burst \in BurstMerging, \A s \in GoodChoices : Passed(s) \/ Ahead(s),
           \A s \in GoodChoices : ~Ahead(s), BestAmong({s \in GoodChoices : Passed(s)})
    PROVE  BestAmong(GoodChoices)
  <1>1. {s \in GoodChoices : Passed(s)} = GoodChoices
    OBVIOUS
  <1> QED
    BY <1>1

(* The candidate of a merge step.                                          *)
MergeLimits == [b \in BurstLanes |-> Cost(b, MergeIdx[b]).n]
MergeCandidate == [score |-> Score(MergeLimits), elapsed |-> MergeTarget \div BurstHz,
                   limits |-> MergeLimits]
MergePast == \E b \in BurstLanes : MergeIdx[b] > Len(burst.fc[b])
MergeShared == \A b \in BurstLanes : Cost(b, MergeIdx[b]).num = MergeTarget
MergeTakes == /\ MergeShared /\ AllPrefixesPure(MergeIdx)
              /\ (\E b \in BurstLanes : MergeLimits[b] > 1) /\ Better(MergeCandidate)
MergeOn == [b \in BurstLanes |-> MergeIdx[b] + 1]

LEMMA MergeStepSays ==
    ASSUME MergeStep
    PROVE  IF MergePast THEN burst' = [burst EXCEPT !.phase = "chosen"]
           ELSE burst' = [burst EXCEPT
                    !.best = IF MergeTakes THEN MergeCandidate ELSE burst.best,
                    !.idx = IF MergeShared THEN MergeOn ELSE MergeIdx,
                    !.phase = IF MergeShared /\ \E b \in BurstLanes : MergeOn[b] > Len(burst.fc[b])
                              THEN "chosen" ELSE "merge"]
  BY DEF MergeStep, MergePast, MergeShared, MergeTakes, MergeCandidate, MergeLimits, MergeOn,
         MergeIdx, MergeTarget

(* Where a merge step that is not past the end puts the lanes.             *)
LEMMA MergeIdxTyped ==
    ASSUME Merging, ~MergePast, NEW b \in BurstLanes
    PROVE  /\ MergeIdx[b] \in 1..Len(burst.fc[b]) /\ burst.idx[b] <= MergeIdx[b]
           /\ Cost(b, MergeIdx[b]).num \in Nat /\ Cost(b, MergeIdx[b]).n \in Nat
  <1>1. burst.idx[b] \in Nat \ {0} /\ Len(burst.fc[b]) \in Nat
    BY ForecastTyped DEF Merging, BurstMerging
  <1>2. MergeIdx[b] \in burst.idx[b]..(Len(burst.fc[b]) + 1)
    BY SkipExact
  <1>3. MergeIdx[b] \in 1..Len(burst.fc[b]) /\ burst.idx[b] <= MergeIdx[b]
    BY <1>1, <1>2 DEF MergePast
  <1> QED
    BY <1>3, ForecastTyped DEF Merging

(* A shared candidate is taken into account exactly when it is admissible, *)
(* and it is the only choice the step passes.                              *)
LEMMA CandidateIsChoice ==
    ASSUME Merging, ~MergePast, MergeShared
    PROVE  /\ MergeIdx \in GoodChoices <=>
                 /\ AllPrefixesPure(MergeIdx) /\ \E b \in BurstLanes : MergeLimits[b] > 1
                 /\ MergeCandidate.elapsed # 0
                 /\ burst.left = -1 \/ MergeCandidate.elapsed <= burst.left
           /\ MergeCandidate = ChoiceOf(MergeIdx) /\ MergeCandidate.score = ScoreOf(MergeIdx)
           /\ MergeCandidate \in BurstChoice
  <1>0. 0 \in BurstLanes /\ BurstHz \in Nat \ {0} /\ MergeTarget \in Nat
    BY BurstLanesTyped, BurstAssumption, TargetGreatest
  <1>1. MergeIdx \in PrefixChoices
    <2>1. ASSUME NEW b \in BurstLanes
          PROVE  MergeIdx[b] \in UNION {DOMAIN f : f \in Forecasts} /\ MergeIdx[b] <= Len(burst.fc[b])
      <3>1. MergeIdx[b] \in DOMAIN burst.fc[b] /\ MergeIdx[b] <= Len(burst.fc[b])
        BY MergeIdxTyped, ForecastTyped DEF Merging
      <3>2. burst.fc[b] \in Forecasts
        BY DEF Merging, BurstMerging
      <3> QED
        BY <3>1, <3>2
    <2> QED
      BY <2>1 DEF PrefixChoices, MergeIdx
  <1>2. Cost(0, MergeIdx[0]).num = MergeTarget
    BY <1>0 DEF MergeShared
  <1>3. MergeCandidate.elapsed = MergeTarget \div BurstHz /\ MergeCandidate.score = Score(MergeLimits)
    BY DEF MergeCandidate
  <1>4. MergeTarget >= BurstHz <=> MergeTarget \div BurstHz # 0
    BY <1>0
  <1>5. Admissible(MergeIdx) <=>
                 /\ AllPrefixesPure(MergeIdx) /\ \E b \in BurstLanes : MergeLimits[b] > 1
                 /\ MergeCandidate.elapsed # 0
                 /\ burst.left = -1 \/ MergeCandidate.elapsed <= burst.left
    BY <1>2, <1>3, <1>4 DEF Admissible, AllPrefixesPure, MergeLimits, MergeShared
  <1>6. MergeLimits \in [BurstLanes -> Nat]
    BY MergeIdxTyped DEF MergeLimits
  <1>7. MergeCandidate = ChoiceOf(MergeIdx) /\ MergeCandidate.score = ScoreOf(MergeIdx)
    BY <1>2, <1>3 DEF MergeCandidate, ChoiceOf, ScoreOf, MergeLimits
  <1>8. MergeCandidate \in BurstChoice
    <2>1. Score(MergeLimits) \in Nat /\ MergeTarget \div BurstHz \in Nat
      BY <1>0, <1>6, ScoreTyped
    <2> QED
      BY <1>6, <2>1 DEF MergeCandidate, BurstChoice
  <1> QED
    BY <1>1, <1>5, <1>7, <1>8 DEF GoodChoices

LEMMA OnlyCandidatePassed ==
    ASSUME Merging, ~MergePast, MergeShared, NEW s \in GoodChoices, Ahead(s), s # MergeIdx,
           NEW b \in BurstLanes
    PROVE  s[b] >= MergeIdx[b] + 1
  <1>1. SUFFICES ASSUME s[b] = MergeIdx[b] PROVE FALSE
    BY AheadOfSkip, MergeIdxTyped
  <1>2. ASSUME NEW c \in BurstLanes PROVE s[c] = MergeIdx[c]
    <2>1. Cost(c, s[c]).num = MergeTarget /\ Cost(c, MergeIdx[c]).num = MergeTarget
      BY <1>1, GoodTyped DEF Merging, MergeShared
    <2>2. s[c] \in 1..Len(burst.fc[c]) /\ MergeIdx[c] \in 1..Len(burst.fc[c]) /\ s[c] >= MergeIdx[c]
      BY AheadOfSkip, MergeIdxTyped
    <2>3. MergeIdx[c] < s[c] => Cost(c, MergeIdx[c]).num < Cost(c, s[c]).num
      BY <2>2, ForecastTyped DEF Merging
    <2> QED
      BY <2>1, <2>2, <2>3, TargetGreatest
  <1>3. s = [c \in BurstLanes |-> s[c]] /\ MergeIdx = [c \in BurstLanes |-> MergeIdx[c]]
    BY GoodTyped DEF Merging, MergeIdx
  <1> QED
    BY <1>2, <1>3

(* A merge step keeps the invariant.                                       *)
LEMMA MergeStepKeeps ==
    ASSUME BurstInv, MergeStep
    PROVE  BurstInv'
  <1>1. Merging /\ (\A s \in GoodChoices : Passed(s) \/ Ahead(s))
        /\ BestAmong({s \in GoodChoices : Passed(s)})
    BY DEF BurstInv, MergeStep, Merging, BurstPaused, BurstMerging
  <1>2. burst \in BurstMerging
    BY <1>1 DEF Merging
  <1>3. CASE MergePast
    <2>1. burst' = [burst EXCEPT !.phase = "chosen"]
      BY <1>3, MergeStepSays
    <2>2. SameRound /\ burst'.best = burst.best /\ burst'.phase = "chosen"
      BY <1>2, <2>1 DEF SameRound, BurstMerging
    <2>3. \A s \in GoodChoices : ~Ahead(s)
      <3>1. PICK b \in BurstLanes : MergeIdx[b] > Len(burst.fc[b])
        BY <1>3 DEF MergePast
      <3>2. ASSUME NEW s \in GoodChoices, Ahead(s) PROVE FALSE
        BY <1>1, <3>1, <3>2, AheadOfSkip
      <3> QED
        BY <3>2
    <2>4. BestAmong(GoodChoices)
      BY <1>1, <1>2, <2>3, NoneAhead
    <2>5. PICK G : G = GoodChoices
      OBVIOUS
    <2>6. BestAmong(G)' /\ GoodChoices' = G
      BY <2>2, <2>4, <2>5, BestStays, SameChoices
    <2> QED
      BY <2>2, <2>6 DEF BurstInv, SameRound, BestAmong
  <1>4. CASE ~MergePast
    <2> DEFINE best == IF MergeTakes THEN MergeCandidate ELSE burst.best
               idx == IF MergeShared THEN MergeOn ELSE MergeIdx
               phase == IF MergeShared /\ \E b \in BurstLanes : MergeOn[b] > Len(burst.fc[b])
                        THEN "chosen" ELSE "merge"
               P == {s \in GoodChoices : Passed(s)}
               Q == {s \in GoodChoices : \A b \in BurstLanes : s[b] < idx[b]}
    <2>1. burst' = [burst EXCEPT !.best = best, !.idx = idx, !.phase = phase]
      BY <1>4, MergeStepSays
    <2>2. idx \in [BurstLanes -> Nat] /\ \A b \in BurstLanes : idx[b] >= 1
      <3>1. \A b \in BurstLanes : MergeIdx[b] \in Nat /\ MergeIdx[b] >= 1
        BY <1>1, <1>4, MergeIdxTyped
      <3> QED
        BY <3>1 DEF MergeOn, MergeIdx
    <2>3. best \in BurstChoice
      <3>1. CASE MergeTakes
        BY <1>1, <1>4, <3>1, CandidateIsChoice DEF MergeTakes
      <3>2. CASE ~MergeTakes
        BY <1>2, <3>2 DEF BurstMerging
      <3> QED
        BY <3>1, <3>2
    <2>4. phase \in {"merge", "chosen"}
      OBVIOUS
    <2>5. /\ SameRound /\ burst'.best = best /\ burst'.idx = idx /\ burst'.phase = phase
      <3> HIDE DEF best, idx, phase
      <3> QED
        BY <1>2, <2>1, <2>2, <2>3, <2>4 DEF SameRound, BurstMerging
    <2>6. GoodChoices' = GoodChoices /\ \A s : ScoreOf(s)' = ScoreOf(s) /\ ChoiceOf(s)' = ChoiceOf(s)
      BY <2>5, SameChoices
    <2>7. \A s \in GoodChoices : (Passed(s)' <=> s \in Q) /\ (Ahead(s)' <=> \A b \in BurstLanes : s[b] >= idx[b])
      BY <2>5 DEF Passed, Ahead
    <2>8. \A s \in GoodChoices : \A b \in BurstLanes :
              s[b] \in Nat /\ burst.idx[b] \in Nat /\ MergeIdx[b] \in Nat /\ burst.idx[b] <= MergeIdx[b]
      <3>1. \A s \in GoodChoices : \A b \in BurstLanes : s[b] \in Nat
        BY <1>2, GoodTyped
      <3>2. \A b \in BurstLanes : burst.idx[b] \in Nat
        BY <1>2 DEF BurstMerging
      <3>3. \A b \in BurstLanes : MergeIdx[b] \in Nat /\ burst.idx[b] <= MergeIdx[b]
        BY <1>1, <1>4, MergeIdxTyped
      <3> QED
        BY <3>1, <3>2, <3>3
    <2>90. PICK G : G = Q
      OBVIOUS
    <2>9. (\A s \in GoodChoices : s \in Q \/ \A b \in BurstLanes : s[b] >= idx[b]) /\ BestAmong(G)'
      <3>1. CASE ~MergeShared
        <4>1. idx = MergeIdx /\ best = burst.best
          BY <3>1 DEF MergeTakes
        <4>2. ASSUME NEW s \in GoodChoices
              PROVE  (Passed(s) => s \in Q) /\ (Ahead(s) => \A b \in BurstLanes : s[b] >= idx[b])
          <5>1. Ahead(s) => \A b \in BurstLanes : s[b] >= idx[b]
            BY <1>1, <4>1, AheadOfSkip
          <5>2. Passed(s) => s \in Q
            BY <2>8, <4>1 DEF Passed
          <5> QED
            BY <5>1, <5>2
        <4>3. ASSUME NEW s \in Q PROVE Passed(s)
          <5>1. s \in GoodChoices /\ s[0] < idx[0] /\ idx[0] \in Nat /\ s[0] \in Nat
            BY <2>2, <2>8, BurstLanesTyped
          <5>2. Ahead(s) => s[0] >= idx[0]
            BY <4>2, <5>1, BurstLanesTyped
          <5> QED
            BY <1>1, <5>1, <5>2
        <4>4. P = Q
          BY <4>2, <4>3
        <4>5. BestAmong(Q)
          BY <1>1, <4>4
        <4>7. BestAmong(G)'
          BY <2>5, <2>90, <4>1, <4>5, BestStays
        <4> QED
          BY <1>1, <4>2, <4>7
      <3>2. CASE MergeShared
        <4>1. idx = MergeOn /\ \A b \in BurstLanes : idx[b] = MergeIdx[b] + 1
          BY <3>2 DEF MergeOn
        <4>2. ASSUME NEW s \in GoodChoices, s # MergeIdx
              PROVE  (Passed(s) => s \in Q) /\ (Ahead(s) => \A b \in BurstLanes : s[b] >= idx[b])
          <5>1. Ahead(s) => \A b \in BurstLanes : s[b] >= idx[b]
            BY <1>1, <1>4, <3>2, <4>1, <4>2, OnlyCandidatePassed
          <5>2. Passed(s) => s \in Q
            BY <2>8, <4>1 DEF Passed
          <5> QED
            BY <5>1, <5>2
        <4>3. ASSUME NEW s \in Q, s # MergeIdx PROVE Passed(s)
          <5>1. s \in GoodChoices /\ s[0] < idx[0] /\ idx[0] \in Nat /\ s[0] \in Nat
            BY <2>2, <2>8, BurstLanesTyped
          <5>2. Ahead(s) => s[0] >= idx[0]
            BY <4>2, <4>3, <5>1, BurstLanesTyped
          <5> QED
            BY <1>1, <5>1, <5>2
        <4>4. MergeIdx \in GoodChoices => MergeIdx \in Q /\ ~Passed(MergeIdx)
          <5>1. ASSUME MergeIdx \in GoodChoices PROVE \A b \in BurstLanes : MergeIdx[b] < idx[b]
            BY <2>8, <4>1, <5>1
          <5>2. ASSUME MergeIdx \in GoodChoices, Passed(MergeIdx) PROVE FALSE
            BY <2>8, <5>2, BurstLanesTyped DEF Passed
          <5> QED
            BY <5>1, <5>2
        <4>5. \A s \in GoodChoices : s \in Q \/ \A b \in BurstLanes : s[b] >= idx[b]
          BY <1>1, <4>2, <4>4
        <4>6. CASE MergeIdx \notin GoodChoices
          <5>1. best = burst.best
            BY <1>1, <1>4, <3>2, <4>6, CandidateIsChoice DEF MergeTakes, Better
          <5>2. P = Q
            BY <4>2, <4>3, <4>6
          <5>3. BestAmong(Q)
            BY <1>1, <5>2
          <5>5. BestAmong(G)'
            BY <2>5, <2>90, <5>1, <5>3, BestStays
          <5> QED
            BY <4>5, <5>5
        <4>7. CASE MergeIdx \in GoodChoices
          <5>1. /\ AllPrefixesPure(MergeIdx) /\ \E b \in BurstLanes : MergeLimits[b] > 1
                /\ MergeCandidate.elapsed # 0
                /\ burst.left = -1 \/ MergeCandidate.elapsed <= burst.left
                /\ MergeCandidate = ChoiceOf(MergeIdx) /\ MergeCandidate.score = ScoreOf(MergeIdx)
                /\ MergeCandidate \in BurstChoice
            BY <1>1, <1>4, <3>2, <4>7, CandidateIsChoice
          <5>2. MergeTakes <=> (MergeCandidate.score > burst.best.score
                    \/ (MergeCandidate.score = burst.best.score
                          /\ MergeCandidate.elapsed > burst.best.elapsed))
            BY <3>2, <5>1 DEF MergeTakes, Better
          <5>3. Q = P \cup {MergeIdx}
            BY <4>2, <4>3, <4>4, <4>7
          <5>4. ASSUME NEW t \in Q PROVE ScoreOf(t) \in Nat
            BY <1>2, GoodTyped
          <5>5. CASE P = {}
            <6>1. burst.best = NoChoice
              BY <1>1, <5>5 DEF BestAmong
            <6>2. MergeTakes
              BY <5>1, <5>2, <6>1 DEF NoChoice, BurstChoice
            <6>3. best = ChoiceOf(MergeIdx)
              BY <5>1, <6>2
            <6>4. Q = {MergeIdx}
              BY <5>3, <5>5
            <6>5. ScoreOf(MergeIdx) <= ScoreOf(MergeIdx)
              BY <5>4, <6>4
            <6>6. MergeIdx \in G /\ \A t \in G : ScoreOf(t) <= ScoreOf(MergeIdx)
              BY <2>90, <6>4, <6>5
            <6>7. BestAmong(G)'
              BY <2>5, <2>6, <6>3, <6>6, BestIs
            <6> QED
              BY <4>5, <6>7
          <5>6. CASE P # {}
            <6>1. PICK s \in P : (\A t \in P : ScoreOf(t) <= ScoreOf(s)) /\ burst.best = ChoiceOf(s)
              BY <1>1, <5>6 DEF BestAmong
            <6>2. burst.best.score = ScoreOf(s) /\ ScoreOf(s) \in Nat /\ ScoreOf(MergeIdx) \in Nat
              BY <5>3, <5>4, <6>1 DEF ChoiceOf
            <6>3. CASE MergeTakes
              <7>1. ScoreOf(s) <= ScoreOf(MergeIdx)
                BY <5>1, <5>2, <6>2, <6>3
              <7>2. \A t \in Q : ScoreOf(t) <= ScoreOf(MergeIdx)
                BY <5>3, <5>4, <6>1, <6>2, <7>1
              <7>3. best = ChoiceOf(MergeIdx) /\ MergeIdx \in Q
                BY <5>1, <5>3, <6>3
              <7>4. MergeIdx \in G /\ \A t \in G : ScoreOf(t) <= ScoreOf(MergeIdx)
                BY <2>90, <7>2, <7>3
              <7>5. BestAmong(G)'
                BY <2>5, <2>6, <7>3, <7>4, BestIs
              <7> QED
                BY <4>5, <7>5
            <6>4. CASE ~MergeTakes
              <7>1. ScoreOf(MergeIdx) <= ScoreOf(s)
                BY <5>1, <5>2, <6>2, <6>4
              <7>2. \A t \in Q : ScoreOf(t) <= ScoreOf(s)
                BY <5>3, <5>4, <6>1, <6>2, <7>1
              <7>3. best = ChoiceOf(s) /\ s \in Q
                BY <5>3, <6>1, <6>4
              <7>4. s \in G /\ \A t \in G : ScoreOf(t) <= ScoreOf(s)
                BY <2>90, <7>2, <7>3
              <7>5. BestAmong(G)'
                BY <2>5, <2>6, <7>3, <7>4, BestIs
              <7> QED
                BY <4>5, <7>5
            <6> QED
              BY <6>3, <6>4
          <5> QED
            BY <5>5, <5>6
        <4> QED
          BY <4>6, <4>7
      <3> QED
        BY <3>1, <3>2
    <2>10. burst' \in BurstMerging
      BY <2>5 DEF SameRound
    <2>11. Q = {s \in GoodChoices : Passed(s)}'
      <3> HIDE DEF idx
      <3> QED
        BY <2>5, <2>6 DEF Passed
    <2>12. CASE phase = "merge"
      <3>1. ASSUME NEW b \in BurstLanes
            PROVE  burst'.idx[b] >= 1 /\ burst'.idx[b] <= Len(burst'.fc[b])
        <4>1. burst'.idx[b] = idx[b] /\ burst'.fc = burst.fc
          BY <2>5 DEF SameRound
        <4>2. MergeIdx[b] \in 1..Len(burst.fc[b]) /\ Len(burst.fc[b]) \in Nat
          BY <1>1, <1>2, <1>4, MergeIdxTyped, ForecastTyped
        <4>3. idx[b] <= Len(burst.fc[b])
          BY <2>12, <4>2 DEF MergeOn
        <4> QED
          BY <2>2, <4>1, <4>3
      <3>2. \A s \in GoodChoices' : Passed(s)' \/ Ahead(s)'
        BY <2>6, <2>7, <2>9
      <3>3. BestAmong({s \in GoodChoices : Passed(s)})'
        <4>1. {s \in GoodChoices : Passed(s)}' = G
          BY <2>11, <2>90
        <4> QED
          BY <2>9, <4>1 DEF BestAmong
      <3> HIDE DEF phase
      <3> QED
        BY <2>5, <2>10, <2>12, <3>1, <3>2, <3>3 DEF BurstInv
    <2>13. CASE phase = "chosen"
      <3>1. PICK b \in BurstLanes : MergeOn[b] > Len(burst.fc[b])
        BY <2>13
      <3>2. MergeShared
        BY <2>13
      <3>3. ASSUME NEW s \in GoodChoices PROVE s \in Q
        <4>1. s[b] \in 1..Len(burst.fc[b]) /\ Len(burst.fc[b]) \in Nat
          BY <1>2, GoodTyped, ForecastTyped
        <4>2. idx[b] = MergeOn[b] /\ idx[b] \in Nat
          BY <2>2, <3>2
        <4>3. ~(s[b] >= idx[b])
          BY <3>1, <4>1, <4>2
        <4> QED
          BY <2>9, <4>3
      <3>4. Q = GoodChoices'
        BY <2>6, <3>3
      <3>5. BestAmong(GoodChoices)'
        <4>1. GoodChoices' = G
          BY <2>90, <3>4
        <4> QED
          BY <2>9, <4>1 DEF BestAmong
      <3> HIDE DEF phase
      <3> QED
        BY <2>5, <2>10, <2>13, <3>5 DEF BurstInv
    <2> QED
      BY <2>4, <2>12, <2>13
  <1> QED
    BY <1>3, <1>4

(* A new round starts at the first entry of every lane: no choice is       *)
(* passed yet.                                                             *)
LEMMA NextRoundKeeps ==
    ASSUME BurstInv, NextRound
    PROVE  BurstInv'
  <1>1. burst.left \in Nat \cup {-1} /\ burst.rounds \in Nat
    BY DEF BurstInv, NextRound, BurstPaused, BurstMerging
  <1>2. PICK fc \in [BurstLanes -> Forecasts], pure \in [BurstLanes -> PureCounts] :
            burst' = [phase |-> "merge", fc |-> fc, pure |-> pure, left |-> burst.left,
                      idx |-> [b \in BurstLanes |-> 1], best |-> NoChoice, rounds |-> burst.rounds]
    BY DEF NextRound, Round
  <1>3. NoChoice \in BurstChoice
    BY DEF NoChoice, BurstChoice
  <1>4. burst' \in BurstMerging /\ burst'.phase = "merge" /\ burst'.fc = fc
        /\ burst'.best = NoChoice /\ burst'.idx = [b \in BurstLanes |-> 1]
    BY <1>1, <1>2, <1>3 DEF BurstMerging
  <1>5. ASSUME NEW b \in BurstLanes
        PROVE  burst'.idx[b] >= 1 /\ (fc[b] # <<>> => burst'.idx[b] <= Len(fc[b]))
    <2>1. fc[b] \in Seq([n : Nat, num : Nat])
      BY BurstAssumption
    <2>2. fc[b] # <<>> => Len(fc[b]) >= 1
      BY <2>1, EmptySeq, LenProperties
    <2> QED
      BY <1>4, <2>2
  <1>6. ASSUME NEW s \in GoodChoices' PROVE Ahead(s)' /\ ~Passed(s)'
    <2>1. s \in [BurstLanes -> UNION {DOMAIN f : f \in Forecasts}]
      BY DEF GoodChoices, PrefixChoices
    <2>2. ASSUME NEW b \in BurstLanes PROVE s[b] \in Nat /\ s[b] >= 1
      <3>1. PICK f \in Forecasts : s[b] \in DOMAIN f
        BY <2>1
      <3>2. f \in Seq([n : Nat, num : Nat])
        BY BurstAssumption
      <3> QED
        BY <3>1, <3>2
    <2>3. \A b \in BurstLanes : burst'.idx[b] = 1
      BY <1>4
    <2> QED
      BY <2>2, <2>3, BurstLanesTyped DEF Ahead, Passed
  <1>7. {s \in GoodChoices : Passed(s)}' = {}
    BY <1>6
  <1>8. BestAmong({s \in GoodChoices : Passed(s)})'
    BY <1>4, <1>7 DEF BestAmong
  <1>9. \A b \in BurstLanes : burst'.idx[b] >= 1 /\ (AllHaveCosts' => burst'.idx[b] <= Len(burst'.fc[b]))
    BY <1>4, <1>5 DEF AllHaveCosts
  <1> QED
    BY <1>4, <1>6, <1>8, <1>9 DEF BurstInv

(* Without a forecast of every lane there is nothing to choose.            *)
LEMMA NoForecastKeeps ==
    ASSUME BurstInv, NoForecast
    PROVE  BurstInv'
  <1>1. burst \in BurstMerging /\ BestAmong({s \in GoodChoices : Passed(s)})
    BY DEF BurstInv, NoForecast, BurstPaused, BurstMerging
  <1>2. PICK b \in BurstLanes : burst.fc[b] = <<>>
    BY DEF NoForecast, AllHaveCosts
  <1>3. GoodChoices = {}
    <2>1. ASSUME NEW s \in GoodChoices PROVE FALSE
      <3>1. s[b] \in 1..Len(burst.fc[b])
        BY <1>1, GoodTyped
      <3>2. Len(burst.fc[b]) = 0
        BY <1>2
      <3> QED
        BY <3>1, <3>2
    <2> QED
      BY <2>1
  <1>4. burst.best = NoChoice
    BY <1>1, <1>3 DEF BestAmong
  <1>5. burst' = [burst EXCEPT !.phase = "chosen"]
    BY DEF NoForecast
  <1>6. SameRound /\ burst'.best = NoChoice /\ burst'.phase = "chosen"
    BY <1>1, <1>4, <1>5 DEF SameRound, BurstMerging
  <1>7. GoodChoices' = {}
    BY <1>3, <1>6, SameChoices
  <1>8. BestAmong(GoodChoices)'
    BY <1>6, <1>7 DEF BestAmong
  <1> QED
    BY <1>6, <1>8 DEF BurstInv, SameRound

(* A round that runs ends by the deadline, because its choice does.        *)
LEMMA RunRoundKeeps ==
    ASSUME BurstInv, RunRound
    PROVE  BurstInv'
  <1>1. burst \in BurstMerging /\ BestAmong(GoodChoices) /\ burst.best.score # 0
    BY DEF BurstInv, RunRound, BurstPaused, BurstMerging
  <1>2. GoodChoices # {}
    BY <1>1 DEF BestAmong, NoChoice
  <1>3. PICK s \in GoodChoices : burst.best = ChoiceOf(s)
    BY <1>1, <1>2 DEF BestAmong
  <1> DEFINE elapsed == Cost(0, s[0]).num \div BurstHz
  <1>4. burst.best.elapsed = elapsed /\ elapsed \in Nat
    BY <1>1, <1>3, GoodTyped DEF ChoiceOf, BurstChoice
  <1>5. burst.left # -1 => elapsed <= burst.left
    BY DEF GoodChoices, Admissible
  <1>6. burst.left \in Nat \cup {-1} /\ burst.rounds \in Nat
    BY <1>1 DEF BurstMerging
  <1> HIDE DEF elapsed
  <1>7. PICK leave \in BOOLEAN :
            LET left == IF burst.left = -1 THEN -1 ELSE burst.left - burst.best.elapsed
            IN  burst' = [phase |-> IF leave \/ left = 0 THEN "left" ELSE "round",
                          left |-> left, rounds |-> burst.rounds + 1]
    BY DEF RunRound
  <1>8. burst' \in BurstPaused
    BY <1>4, <1>5, <1>6, <1>7 DEF BurstPaused
  <1> QED
    BY <1>8 DEF BurstInv

LEMMA FallBackKeeps ==
    ASSUME BurstInv, FallBack
    PROVE  BurstInv'
  <1>1. burst.left \in Nat \cup {-1} /\ burst.rounds \in Nat
    BY DEF BurstInv, FallBack, BurstPaused, BurstMerging
  <1>2. burst' \in BurstPaused
    BY <1>1 DEF FallBack, BurstPaused
  <1> QED
    BY <1>2 DEF BurstInv

LEMMA BurstStutters ==
    ASSUME BurstInv, UNCHANGED burst
    PROVE  BurstInv'
  <1>1. burst' = burst
    OBVIOUS
  <1>2. CASE burst \in BurstPaused
    BY <1>1, <1>2 DEF BurstInv
  <1>3. CASE burst \in BurstMerging
    <2>1. SameRound /\ burst'.best = burst.best /\ burst'.phase = burst.phase
          /\ burst'.idx = burst.idx /\ burst'.fc = burst.fc
      BY <1>1, <1>3 DEF SameRound
    <2>2. GoodChoices' = GoodChoices
      BY <2>1, SameChoices
    <2>3. \A s : (Passed(s)' <=> Passed(s)) /\ (Ahead(s)' <=> Ahead(s))
      BY <2>1 DEF Passed, Ahead
    <2>4. CASE burst.phase = "merge"
      <3>1. BestAmong({s \in GoodChoices : Passed(s)})
        BY <1>3, <2>4 DEF BurstInv, BurstPaused, BurstMerging
      <3>2. PICK G : G = {s \in GoodChoices : Passed(s)}
        OBVIOUS
      <3>3. BestAmong(G)' /\ {s \in GoodChoices : Passed(s)}' = G
        BY <2>1, <2>2, <2>3, <3>1, <3>2, BestStays
      <3>4. BestAmong({s \in GoodChoices : Passed(s)})'
        BY <3>3 DEF BestAmong
      <3>5. \A s \in GoodChoices' : Passed(s)' \/ Ahead(s)'
        BY <1>3, <2>2, <2>3, <2>4 DEF BurstInv, BurstPaused, BurstMerging
      <3>6. \A b \in BurstLanes : burst'.idx[b] >= 1 /\ (AllHaveCosts' => burst'.idx[b] <= Len(burst'.fc[b]))
        BY <1>3, <2>1, <2>4 DEF BurstInv, AllHaveCosts, BurstPaused, BurstMerging
      <3> QED
        BY <2>1, <2>4, <3>4, <3>5, <3>6 DEF BurstInv, SameRound
    <2>5. CASE burst.phase = "chosen"
      <3>1. BestAmong(GoodChoices)
        BY <1>3, <2>5 DEF BurstInv, BurstPaused, BurstMerging
      <3>2. PICK G : G = GoodChoices
        OBVIOUS
      <3>3. BestAmong(G)' /\ GoodChoices' = G
        BY <2>1, <2>2, <3>1, <3>2, BestStays
      <3>4. BestAmong(GoodChoices)'
        BY <3>3 DEF BestAmong
      <3> QED
        BY <2>1, <2>5, <3>4 DEF BurstInv, SameRound
    <2> QED
      BY <1>3, <2>4, <2>5 DEF BurstMerging
  <1> QED
    BY <1>2, <1>3 DEF BurstInv

LEMMA BurstStart ==
    ASSUME BurstInit
    PROVE  BurstInv
  <1>1. PICK left \in BurstRemaining : burst = [phase |-> "round", left |-> left, rounds |-> 0]
    BY DEF BurstInit
  <1>2. left \in Nat \cup {-1}
    BY BurstAssumption
  <1> QED
    BY <1>1, <1>2 DEF BurstInv, BurstPaused

LEMMA BurstBest ==
    ASSUME BurstInv
    PROVE  BurstIsBest
  <1>1. SUFFICES ASSUME burst.phase = "chosen" PROVE BurstIsBest
    BY DEF BurstIsBest
  <1>2. BestAmong(GoodChoices)
    BY <1>1 DEF BurstInv, BurstPaused, BurstMerging
  <1> QED
    BY <1>2 DEF BurstIsBest, BestAmong, GoodChoices, ScoreOf, ChoiceOf

BurstPartInv == part = "burst" => BurstInv

(* The common frontier the lockstep burst of World::run dispatches to is,  *)
(* in every round, the admissible one that retires the most instructions,  *)
(* and one is found whenever there is one: for any number of lanes, any    *)
(* forecasts, any clock frequency and any deadline.                        *)
THEOREM BurstAlwaysBest == WorldSpec => []BurstCorrect
  <1>1. WorldInit => BurstPartInv
    BY BurstStart DEF WorldInit, BurstPartInv
  <1>2. BurstPartInv /\ [WorldNext]_WorldVars => BurstPartInv'
    <2>1. SUFFICES ASSUME BurstPartInv, [WorldNext]_WorldVars, part' = "burst" PROVE BurstInv'
      BY DEF BurstPartInv
    <2>2. CASE WorldNext /\ part = "burst"
      <3>1. BurstInv /\ BurstNext
        BY <2>1, <2>2 DEF WorldNext, BurstPartInv
      <3> QED
        BY <3>1, NextRoundKeeps, MergeStepKeeps, NoForecastKeeps, RunRoundKeeps, FallBackKeeps
           DEF BurstNext
    <2>3. CASE UNCHANGED WorldVars
      <3>1. burst' = burst /\ part' = part
        BY <2>3 DEF WorldVars
      <3> QED
        BY <2>1, <3>1, BurstStutters DEF BurstPartInv
    <2>4. WorldNext => part' = part
      BY DEF WorldNext
    <2> QED
      BY <2>1, <2>2, <2>3, <2>4
  <1>3. BurstPartInv => BurstCorrect
    BY BurstBest DEF BurstPartInv, BurstCorrect
  <1> QED
    BY <1>1, <1>2, <1>3, PTL DEF WorldSpec

-----------------------------------------------------------------------------
(* Lane domains (LaneDomains) *)

Allocators == LaneOwners \cup {Shared}
LaneEvent == [id : Allocators \X Nat, owner : Allocators, at : Int, seq : Nat, nth : Nat]
LaneStore == [live : SUBSET LaneEvent, shared : Int, clock : Int, seq : Nat, nextId : Nat, ran : Nat]
LoopState ==
    [root : SUBSET LaneEvent, nextId : Nat, seq : Nat, ran : Nat, now : Int,
     clock : [LaneOwners -> Int], laneIds : [LaneOwners -> Nat], lanes : [LaneOwners -> LaneStore],
     count : Nat, baseline : Nat, open : BOOLEAN, orphaned : BOOLEAN, scopes : SUBSET LaneOwners]
BornState == [n : Nat, ran : Nat, owed : SUBSET (Allocators \X Nat), outOfOrder : BOOLEAN]

(* The counters an owner's next event takes its sequence number and its id *)
(* from.                                                                   *)
SeqCounter(d, o) == IF o \in Split(d) THEN d.lanes[o].seq ELSE d.seq
IdCounter(d, o) == IF o \in Split(d) THEN d.lanes[o].nextId
              ELSE IF o = Shared THEN d.nextId ELSE d.laneIds[o]

(* A worker is in a lane scope only of an open session; only a session     *)
(* that is open has lanes or can be orphaned.                              *)
SessionSound(d) ==
    /\ d.open \/ (d.count = 0 /\ ~d.orphaned)
    /\ d.scopes = {} \/ d.open
    /\ d.scopes \subseteq Split(d)

(* Every event is in the store of its owner.                               *)
Placed(d) ==
    /\ \A o \in LaneOwners : o \notin Split(d) => d.lanes[o].live = {}
    /\ \A o \in Split(d) : \A e \in d.lanes[o].live : e.owner = o
    /\ \A e \in d.root : e.owner \notin Split(d)

(* Live events are numbered below the counters, n of them were ever        *)
(* scheduled, an id names one event, and an owner's events are numbered in *)
(* the order in which they were scheduled.                                 *)
Numbered(d, n) ==
    /\ \A e \in Live(d) : e.nth < n /\ e.seq < SeqCounter(d, e.owner) /\ e.id[2] < IdCounter(d, e.id[1])
    /\ \A e, f \in Live(d) : e.id = f.id => e = f
    /\ \A e, f \in Live(d) : e.owner = f.owner /\ e.nth < f.nth => e.seq < f.seq

EventsInv(d, n) ==
    /\ d \in LoopState /\ IsFiniteSet(Live(d)) /\ SessionSound(d) /\ Placed(d) /\ Numbered(d, n)

(* Every callback since the split is counted in one place.                 *)
CallbacksInv(d, total) ==
    /\ IsFiniteSet(LaneCallbacks(d)) /\ total = ExecutedCallbacks(d)
    /\ \A o \in Split(d) : d.lanes[o].ran >= d.baseline

DomInv(d, b) ==
    /\ b \in BornState /\ EventsInv(d, b.n) /\ CallbacksInv(d, b.ran)
    /\ {e.id : e \in Live(d)} = b.owed /\ ~b.outOfOrder

LEMMA OwnersTyped == LaneOwners \subseteq Nat /\ Shared \notin LaneOwners /\ Shared \in Int
  <1>1. Cardinality(LaneOwners) \in Nat
    BY LaneDomainsAssumption, FS_CardinalityType
  <1> QED
    BY <1>1, LaneDomainsAssumption DEF Shared

LEMMA LiveTyped ==
    ASSUME NEW d \in LoopState
    PROVE  /\ Live(d) \subseteq LaneEvent
           /\ Split(d) \subseteq LaneOwners
           /\ \A e \in d.root : e \in Live(d)
           /\ \A o \in Split(d) : \A e \in d.lanes[o].live : e \in Live(d)
  <1>1. d.root \subseteq LaneEvent /\ d.lanes \in [LaneOwners -> LaneStore]
    BY DEF LoopState
  <1>2. \A o \in LaneOwners : d.lanes[o].live \subseteq LaneEvent
    BY <1>1 DEF LaneStore
  <1> QED
    BY <1>1, <1>2 DEF Live, Split

(* An owner's events are in one store.                                     *)
LEMMA LivePlaced ==
    ASSUME NEW d \in LoopState, Placed(d), NEW e \in Live(d)
    PROVE  IF e.owner \in Split(d) THEN e \in d.lanes[e.owner].live ELSE e \in d.root
  BY DEF Live, Placed, Split

(* The merged numbers start at zero and keep the order.                    *)
LEMMA RenumberedOrder ==
    ASSUME NEW live \in SUBSET LaneEvent, IsFiniteSet(live), NEW e \in live, NEW f \in live
    PROVE  /\ Cardinality({g \in live : g.seq < e.seq}) \in Nat
           /\ Cardinality({g \in live : g.seq < e.seq}) < Cardinality(live)
           /\ e.seq < f.seq =>
                 Cardinality({g \in live : g.seq < e.seq}) < Cardinality({g \in live : g.seq < f.seq})
  <1> DEFINE below(x) == {g \in live : g.seq < x.seq}
  <1>1. \A x \in live : x.seq \in Nat
    BY DEF LaneEvent
  <1>2. IsFiniteSet(below(e)) /\ IsFiniteSet(below(f))
    BY FS_Subset
  <1>3. Cardinality(live) \in Nat /\ Cardinality(below(e)) \in Nat /\ Cardinality(below(f)) \in Nat
    BY <1>2, FS_CardinalityType
  <1>4. Cardinality(below(e)) < Cardinality(live)
    <2>1. below(e) \subseteq live /\ below(e) # live
      BY <1>1
    <2> HIDE DEF below
    <2> QED
      BY <1>3, <2>1, FS_Subset
  <1>5. ASSUME e.seq < f.seq PROVE Cardinality(below(e)) < Cardinality(below(f))
    <2>1. below(e) \subseteq below(f) /\ below(e) # below(f)
      BY <1>1, <1>5
    <2> HIDE DEF below
    <2> QED
      BY <1>2, <1>3, <2>1, FS_Subset
  <1> QED
    BY <1>3, <1>4, <1>5

RenumberedFrom(x, live) ==
    \E e \in live : /\ x = [e EXCEPT !.seq = Cardinality({f \in live : f.seq < e.seq})]
                    /\ x.id = e.id /\ x.owner = e.owner /\ x.nth = e.nth /\ x.at = e.at
                    /\ x.seq = Cardinality({f \in live : f.seq < e.seq})

(* The same events remain, with smaller numbers.                           *)
LEMMA RenumberedEvents ==
    ASSUME NEW live \in SUBSET LaneEvent, IsFiniteSet(live)
    PROVE  /\ Renumbered(live) \subseteq LaneEvent /\ IsFiniteSet(Renumbered(live))
           /\ \A x \in Renumbered(live) : RenumberedFrom(x, live)
           /\ {x.id : x \in Renumbered(live)} = {e.id : e \in live}
  <1> DEFINE num(e) == Cardinality({f \in live : f.seq < e.seq})
             new(e) == [e EXCEPT !.seq = num(e)]
             f1 == [e \in live |-> new(e)]
  <1>1. ASSUME NEW e \in live PROVE num(e) \in Nat
    BY RenumberedOrder
  <1>2. ASSUME NEW e \in live
        PROVE  /\ new(e) \in LaneEvent /\ new(e).id = e.id /\ new(e).owner = e.owner
               /\ new(e).nth = e.nth /\ new(e).at = e.at /\ new(e).seq = num(e)
    <2> HIDE DEF num
    <2> QED
      BY <1>1 DEF LaneEvent
  <1>3. Renumbered(live) = {new(e) : e \in live}
    BY DEF Renumbered
  <1> HIDE DEF num
  <1>4. f1 \in Surjection(live, Renumbered(live))
    <2> HIDE DEF new
    <2> QED
      BY <1>3 DEF Surjection
  <1>5. IsFiniteSet(Renumbered(live))
    <2> HIDE DEF f1
    <2> QED
      BY <1>4, FS_Surjection
  <1>6. \A x \in Renumbered(live) : \E e \in live :
                 /\ x = new(e)
                 /\ x.id = e.id /\ x.owner = e.owner /\ x.nth = e.nth /\ x.at = e.at
                 /\ x.seq = num(e)
    <2> HIDE DEF new
    <2> QED
      BY <1>2, <1>3
  <1>7. Renumbered(live) \subseteq LaneEvent /\ {x.id : x \in Renumbered(live)} = {e.id : e \in live}
    <2> HIDE DEF new
    <2> QED
      BY <1>2, <1>3
  <1> QED
    BY <1>5, <1>6, <1>7 DEF num, RenumberedFrom

LEMMA EmptyDomainTyped == EmptyDomain \in LaneStore
  BY DEF EmptyDomain, LaneStore, NoClock

LEMMA NoLanes ==
    ASSUME NEW d, d.count = 0
    PROVE  Split(d) = {} /\ Live(d) = d.root /\ LaneCallbacks(d) = {} /\ ExecutedCallbacks(d) = d.ran + 0
  <1>1. Split(d) = {}
    <2>1. \A o \in LaneOwners : ~(o < 0)
      BY OwnersTyped
    <2> QED
      BY <2>1 DEF Split
  <1>2. Live(d) = d.root /\ LaneCallbacks(d) = {}
    BY <1>1 DEF Live, LaneCallbacks
  <1> QED
    BY <1>1, <1>2, FS_EmptySet DEF ExecutedCallbacks

(* What closing a session leaves.                                          *)
LEMMA FinishFields ==
    ASSUME NEW d, NEW n, EventsInv(d, n), NEW total \in Nat, CallbacksInv(d, total)
    PROVE  /\ FinishLaneDomains(d) \in LoopState
           /\ FinishLaneDomains(d).root = Renumbered(Live(d))
           /\ FinishLaneDomains(d).seq = Cardinality(Live(d)) /\ FinishLaneDomains(d).ran = total
           /\ FinishLaneDomains(d).nextId = d.nextId
           /\ \A o \in LaneOwners : /\ FinishLaneDomains(d).laneIds[o] = IdCounter(d, o)
                                    /\ FinishLaneDomains(d).lanes[o] = EmptyDomain
           /\ FinishLaneDomains(d).count = 0 /\ FinishLaneDomains(d).open = FALSE
           /\ FinishLaneDomains(d).orphaned = FALSE /\ FinishLaneDomains(d).scopes = d.scopes
  <1> DEFINE root == Renumbered(Live(d))
             seq == Cardinality(Live(d))
             clock == [o \in LaneOwners |-> IF o \in Split(d) THEN d.lanes[o].clock ELSE d.clock[o]]
             laneIds == [o \in LaneOwners |-> IF o \in Split(d) THEN d.lanes[o].nextId ELSE d.laneIds[o]]
             lanes == [o \in LaneOwners |-> EmptyDomain]
  <1>1. d \in LoopState /\ IsFiniteSet(Live(d)) /\ ExecutedCallbacks(d) = total
    BY DEF EventsInv, CallbacksInv
  <1>2. Live(d) \in SUBSET LaneEvent
    BY <1>1, LiveTyped
  <1>3. root \in SUBSET LaneEvent /\ seq \in Nat
    BY <1>1, <1>2, RenumberedEvents, FS_CardinalityType
  <1>4. d.lanes \in [LaneOwners -> LaneStore] /\ d.clock \in [LaneOwners -> Int]
        /\ d.laneIds \in [LaneOwners -> Nat]
    BY <1>1 DEF LoopState
  <1>5. \A o \in LaneOwners : d.lanes[o].clock \in Int /\ d.lanes[o].nextId \in Nat
    BY <1>4 DEF LaneStore
  <1>6. clock \in [LaneOwners -> Int] /\ laneIds \in [LaneOwners -> Nat]
    BY <1>4, <1>5
  <1>7. lanes \in [LaneOwners -> LaneStore]
    BY EmptyDomainTyped
  <1>8. FinishLaneDomains(d) =
            [d EXCEPT !.root = root, !.seq = seq, !.ran = total, !.clock = clock,
                      !.laneIds = laneIds, !.lanes = lanes, !.count = 0, !.open = FALSE, !.orphaned = FALSE]
    BY <1>1 DEF FinishLaneDomains
  <1>9. \A o \in LaneOwners : laneIds[o] = IdCounter(d, o) /\ lanes[o] = EmptyDomain
    BY OwnersTyped DEF IdCounter
  <1> HIDE DEF root, seq, clock, laneIds, lanes
  <1>10. PICK F : F = FinishLaneDomains(d)
    OBVIOUS
  <1>11. F \in LoopState
    <2>1. d.nextId \in Nat /\ d.now \in Int /\ d.baseline \in Nat /\ d.scopes \in SUBSET LaneOwners
      BY <1>1 DEF LoopState
    <2>2. F = [root |-> root, nextId |-> d.nextId, seq |-> seq, ran |-> total, now |-> d.now,
               clock |-> clock, laneIds |-> laneIds, lanes |-> lanes, count |-> 0,
               baseline |-> d.baseline, open |-> FALSE, orphaned |-> FALSE, scopes |-> d.scopes]
      BY <1>1, <1>8, <1>10, ZenonT(60) DEF LoopState
    <2> QED
      BY <1>3, <1>6, <1>7, <2>1, <2>2 DEF LoopState
  <1>12. F.root = root /\ F.seq = seq /\ F.ran = total /\ F.nextId = d.nextId /\ F.laneIds = laneIds
         /\ F.lanes = lanes /\ F.count = 0 /\ F.open = FALSE /\ F.orphaned = FALSE /\ F.scopes = d.scopes
    BY <1>1, <1>8, <1>10 DEF LoopState
  <1> QED
    BY <1>9, <1>10, <1>11, <1>12 DEF root, seq

(* Closing loses no event and revives none, keeps every id unique and      *)
(* every owner's order, and counts every callback once.                    *)
LEMMA FinishKeeps ==
    ASSUME NEW d, NEW b, DomInv(d, b), d.scopes = {}
    PROVE  /\ DomInv(FinishLaneDomains(d), b)
           /\ FinishLaneDomains(d).open = FALSE /\ FinishLaneDomains(d).orphaned = FALSE
           /\ FinishLaneDomains(d).scopes = {}
  <1>1. b \in BornState /\ EventsInv(d, b.n) /\ CallbacksInv(d, b.ran) /\ b.ran \in Nat /\ b.n \in Nat
    BY DEF DomInv, BornState
  <1>2. d \in LoopState /\ IsFiniteSet(Live(d)) /\ Placed(d) /\ Numbered(d, b.n)
    BY <1>1 DEF EventsInv
  <1>3. PICK F : F = FinishLaneDomains(d)
    OBVIOUS
  <1>4. /\ F \in LoopState /\ F.root = Renumbered(Live(d)) /\ F.seq = Cardinality(Live(d))
        /\ F.ran = b.ran /\ F.nextId = d.nextId
        /\ \A o \in LaneOwners : F.laneIds[o] = IdCounter(d, o) /\ F.lanes[o] = EmptyDomain
        /\ F.count = 0 /\ F.open = FALSE /\ F.orphaned = FALSE /\ F.scopes = {}
    BY <1>1, <1>3, FinishFields
  <1>5. Split(F) = {} /\ Live(F) = F.root /\ LaneCallbacks(F) = {} /\ ExecutedCallbacks(F) = F.ran + 0
    BY <1>4, NoLanes
  <1>6. PICK live \in SUBSET LaneEvent : live = Live(d)
    BY <1>2, LiveTyped
  <1>7. /\ IsFiniteSet(F.root) /\ {x.id : x \in F.root} = {e.id : e \in live}
        /\ \A x \in F.root : RenumberedFrom(x, live)
    <2>1. IsFiniteSet(live) /\ F.root = Renumbered(live)
      BY <1>2, <1>4, <1>6
    <2> QED
      BY <2>1, RenumberedEvents
  <1>8. SessionSound(F) /\ Placed(F)
    BY <1>4, <1>5 DEF SessionSound, Placed, EmptyDomain
  <1>9. Numbered(F, b.n)
    <2>1. ASSUME NEW x \in F.root
          PROVE  x.nth < b.n /\ x.seq < SeqCounter(F, x.owner) /\ x.id[2] < IdCounter(F, x.id[1])
      <3>1. PICK e \in live : x.id = e.id /\ x.owner = e.owner /\ x.nth = e.nth
                              /\ x.seq = Cardinality({f \in live : f.seq < e.seq})
        BY <1>7 DEF RenumberedFrom
      <3>2. x.seq < F.seq
        BY <1>2, <1>4, <1>6, <3>1, RenumberedOrder
      <3>3. e.nth < b.n /\ e.id[2] < IdCounter(d, e.id[1])
        BY <1>2, <1>6 DEF Numbered
      <3>4. e.id[1] \in Allocators
        BY DEF LaneEvent
      <3>5. IdCounter(F, e.id[1]) = IdCounter(d, e.id[1])
        BY <1>4, <1>5, <3>4, OwnersTyped DEF IdCounter, Allocators, Split
      <3> QED
        BY <1>5, <3>1, <3>2, <3>3, <3>5 DEF SeqCounter
    <2>2. ASSUME NEW x \in F.root, NEW y \in F.root
          PROVE  (x.id = y.id => x = y) /\ (x.owner = y.owner /\ x.nth < y.nth => x.seq < y.seq)
      <3>1. PICK e \in live : /\ x = [e EXCEPT !.seq = Cardinality({f \in live : f.seq < e.seq})]
                              /\ x.id = e.id /\ x.owner = e.owner /\ x.nth = e.nth
                              /\ x.seq = Cardinality({f \in live : f.seq < e.seq})
        BY <1>7 DEF RenumberedFrom
      <3>2. PICK g \in live : /\ y = [g EXCEPT !.seq = Cardinality({f \in live : f.seq < g.seq})]
                              /\ y.id = g.id /\ y.owner = g.owner /\ y.nth = g.nth
                              /\ y.seq = Cardinality({f \in live : f.seq < g.seq})
        BY <1>7 DEF RenumberedFrom
      <3>3. e.id = g.id => e = g
        BY <1>2, <1>6 DEF Numbered
      <3>4. e.owner = g.owner /\ e.nth < g.nth => e.seq < g.seq
        BY <1>2, <1>6 DEF Numbered
      <3>5. e.seq < g.seq => x.seq < y.seq
        BY <1>2, <1>6, <3>1, <3>2, RenumberedOrder
      <3> QED
        BY <3>1, <3>2, <3>3, <3>4, <3>5
    <2> QED
      BY <1>5, <2>1, <2>2 DEF Numbered
  <1>10. CallbacksInv(F, b.ran)
    BY <1>1, <1>4, <1>5, FS_EmptySet DEF CallbacksInv
  <1>11. {e.id : e \in Live(F)} = b.owed
    BY <1>5, <1>6, <1>7 DEF DomInv
  <1>12. DomInv(F, b)
    BY <1>1, <1>4, <1>5, <1>7, <1>8, <1>9, <1>10, <1>11 DEF DomInv, EventsInv
  <1> QED
    BY <1>3, <1>4, <1>12

(* The loop an operation on the root works on.                             *)
LEMMA ResolvedKeeps ==
    ASSUME NEW d, NEW b, DomInv(d, b), d.scopes = {}
    PROVE  DomInv(Resolved(d), b) /\ Resolved(d).scopes = {} /\ ~Resolved(d).orphaned
  BY FinishKeeps, ZenonT(60) DEF Resolved, DomInv, EventsInv, LoopState

(* Opening a session moves every event to the store of its owner.          *)
LEMMA BeginKeeps ==
    ASSUME NEW d, NEW b, DomInv(d, b), d.scopes = {}, ~d.open, NEW count \in Nat
    PROVE  DomInv(BeginLaneDomains(d, count), b)
  <1> DEFINE root == {e \in d.root : e.owner \notin 0..(count - 1)}
             lane(o) == [live |-> {e \in d.root : e.owner = o}, shared |-> d.now,
                         clock |-> d.clock[o], seq |-> d.seq + (o + 1) * Partition,
                         nextId |-> d.laneIds[o], ran |-> d.ran]
             lanes == [o \in LaneOwners |-> IF o >= count THEN EmptyDomain ELSE lane(o)]
  <1>1. b \in BornState /\ EventsInv(d, b.n) /\ CallbacksInv(d, b.ran) /\ b.ran \in Nat /\ b.n \in Nat
        /\ {e.id : e \in Live(d)} = b.owed /\ ~b.outOfOrder
    BY DEF DomInv, BornState
  <1>2. d \in LoopState /\ IsFiniteSet(Live(d)) /\ Numbered(d, b.n) /\ d.count = 0
    BY <1>1 DEF EventsInv, SessionSound
  <1>3. Split(d) = {} /\ Live(d) = d.root /\ LaneCallbacks(d) = {} /\ ExecutedCallbacks(d) = d.ran + 0
    BY <1>2, NoLanes
  <1>4. /\ d.root \in SUBSET LaneEvent /\ d.now \in Int /\ d.seq \in Nat /\ d.ran \in Nat
        /\ \A o \in LaneOwners : d.clock[o] \in Int /\ d.laneIds[o] \in Nat
    BY <1>2 DEF LoopState
  <1>5. ASSUME NEW o \in LaneOwners
        PROVE  o \in Nat /\ d.seq + (o + 1) * Partition \in Nat /\ d.seq <= d.seq + (o + 1) * Partition
    <2>1. o \in Nat /\ Partition \in Nat
      BY OwnersTyped, LaneDomainsAssumption
    <2>2. (o + 1) * Partition \in Nat
      BY <2>1
    <2> QED
      BY <1>4, <2>1, <2>2
  <1>6. ASSUME NEW o \in LaneOwners
        PROVE  lane(o) \in LaneStore
    BY <1>4, <1>5 DEF LaneStore
  <1>7. lanes \in [LaneOwners -> LaneStore]
    <2> HIDE DEF lane
    <2> QED
      BY <1>6, EmptyDomainTyped
  <1>8. PICK B : B = BeginLaneDomains(d, count)
    OBVIOUS
  <1>9. B = [d EXCEPT !.open = TRUE, !.orphaned = FALSE, !.count = count, !.baseline = d.ran,
                      !.root = root, !.lanes = lanes]
    BY <1>8 DEF BeginLaneDomains
  <1>10. root \in SUBSET LaneEvent
    BY <1>4
  <1> HIDE DEF lanes, root
  <1>11. /\ B \in LoopState /\ B.open = TRUE /\ B.orphaned = FALSE /\ B.count = count
         /\ B.baseline = d.ran /\ B.root = root /\ B.lanes = lanes /\ B.scopes = {}
         /\ B.seq = d.seq /\ B.nextId = d.nextId /\ B.laneIds = d.laneIds /\ B.ran = d.ran
    BY <1>2, <1>4, <1>7, <1>9, <1>10 DEF LoopState
  <1>12. ASSUME NEW o \in LaneOwners
         PROVE  o \in Split(B) <=> o \in 0..(count - 1)
    BY <1>5, <1>11 DEF Split
  <1>13. \A o \in Split(B) : o \in LaneOwners /\ lanes[o] = lane(o)
    BY <1>5, <1>11, OwnersTyped DEF Split, lanes
  <1>14. \A o \in LaneOwners : o \notin Split(B) => lanes[o] = EmptyDomain
    BY <1>5, <1>11 DEF Split, lanes
  <1>15. \A o \in Split(B) : /\ B.lanes[o].live = {e \in d.root : e.owner = o}
                             /\ B.lanes[o].seq = d.seq + (o + 1) * Partition
                             /\ B.lanes[o].nextId = d.laneIds[o] /\ B.lanes[o].ran = d.ran
    <2>1. ASSUME NEW o \in Split(B)
          PROVE  /\ B.lanes[o].live = {e \in d.root : e.owner = o}
                 /\ B.lanes[o].seq = d.seq + (o + 1) * Partition
                 /\ B.lanes[o].nextId = d.laneIds[o] /\ B.lanes[o].ran = d.ran
      <3>1. B.lanes[o] = lane(o)
        BY <1>11, <1>13
      <3>2. /\ lane(o).live = {e \in d.root : e.owner = o}
            /\ lane(o).seq = d.seq + (o + 1) * Partition
            /\ lane(o).nextId = d.laneIds[o] /\ lane(o).ran = d.ran
        OBVIOUS
      <3> HIDE DEF lane
      <3> QED
        BY <3>1, <3>2
    <2> QED
      BY <2>1
  <1>16. \A e \in d.root : e.owner \in Split(B) <=> e.owner \in 0..(count - 1)
    <2>1. ASSUME NEW e \in d.root PROVE e.owner \in Split(B) <=> e.owner \in 0..(count - 1)
      <3>1. e.owner \in LaneOwners \/ e.owner = Shared
        BY <1>4 DEF LaneEvent, Allocators
      <3>2. Shared \notin 0..(count - 1) /\ Shared \notin Split(B)
        BY OwnersTyped DEF Shared, Split
      <3> QED
        BY <1>12, <3>1, <3>2
    <2> QED
      BY <2>1
  <1>17. Live(B) = d.root
    BY <1>11, <1>15, <1>16 DEF Live, root
  <1>18. SessionSound(B)
    BY <1>11 DEF SessionSound
  <1>19. Placed(B)
    <2>1. \A o \in LaneOwners : o \notin Split(B) => B.lanes[o].live = {}
      BY <1>11, <1>14 DEF EmptyDomain
    <2>2. \A e \in B.root : e.owner \notin Split(B)
      BY <1>11, <1>16 DEF root
    <2> QED
      BY <1>15, <2>1, <2>2 DEF Placed
  <1>20. Numbered(B, b.n)
    <2>1. ASSUME NEW e \in d.root
          PROVE  e.nth < b.n /\ e.seq < SeqCounter(B, e.owner) /\ e.id[2] < IdCounter(B, e.id[1])
      <3>1. e.nth < b.n /\ e.seq < SeqCounter(d, e.owner) /\ e.id[2] < IdCounter(d, e.id[1])
        BY <1>2, <1>3 DEF Numbered
      <3>2. e.id[1] \in Allocators /\ e.seq \in Nat
        BY <1>4 DEF LaneEvent
      <3>3. IdCounter(B, e.id[1]) = IdCounter(d, e.id[1])
        BY <1>3, <1>11, <1>15, <3>2, OwnersTyped DEF IdCounter, Allocators, Split
      <3>4. SeqCounter(d, e.owner) = d.seq
        BY <1>3 DEF SeqCounter
      <3>5. e.owner \in Split(B) => e.owner \in LaneOwners
        BY DEF Split
      <3>6. e.seq < SeqCounter(B, e.owner)
        <4>1. CASE e.owner \notin Split(B)
          BY <1>11, <3>1, <3>4, <4>1 DEF SeqCounter
        <4>2. CASE e.owner \in Split(B)
          <5>1. PICK o \in LaneOwners : o = e.owner
            BY <3>5, <4>2
          <5>2. SeqCounter(B, e.owner) = d.seq + (o + 1) * Partition
            BY <1>15, <4>2, <5>1 DEF SeqCounter
          <5>3. e.seq < d.seq /\ d.seq + (o + 1) * Partition \in Nat /\ d.seq <= d.seq + (o + 1) * Partition
            BY <1>5, <3>1, <3>4
          <5>4. PICK q \in Nat : q = d.seq + (o + 1) * Partition
            BY <5>3
          <5> QED
            BY <1>4, <3>2, <5>2, <5>3, <5>4
        <4> QED
          BY <4>1, <4>2
      <3> QED
        BY <3>1, <3>3, <3>6
    <2>2. \A e, f \in d.root : (e.id = f.id => e = f) /\ (e.owner = f.owner /\ e.nth < f.nth => e.seq < f.seq)
      BY <1>2, <1>3 DEF Numbered
    <2> QED
      BY <1>17, <2>1, <2>2 DEF Numbered
  <1>21. CallbacksInv(B, b.ran)
    <2>1. LaneCallbacks(B) = {}
      <3>1. \A o \in Split(B) : B.baseline..(B.lanes[o].ran - 1) = {}
        BY <1>4, <1>11, <1>15
      <3> QED
        BY <3>1 DEF LaneCallbacks
    <2>2. ExecutedCallbacks(B) = B.ran + 0
      BY <2>1, FS_EmptySet DEF ExecutedCallbacks
    <2>3. b.ran = d.ran + 0
      BY <1>1, <1>3 DEF CallbacksInv
    <2> QED
      BY <1>4, <1>11, <1>15, <2>1, <2>2, <2>3, FS_EmptySet DEF CallbacksInv
  <1>22. DomInv(B, b)
    BY <1>1, <1>2, <1>3, <1>11, <1>17, <1>18, <1>19, <1>20, <1>21 DEF DomInv, EventsInv
  <1> QED
    BY <1>8, <1>22

LEMMA CountersTyped ==
    ASSUME NEW d \in LoopState, NEW o \in Allocators
    PROVE  SeqCounter(d, o) \in Nat /\ IdCounter(d, o) \in Nat
  <1>1. d.lanes \in [LaneOwners -> LaneStore] /\ d.laneIds \in [LaneOwners -> Nat]
        /\ d.seq \in Nat /\ d.nextId \in Nat
    BY DEF LoopState
  <1>2. \A a \in LaneOwners : d.lanes[a].seq \in Nat /\ d.lanes[a].nextId \in Nat
    BY <1>1 DEF LaneStore
  <1>3. o \in Split(d) => o \in LaneOwners
    BY DEF Split
  <1> QED
    BY <1>1, <1>2, <1>3 DEF SeqCounter, IdCounter, Allocators

(* An event that takes the next number and the next id of its store.       *)
LEMMA EventAdded ==
    ASSUME NEW d, NEW n \in Nat, EventsInv(d, n), NEW after \in LoopState, NEW x \in LaneEvent,
           Live(after) = Live(d) \cup {x}, SessionSound(after), Placed(after),
           x.nth = n, x.seq = SeqCounter(d, x.owner), x.id[2] = IdCounter(d, x.id[1]),
           \A o \in Allocators : /\ SeqCounter(d, o) <= SeqCounter(after, o)
                                 /\ IdCounter(d, o) <= IdCounter(after, o),
           SeqCounter(d, x.owner) < SeqCounter(after, x.owner),
           IdCounter(d, x.id[1]) < IdCounter(after, x.id[1])
    PROVE  EventsInv(after, n + 1) /\ x \notin Live(d)
  <1>1. d \in LoopState /\ IsFiniteSet(Live(d)) /\ Numbered(d, n)
    BY DEF EventsInv
  <1>2. IsFiniteSet(Live(after))
    BY <1>1, FS_AddElement
  <1>3. ASSUME NEW e \in Live(d) \cup {x}
        PROVE  /\ e.nth \in Nat /\ e.seq \in Nat /\ e.id \in Allocators \X Nat
               /\ e.id[2] \in Nat /\ e.id[1] \in Allocators
               /\ e.owner \in Allocators
    BY <1>1, LiveTyped DEF LaneEvent
  <1>4. ASSUME NEW o \in Allocators
        PROVE  /\ SeqCounter(d, o) \in Nat /\ IdCounter(d, o) \in Nat
               /\ SeqCounter(after, o) \in Nat /\ IdCounter(after, o) \in Nat
    BY <1>1, CountersTyped
  <1>5. ASSUME NEW e \in Live(d)
        PROVE  /\ e.nth < n /\ e.nth < n + 1 /\ e.seq < SeqCounter(after, e.owner)
               /\ e.id[2] < IdCounter(after, e.id[1])
               /\ e.id # x.id /\ (e.owner = x.owner => e.seq < x.seq)
    <2>1. e.nth < n /\ e.seq < SeqCounter(d, e.owner) /\ e.id[2] < IdCounter(d, e.id[1])
      BY <1>1 DEF Numbered
    <2>2. e.id # x.id
      BY <1>3, <1>4, <2>1
    <2> QED
      BY <1>3, <1>4, <2>1, <2>2
  <1>6. x \notin Live(d)
    BY <1>5
  <1>7. Numbered(after, n + 1)
    <2>1. ASSUME NEW e \in Live(d) \cup {x}
          PROVE  e.nth < n + 1 /\ e.seq < SeqCounter(after, e.owner) /\ e.id[2] < IdCounter(after, e.id[1])
      BY <1>5
    <2>2. ASSUME NEW e \in Live(d) \cup {x}, NEW f \in Live(d) \cup {x}
          PROVE  (e.id = f.id => e = f) /\ (e.owner = f.owner /\ e.nth < f.nth => e.seq < f.seq)
      <3>1. CASE e \in Live(d) /\ f \in Live(d)
        BY <1>1, <3>1 DEF Numbered
      <3>2. CASE e \in Live(d) /\ f = x
        BY <1>5, <3>2
      <3>3. CASE e = x /\ f \in Live(d)
        <4>1. f.nth < n /\ f.id # x.id /\ f.nth \in Nat
          BY <1>3, <1>5, <3>3
        <4> QED
          BY <3>3, <4>1
      <3>4. CASE e = x /\ f = x
        BY <3>4
      <3> QED
        BY <3>1, <3>2, <3>3, <3>4
    <2> QED
      BY <2>1, <2>2 DEF Numbered
  <1> QED
    BY <1>2, <1>6, <1>7 DEF EventsInv

(* Scheduling adds one event, with an id of its own and after every event  *)
(* of its owner, whichever store it goes to.                               *)
LEMMA ScheduleAdds ==
    ASSUME NEW d, DomInv(d, born), NEW o \in Allocators, NEW delay \in Delays
    PROVE  /\ EventsInv(ScheduleOn(d, o, delay), born.n + 1)
           /\ CallbacksInv(ScheduleOn(d, o, delay), born.ran)
           /\ \E x \in LaneEvent : /\ x \notin Live(d)
                                   /\ Live(ScheduleOn(d, o, delay)) = Live(d) \cup {x}
  <1>1. /\ EventsInv(d, born.n) /\ CallbacksInv(d, born.ran) /\ born.n \in Nat
        /\ d \in LoopState /\ SessionSound(d) /\ Placed(d)
    BY DEF DomInv, EventsInv, BornState
  <1> DEFINE at == OwnerNow(d, o) + delay
  <1>2. d.lanes \in [LaneOwners -> LaneStore] /\ d.clock \in [LaneOwners -> Int] /\ d.now \in Int
        /\ d.seq \in Nat /\ d.nextId \in Nat /\ d.root \in SUBSET LaneEvent
    BY <1>1 DEF LoopState
  <1>3. \A a \in LaneOwners : d.lanes[a].clock \in Int /\ d.lanes[a].shared \in Int
    BY <1>2 DEF LaneStore
  <1>4. at \in Int
    <2>1. delay \in Nat
      BY LaneDomainsAssumption
    <2>2. OwnerNow(d, o) \in Int
      BY <1>2, <1>3 DEF OwnerNow, LaneNow, Later, Allocators
    <2> QED
      BY <2>1, <2>2
  <1> HIDE DEF at
  <1>5. CASE o # Shared /\ d.open /\ o \in Split(d)
    <2>1. o \in LaneOwners
      BY <1>5 DEF Split
    <2> DEFINE x == Entry(<<o, d.lanes[o].nextId>>, o, at, d.lanes[o].seq, born.n)
    <2>2. d.lanes[o] \in LaneStore
      BY <1>2, <2>1
    <2>3. x \in LaneEvent /\ x.nth = born.n /\ x.owner = o /\ x.id[1] = o
          /\ x.seq = d.lanes[o].seq /\ x.id[2] = d.lanes[o].nextId
      BY <1>1, <1>4, <2>1, <2>2 DEF Entry, LaneEvent, LaneStore, Allocators
    <2> DEFINE lane == [d.lanes[o] EXCEPT !.live = @ \cup {x}, !.nextId = @ + 1, !.seq = @ + 1]
    <2>4. ScheduleOn(d, o, delay) = [d EXCEPT !.lanes = [d.lanes EXCEPT ![o] = lane]]
      BY <1>1, <1>5, <2>1, <2>2, ZenonT(60) DEF ScheduleOn, at, LoopState, LaneStore
    <2> HIDE DEF x
    <2> DEFINE more == d.lanes[o].live \cup {x}
               number == d.lanes[o].seq + 1
               id == d.lanes[o].nextId + 1
    <2>50. more \in SUBSET LaneEvent /\ number \in Nat /\ id \in Nat
      BY <2>2, <2>3 DEF LaneStore
    <2>51. lane = [d.lanes[o] EXCEPT !.live = more, !.nextId = id, !.seq = number]
      BY <2>2 DEF LaneStore
    <2>5. lane \in LaneStore /\ lane.live = d.lanes[o].live \cup {x}
          /\ lane.nextId = d.lanes[o].nextId + 1 /\ lane.seq = d.lanes[o].seq + 1
          /\ lane.ran = d.lanes[o].ran
      <3> HIDE DEF more, number, id, lane
      <3>1. lane \in LaneStore /\ lane.live = more /\ lane.nextId = id /\ lane.seq = number
            /\ lane.ran = d.lanes[o].ran
        BY <2>2, <2>50, <2>51 DEF LaneStore
      <3> QED
        BY <3>1 DEF more, number, id
    <2> HIDE DEF lane
    <2>6. PICK after : after = ScheduleOn(d, o, delay)
      OBVIOUS
    <2>7. /\ after \in LoopState /\ after.count = d.count /\ after.root = d.root
          /\ after.lanes = [d.lanes EXCEPT ![o] = lane] /\ after.open = d.open
          /\ after.orphaned = d.orphaned /\ after.scopes = d.scopes /\ after.seq = d.seq
          /\ after.nextId = d.nextId /\ after.laneIds = d.laneIds /\ after.ran = d.ran
          /\ after.baseline = d.baseline
      BY <1>1, <2>1, <2>4, <2>5, <2>6 DEF LoopState
    <2>8. Split(after) = Split(d)
      BY <2>7 DEF Split
    <2>9. after.lanes[o] = lane /\ \A a \in LaneOwners : a # o => after.lanes[a] = d.lanes[a]
      BY <1>2, <2>1, <2>7
    <2>10. Live(after) = Live(d) \cup {x}
      <3>1. \A a \in Split(d) : after.lanes[a].live = IF a = o THEN d.lanes[o].live \cup {x} ELSE d.lanes[a].live
        BY <2>5, <2>9 DEF Split
      <3> QED
        BY <1>5, <2>7, <2>8, <3>1 DEF Live
    <2>11. SessionSound(after)
      BY <1>1, <2>7, <2>8 DEF SessionSound
    <2>12. Placed(after)
      <3>1. ASSUME NEW a \in Split(d), NEW e \in after.lanes[a].live PROVE e.owner = a
        BY <1>1, <2>1, <2>3, <2>5, <2>9, <3>1 DEF Placed, Split
      <3>2. ASSUME NEW a \in LaneOwners, a \notin Split(d) PROVE after.lanes[a].live = {}
        BY <1>1, <1>5, <2>9, <3>2 DEF Placed
      <3> QED
        BY <1>1, <2>7, <2>8, <3>1, <3>2 DEF Placed
    <2>13. ASSUME NEW a \in Allocators
           PROVE  /\ SeqCounter(d, a) <= SeqCounter(after, a) /\ IdCounter(d, a) <= IdCounter(after, a)
                  /\ (a = o => SeqCounter(d, a) < SeqCounter(after, a) /\ IdCounter(d, a) < IdCounter(after, a))
      <3>1. SeqCounter(d, a) \in Nat /\ IdCounter(d, a) \in Nat
        BY <1>1, CountersTyped
      <3>2. CASE a = o
        <4>1. SeqCounter(after, a) = SeqCounter(d, a) + 1 /\ IdCounter(after, a) = IdCounter(d, a) + 1
          BY <1>5, <2>5, <2>8, <2>9, <3>2 DEF SeqCounter, IdCounter
        <4> QED
          BY <3>1, <4>1
      <3>3. CASE a # o
        <4>1. SeqCounter(after, a) = SeqCounter(d, a) /\ IdCounter(after, a) = IdCounter(d, a)
          BY <2>7, <2>8, <2>9, <3>3 DEF SeqCounter, IdCounter, Split
        <4> QED
          BY <3>1, <3>3, <4>1
      <3> QED
        BY <3>2, <3>3
    <2>14. x.seq = SeqCounter(d, x.owner) /\ x.id[2] = IdCounter(d, x.id[1])
      BY <1>5, <2>3 DEF SeqCounter, IdCounter
    <2>15. EventsInv(after, born.n + 1) /\ x \notin Live(d)
      BY <1>1, <2>3, <2>7, <2>10, <2>11, <2>12, <2>13, <2>14, EventAdded
    <2>16. CallbacksInv(after, born.ran)
      <3>1. \A a \in Split(d) : after.lanes[a].ran = d.lanes[a].ran
        BY <2>5, <2>9 DEF Split
      <3>2. LaneCallbacks(after) = LaneCallbacks(d)
        BY <2>7, <2>8, <3>1 DEF LaneCallbacks
      <3> QED
        BY <1>1, <2>7, <2>8, <3>1, <3>2 DEF CallbacksInv, ExecutedCallbacks
    <2> QED
      BY <2>3, <2>6, <2>10, <2>15, <2>16
  <1>6. CASE ~(o # Shared /\ d.open /\ o \in Split(d))
    <2>1. o \notin Split(d)
      <3>1. ~d.open => Split(d) = {}
        BY <1>1, NoLanes DEF SessionSound
      <3>2. Shared \notin Split(d)
        BY OwnersTyped DEF Split
      <3> QED
        BY <1>6, <3>1, <3>2
    <2> DEFINE x == Entry(<<Shared, d.nextId>>, o, at, d.seq, born.n)
    <2>2. Shared \notin Split(d) /\ Shared \in Allocators
      BY OwnersTyped DEF Split, Allocators
    <2>3. x \in LaneEvent /\ x.nth = born.n /\ x.owner = o /\ x.id[1] = Shared
          /\ x.seq = d.seq /\ x.id[2] = d.nextId
      BY <1>1, <1>2, <1>4, <2>2 DEF Entry, LaneEvent
    <2>4. ScheduleOn(d, o, delay) =
              [d EXCEPT !.root = d.root \cup {x}, !.nextId = d.nextId + 1, !.seq = d.seq + 1]
      BY <1>1, <1>6, <2>2 DEF ScheduleOn, at, LoopState
    <2> HIDE DEF x
    <2>6. PICK after : after = ScheduleOn(d, o, delay)
      OBVIOUS
    <2>7. /\ after \in LoopState /\ after.count = d.count /\ after.root = d.root \cup {x}
          /\ after.lanes = d.lanes /\ after.open = d.open
          /\ after.orphaned = d.orphaned /\ after.scopes = d.scopes /\ after.seq = d.seq + 1
          /\ after.nextId = d.nextId + 1 /\ after.laneIds = d.laneIds /\ after.ran = d.ran
          /\ after.baseline = d.baseline
      <3> DEFINE more == d.root \cup {x}
                 number == d.seq + 1
                 id == d.nextId + 1
      <3>1. more \in SUBSET LaneEvent /\ number \in Nat /\ id \in Nat
        BY <1>2, <2>3
      <3>2. after = [d EXCEPT !.root = more, !.nextId = id, !.seq = number]
        BY <2>4, <2>6
      <3> HIDE DEF more, number, id
      <3>3. /\ after \in LoopState /\ after.count = d.count /\ after.root = more
            /\ after.lanes = d.lanes /\ after.open = d.open
            /\ after.orphaned = d.orphaned /\ after.scopes = d.scopes /\ after.seq = number
            /\ after.nextId = id /\ after.laneIds = d.laneIds /\ after.ran = d.ran
            /\ after.baseline = d.baseline
        BY <1>1, <3>1, <3>2 DEF LoopState
      <3> QED
        BY <3>3 DEF more, number, id
    <2>8. Split(after) = Split(d)
      BY <2>7 DEF Split
    <2>10. Live(after) = Live(d) \cup {x}
      BY <2>7, <2>8 DEF Live
    <2>11. SessionSound(after)
      BY <1>1, <2>7, <2>8 DEF SessionSound
    <2>12. Placed(after)
      BY <1>1, <2>1, <2>3, <2>7, <2>8 DEF Placed
    <2>13. ASSUME NEW a \in Allocators
           PROVE  /\ SeqCounter(d, a) <= SeqCounter(after, a) /\ IdCounter(d, a) <= IdCounter(after, a)
                  /\ (a = o => SeqCounter(d, a) < SeqCounter(after, a))
                  /\ (a = Shared => IdCounter(d, a) < IdCounter(after, a))
      <3>1. SeqCounter(d, a) \in Nat /\ IdCounter(d, a) \in Nat
        BY <1>1, CountersTyped
      <3>2. SeqCounter(after, a) = IF a \in Split(d) THEN SeqCounter(d, a) ELSE SeqCounter(d, a) + 1
        BY <2>7, <2>8 DEF SeqCounter
      <3>3. IdCounter(after, a) = IF a = Shared THEN IdCounter(d, a) + 1 ELSE IdCounter(d, a)
        BY <2>2, <2>7, <2>8 DEF IdCounter
      <3> QED
        BY <2>1, <3>1, <3>2, <3>3
    <2>14. x.seq = SeqCounter(d, x.owner) /\ x.id[2] = IdCounter(d, x.id[1])
      BY <2>1, <2>2, <2>3 DEF SeqCounter, IdCounter
    <2>15. EventsInv(after, born.n + 1) /\ x \notin Live(d)
      BY <1>1, <2>2, <2>3, <2>7, <2>10, <2>11, <2>12, <2>13, <2>14, EventAdded
    <2>16. CallbacksInv(after, born.ran)
      <3>2. LaneCallbacks(after) = LaneCallbacks(d)
        BY <2>7, <2>8 DEF LaneCallbacks
      <3> QED
        BY <1>1, <2>7, <2>8, <3>2 DEF CallbacksInv, ExecutedCallbacks
    <2> QED
      BY <2>3, <2>6, <2>10, <2>15, <2>16
  <1> QED
    BY <1>5, <1>6

(* What a step that schedules nothing leaves alone: the numbering, and all *)
(* events but those of E.                                                  *)
OnlyRemoves(d, after, E) ==
    /\ after.root = d.root \ E
    /\ \A o \in LaneOwners : /\ after.lanes[o].live = d.lanes[o].live \ E
                             /\ after.lanes[o].seq = d.lanes[o].seq
                             /\ after.lanes[o].nextId = d.lanes[o].nextId
    /\ after.count = d.count /\ after.seq = d.seq /\ after.nextId = d.nextId
    /\ after.laneIds = d.laneIds

LEMMA EventsFewer ==
    ASSUME NEW d, NEW n, EventsInv(d, n), NEW after \in LoopState, NEW E, OnlyRemoves(d, after, E),
           SessionSound(after)
    PROVE  EventsInv(after, n) /\ Live(after) = Live(d) \ E
  <1>1. d \in LoopState /\ IsFiniteSet(Live(d)) /\ Numbered(d, n) /\ Placed(d)
    BY DEF EventsInv
  <1>2. Split(after) = Split(d)
    BY DEF OnlyRemoves, Split
  <1>3. Live(after) = Live(d) \ E
    <2>1. \A o \in Split(d) : after.lanes[o].live = d.lanes[o].live \ E
      BY DEF OnlyRemoves, Split
    <2> QED
      BY <1>2, <2>1 DEF Live, OnlyRemoves
  <1>4. IsFiniteSet(Live(after))
    BY <1>1, <1>3, FS_Subset
  <1>5. \A o : SeqCounter(after, o) = SeqCounter(d, o) /\ IdCounter(after, o) = IdCounter(d, o)
    BY <1>2 DEF SeqCounter, IdCounter, OnlyRemoves, Split
  <1>6. Numbered(after, n)
    BY <1>1, <1>3, <1>5 DEF Numbered
  <1>7. Placed(after)
    BY <1>1, <1>2 DEF Placed, OnlyRemoves, Split
  <1> QED
    BY <1>3, <1>4, <1>6, <1>7 DEF EventsInv

LEMMA CallbacksMore ==
    ASSUME NEW d \in LoopState, NEW total, CallbacksInv(d, total), NEW after,
           after.count = d.count, after.baseline = d.baseline,
           \A o \in LaneOwners : after.lanes[o].ran = d.lanes[o].ran,
           NEW more \in Nat, after.ran = d.ran + more
    PROVE  CallbacksInv(after, total + more)
  <1>1. Split(after) = Split(d)
    BY DEF Split
  <1>2. LaneCallbacks(after) = LaneCallbacks(d)
    BY <1>1 DEF LaneCallbacks, Split
  <1>3. Cardinality(LaneCallbacks(d)) \in Nat
    BY FS_CardinalityType DEF CallbacksInv
  <1>4. d.ran \in Nat
    BY DEF LoopState
  <1>5. total = d.ran + Cardinality(LaneCallbacks(d))
    BY DEF CallbacksInv, ExecutedCallbacks
  <1>6. total + more = after.ran + Cardinality(LaneCallbacks(after))
    BY <1>2, <1>3, <1>4, <1>5
  <1> QED
    BY <1>1, <1>2, <1>6 DEF CallbacksInv, ExecutedCallbacks, Split

SameRans(d, after) == \A o \in LaneOwners : after.lanes[o].ran = d.lanes[o].ran

LEMMA WithoutFields ==
    ASSUME NEW d \in LoopState, NEW e
    PROVE  /\ Without(d, e) \in LoopState /\ OnlyRemoves(d, Without(d, e), {e})
           /\ Without(d, e).open = d.open /\ Without(d, e).orphaned = d.orphaned
           /\ Without(d, e).scopes = d.scopes /\ Without(d, e).ran = d.ran
           /\ Without(d, e).baseline = d.baseline /\ Without(d, e).now = d.now
           /\ SameRans(d, Without(d, e))
  <1> DEFINE root == d.root \ {e}
             lane(o) == [d.lanes[o] EXCEPT !.live = d.lanes[o].live \ {e}]
             lanes == [o \in LaneOwners |-> lane(o)]
  <1>1. d.root \in SUBSET LaneEvent /\ d.lanes \in [LaneOwners -> LaneStore]
    BY DEF LoopState
  <1>2. root \in SUBSET LaneEvent
    BY <1>1
  <1>3. ASSUME NEW o \in LaneOwners
        PROVE  /\ lane(o) \in LaneStore /\ lane(o).live = d.lanes[o].live \ {e}
               /\ lane(o).seq = d.lanes[o].seq /\ lane(o).nextId = d.lanes[o].nextId
               /\ lane(o).ran = d.lanes[o].ran
    BY <1>1 DEF LaneStore
  <1> HIDE DEF lane
  <1>4. lanes \in [LaneOwners -> LaneStore] /\ \A o \in LaneOwners : lanes[o] = lane(o)
    BY <1>3
  <1>5. PICK W : W = Without(d, e)
    OBVIOUS
  <1>6. W = [d EXCEPT !.root = root, !.lanes = lanes]
    BY <1>5 DEF Without, lane, LoopState
  <1> HIDE DEF root, lanes
  <1>7. /\ W \in LoopState /\ W.root = root /\ W.lanes = lanes /\ W.count = d.count
        /\ W.seq = d.seq /\ W.nextId = d.nextId /\ W.laneIds = d.laneIds
        /\ W.open = d.open /\ W.orphaned = d.orphaned
        /\ W.scopes = d.scopes /\ W.ran = d.ran
        /\ W.baseline = d.baseline /\ W.now = d.now
    BY <1>2, <1>4, <1>6 DEF LoopState
  <1>8. OnlyRemoves(d, W, {e})
    BY <1>3, <1>4, <1>7 DEF OnlyRemoves, root
  <1>9. \A o \in LaneOwners : W.lanes[o].ran = d.lanes[o].ran
    BY <1>3, <1>4, <1>7
  <1> QED
    BY <1>5, <1>7, <1>8, <1>9 DEF SameRans

(* An event leaves the loop: it ran or was cancelled.                      *)
LEMMA EventTaken ==
    ASSUME NEW d, NEW b, DomInv(d, b), NEW e \in Live(d), NEW after \in LoopState,
           OnlyRemoves(d, after, {e}), SessionSound(after), NEW b2 \in BornState, b2.n = b.n,
           b2.owed = b.owed \ {e.id}, ~b2.outOfOrder, CallbacksInv(after, b2.ran)
    PROVE  DomInv(after, b2)
  <1>1. EventsInv(d, b.n) /\ {x.id : x \in Live(d)} = b.owed /\ Numbered(d, b.n)
    BY DEF DomInv, EventsInv
  <1>2. EventsInv(after, b.n) /\ Live(after) = Live(d) \ {e}
    BY <1>1, EventsFewer
  <1>3. {x.id : x \in Live(after)} = b.owed \ {e.id}
    <2>1. \A x \in Live(d) : x.id = e.id => x = e
      BY <1>1 DEF Numbered
    <2> QED
      BY <1>1, <1>2, <2>1
  <1> QED
    BY <1>2, <1>3 DEF DomInv

(* The least (time, number) event of an owner is the one due first.        *)
LEMMA RanInOrder ==
    ASSUME NEW d, DomInv(d, born), NEW S \in SUBSET Live(d), NEW e \in S,
           \A f \in S : f.owner = e.owner => e.at < f.at \/ (e.at = f.at /\ e.seq <= f.seq)
    PROVE  /\ Ran(e, S) \in BornState /\ Ran(e, S).n = born.n /\ Ran(e, S).ran = born.ran + 1
           /\ Ran(e, S).owed = born.owed \ {e.id} /\ ~Ran(e, S).outOfOrder
  <1>1. d \in LoopState /\ Numbered(d, born.n) /\ born \in BornState /\ born.outOfOrder = FALSE
    BY DEF DomInv, EventsInv, BornState
  <1> DEFINE late == \E f \in S : f.owner = e.owner /\ (f.at < e.at \/ (f.at = e.at /\ f.nth < e.nth))
  <1>2. ~late
    <2>1. SUFFICES ASSUME NEW f \in S, f.owner = e.owner,
                          f.at < e.at \/ (f.at = e.at /\ f.nth < e.nth)
                   PROVE  FALSE
      OBVIOUS
    <2>2. e \in LaneEvent /\ f \in LaneEvent
      BY <1>1, LiveTyped
    <2>3. e.at \in Int /\ f.at \in Int /\ e.seq \in Nat /\ f.seq \in Nat
      BY <2>2 DEF LaneEvent
    <2>4. f.nth < e.nth => f.seq < e.seq
      BY <1>1, <2>1 DEF Numbered
    <2> QED
      BY <2>1, <2>3, <2>4
  <1>3. Ran(e, S) = [born EXCEPT !.ran = born.ran + 1, !.owed = born.owed \ {e.id}, !.outOfOrder = FALSE]
    <2>1. (born.outOfOrder \/ late) = FALSE
      BY <1>1, <1>2
    <2> HIDE DEF late
    <2>2. Ran(e, S) = [born EXCEPT !.ran = @ + 1, !.owed = @ \ {e.id}, !.outOfOrder = @ \/ late]
      BY DEF Ran, late
    <2> QED
      BY <1>1, <2>1, <2>2 DEF BornState
  <1>4. born.ran + 1 \in Nat /\ born.owed \ {e.id} \in SUBSET (Allocators \X Nat)
    BY <1>1 DEF BornState
  <1> QED
    BY <1>1, <1>3, <1>4 DEF BornState

LEMMA BornCancelled ==
    ASSUME born \in BornState, ~born.outOfOrder, NEW i
    PROVE  LET b2 == [born EXCEPT !.owed = @ \ {i}]
           IN  /\ b2 \in BornState /\ b2.n = born.n /\ b2.ran = born.ran /\ b2.owed = born.owed \ {i}
               /\ ~b2.outOfOrder
  <1> DEFINE owed == born.owed \ {i}
             b2 == [born EXCEPT !.owed = owed]
  <1>1. owed \in SUBSET (Allocators \X Nat)
    BY DEF BornState
  <1> HIDE DEF owed
  <1>2. b2 \in BornState /\ b2.n = born.n /\ b2.ran = born.ran /\ b2.owed = owed
        /\ b2.outOfOrder = born.outOfOrder
    BY <1>1 DEF BornState
  <1> QED
    BY <1>2 DEF owed

(* Cancelling an event, on the root or in a lane.                          *)
LEMMA CancelKeeps ==
    ASSUME NEW d, DomInv(d, born), NEW e \in Live(d), dom' = Without(d, e),
           born' = [born EXCEPT !.owed = @ \ {e.id}]
    PROVE  DomInv(dom, born)'
  <1>1. d \in LoopState /\ SessionSound(d) /\ EventsInv(d, born.n) /\ CallbacksInv(d, born.ran)
        /\ born \in BornState /\ ~born.outOfOrder /\ born.ran \in Nat
    BY DEF DomInv, EventsInv, BornState
  <1>2. PICK after, b2 : after = dom' /\ b2 = born'
    OBVIOUS
  <1>3. /\ after \in LoopState /\ OnlyRemoves(d, after, {e})
        /\ after.open = d.open /\ after.orphaned = d.orphaned /\ after.scopes = d.scopes
        /\ after.ran = d.ran /\ after.baseline = d.baseline
        /\ \A o \in LaneOwners : after.lanes[o].ran = d.lanes[o].ran
    BY <1>1, <1>2, WithoutFields DEF SameRans
  <1>4. after.count = d.count
    BY <1>3 DEF OnlyRemoves
  <1>5. SessionSound(after)
    BY <1>1, <1>3, <1>4 DEF SessionSound, Split
  <1>6. CallbacksInv(after, born.ran + 0)
    <2>1. after.ran = d.ran + 0
      BY <1>1, <1>3 DEF LoopState
    <2> QED
      BY <1>1, <1>3, <1>4, <2>1, CallbacksMore
  <1>7. b2 \in BornState /\ b2.n = born.n /\ b2.ran = born.ran /\ b2.owed = born.owed \ {e.id}
        /\ ~b2.outOfOrder
    BY <1>1, <1>2, BornCancelled
  <1>8. CallbacksInv(after, b2.ran)
    BY <1>1, <1>6, <1>7
  <1>9. DomInv(after, b2)
    BY <1>3, <1>5, <1>7, <1>8, EventTaken
  <1> QED
    BY <1>2, <1>9

LEMMA ScheduleKeeps ==
    ASSUME NEW d, DomInv(d, born), NEW o \in Allocators, NEW delay \in Delays, Schedule(d, o, delay)
    PROVE  DomInv(dom, born)'
  <1>1. born \in BornState /\ {e.id : e \in Live(d)} = born.owed /\ ~born.outOfOrder
    BY DEF DomInv
  <1>2. PICK after, b2 : after = dom' /\ b2 = born'
    OBVIOUS
  <1>3. after = ScheduleOn(d, o, delay)
        /\ b2 = [born EXCEPT !.n = @ + 1, !.owed = @ \cup {e.id : e \in Fresh(d, after)}]
    BY <1>2 DEF Schedule
  <1>4. EventsInv(after, born.n + 1) /\ CallbacksInv(after, born.ran)
    BY <1>3, ScheduleAdds
  <1>5. PICK x \in LaneEvent : x \notin Live(d) /\ Live(after) = Live(d) \cup {x}
    BY <1>3, ScheduleAdds
  <1>6. Fresh(d, after) = {x}
    BY <1>5 DEF Fresh
  <1> DEFINE n == born.n + 1
             owed == born.owed \cup {x.id}
  <1>7. b2 = [born EXCEPT !.n = n, !.owed = owed]
    <2>1. {e.id : e \in Fresh(d, after)} = {x.id}
      BY <1>6
    <2> QED
      BY <1>1, <1>3, <2>1 DEF BornState
  <1>8. n \in Nat /\ owed \in SUBSET (Allocators \X Nat)
    BY <1>1 DEF BornState, LaneEvent
  <1> HIDE DEF n, owed
  <1>9. b2 \in BornState /\ b2.n = n /\ b2.owed = owed /\ b2.ran = born.ran
        /\ b2.outOfOrder = born.outOfOrder
    BY <1>1, <1>7, <1>8 DEF BornState
  <1>10. {e.id : e \in Live(after)} = b2.owed
    BY <1>1, <1>5, <1>9 DEF owed
  <1>11. DomInv(after, b2)
    BY <1>1, <1>4, <1>9, <1>10 DEF DomInv, n
  <1> QED
    BY <1>2, <1>11

(* A step that neither schedules, runs nor cancels.                        *)
LEMMA QuietKeeps ==
    ASSUME NEW d, NEW b, DomInv(d, b), NEW after \in LoopState, OnlyRemoves(d, after, {}),
           SessionSound(after), after.ran = d.ran, after.baseline = d.baseline,
           \A o \in LaneOwners : after.lanes[o].ran = d.lanes[o].ran
    PROVE  DomInv(after, b)
  <1>1. d \in LoopState /\ EventsInv(d, b.n) /\ CallbacksInv(d, b.ran) /\ b.ran \in Nat
    BY DEF DomInv, EventsInv, BornState
  <1>2. EventsInv(after, b.n) /\ Live(after) = Live(d)
    <2>1. EventsInv(after, b.n) /\ Live(after) = Live(d) \ {}
      BY <1>1, EventsFewer
    <2> QED
      BY <2>1
  <1>3. after.ran = d.ran + 0 /\ after.count = d.count
    BY <1>1 DEF LoopState, OnlyRemoves
  <1>4. CallbacksInv(after, b.ran + 0)
    BY <1>1, <1>3, CallbacksMore
  <1>5. CallbacksInv(after, b.ran)
    BY <1>1, <1>4
  <1> QED
    BY <1>2, <1>5 DEF DomInv

(* What the shared step of the loop writes.                                *)
LEMMA SharedStepFields ==
    ASSUME NEW d \in LoopState, NEW at \in Int, NEW ran \in Nat
    PROVE  LET after == SharedStep(d, at, ran)
           IN  /\ after \in LoopState /\ OnlyRemoves(d, after, {}) /\ after.ran = d.ran + ran
               /\ after.baseline = d.baseline /\ after.open = d.open /\ after.orphaned = d.orphaned
               /\ after.scopes = d.scopes /\ \A o \in LaneOwners : after.lanes[o].ran = d.lanes[o].ran
  <1> DEFINE lane(o) == IF d.open /\ o \in Split(d) THEN [d.lanes[o] EXCEPT !.shared = at] ELSE d.lanes[o]
             lanes == [o \in LaneOwners |-> lane(o)]
             total == d.ran + ran
  <1>1. d.lanes \in [LaneOwners -> LaneStore] /\ total \in Nat
    BY DEF LoopState
  <1>2. ASSUME NEW o \in LaneOwners
        PROVE  /\ lane(o) \in LaneStore /\ lane(o).live = d.lanes[o].live \ {}
               /\ lane(o).seq = d.lanes[o].seq /\ lane(o).nextId = d.lanes[o].nextId
               /\ lane(o).ran = d.lanes[o].ran
    BY <1>1 DEF LaneStore
  <1> HIDE DEF lane
  <1>3. lanes \in [LaneOwners -> LaneStore] /\ \A o \in LaneOwners : lanes[o] = lane(o)
    BY <1>2
  <1>4. PICK W : W = SharedStep(d, at, ran)
    OBVIOUS
  <1>5. W = [d EXCEPT !.now = at, !.ran = total, !.lanes = lanes]
    BY <1>1, <1>4 DEF SharedStep, lane, LoopState
  <1> HIDE DEF lanes, total
  <1>6. /\ W \in LoopState /\ W.root = d.root /\ W.lanes = lanes /\ W.count = d.count
        /\ W.seq = d.seq /\ W.nextId = d.nextId /\ W.laneIds = d.laneIds
        /\ W.open = d.open /\ W.orphaned = d.orphaned
        /\ W.scopes = d.scopes /\ W.ran = total
        /\ W.baseline = d.baseline
    BY <1>1, <1>3, <1>5 DEF LoopState
  <1>7. W.root = d.root \ {}
    BY <1>6
  <1>8. OnlyRemoves(d, W, {})
    BY <1>2, <1>3, <1>6, <1>7 DEF OnlyRemoves
  <1>9. \A o \in LaneOwners : W.lanes[o].ran = d.lanes[o].ran
    BY <1>2, <1>3, <1>6
  <1> QED
    BY <1>4, <1>6, <1>8, <1>9 DEF total

LEMMA SharedRunKeeps ==
    ASSUME DomInv(dom, born), SharedRun
    PROVE  DomInv(dom, born)'
  <1>1. PICK d : d = Resolved(dom)
    OBVIOUS
  <1>2. DomInv(d, born)
    BY <1>1, ResolvedKeeps DEF SharedRun, RootMay
  <1>3. PICK e \in NextOf(d.root, Shared) :
            dom' = SharedStep(Without(d, e), Later(e.at, d.now), 1) /\ born' = Ran(e, Live(d))
    BY <1>1 DEF SharedRun
  <1>4. d \in LoopState /\ SessionSound(d) /\ Placed(d) /\ CallbacksInv(d, born.ran)
        /\ born \in BornState /\ born.ran \in Nat
    BY <1>2 DEF DomInv, EventsInv, BornState
  <1>5. /\ e \in d.root /\ e.owner = Shared
        /\ \A f \in d.root : f.owner = Shared => e.at < f.at \/ (e.at = f.at /\ e.seq <= f.seq)
    BY <1>3 DEF NextOf
  <1>6. e \in Live(d) /\ e \in LaneEvent
    BY <1>4, <1>5, LiveTyped
  <1>7. ASSUME NEW f \in Live(d), f.owner = e.owner
        PROVE  e.at < f.at \/ (e.at = f.at /\ e.seq <= f.seq)
    <2>1. f.owner \notin Split(d)
      BY <1>5, <1>7, OwnersTyped DEF Split
    <2> QED
      BY <1>4, <1>5, <1>7, <2>1, LivePlaced
  <1>8. PICK W : W = Without(d, e)
    OBVIOUS
  <1>9. /\ W \in LoopState /\ OnlyRemoves(d, W, {e})
        /\ W.open = d.open /\ W.orphaned = d.orphaned /\ W.scopes = d.scopes
        /\ W.ran = d.ran /\ W.baseline = d.baseline
        /\ \A o \in LaneOwners : W.lanes[o].ran = d.lanes[o].ran
    BY <1>4, <1>8, WithoutFields DEF SameRans
  <1>10. PICK at \in Int : at = Later(e.at, d.now)
    BY <1>4, <1>6 DEF Later, LaneEvent, LoopState
  <1>11. PICK after, b2 : after = dom' /\ b2 = born'
    OBVIOUS
  <1>12. after = SharedStep(W, at, 1) /\ b2 = Ran(e, Live(d))
    BY <1>3, <1>8, <1>10, <1>11
  <1>13. /\ after \in LoopState /\ OnlyRemoves(W, after, {}) /\ after.ran = W.ran + 1
         /\ after.baseline = W.baseline /\ after.open = W.open /\ after.orphaned = W.orphaned
         /\ after.scopes = W.scopes /\ \A o \in LaneOwners : after.lanes[o].ran = W.lanes[o].ran
    BY <1>9, <1>12, SharedStepFields
  <1>14. OnlyRemoves(d, after, {e})
    BY <1>9, <1>13 DEF OnlyRemoves
  <1>15. after.count = d.count
    BY <1>14 DEF OnlyRemoves
  <1>16. SessionSound(after)
    BY <1>4, <1>9, <1>13, <1>15 DEF SessionSound, Split
  <1>17. b2 \in BornState /\ b2.n = born.n /\ b2.ran = born.ran + 1
         /\ b2.owed = born.owed \ {e.id} /\ ~b2.outOfOrder
    BY <1>2, <1>6, <1>7, <1>12, RanInOrder
  <1>18. CallbacksInv(after, born.ran + 1)
    BY <1>4, <1>9, <1>13, <1>15, CallbacksMore
  <1>19. DomInv(after, b2)
    BY <1>2, <1>6, <1>13, <1>14, <1>16, <1>17, <1>18, EventTaken
  <1> QED
    BY <1>11, <1>19

LEMMA SharedPassKeeps ==
    ASSUME DomInv(dom, born), NEW at \in 1..MaxTime, SharedPass(at)
    PROVE  DomInv(dom, born)'
  <1>1. PICK d : d = Resolved(dom)
    OBVIOUS
  <1>2. DomInv(d, born)
    BY <1>1, ResolvedKeeps DEF SharedPass, RootMay
  <1>3. d \in LoopState /\ SessionSound(d)
    BY <1>2 DEF DomInv, EventsInv
  <1>4. PICK after : after = dom'
    OBVIOUS
  <1>5. after = SharedStep(d, at, 0) /\ born' = born /\ at \in Int
    BY <1>1, <1>4 DEF SharedPass
  <1>6. /\ after \in LoopState /\ OnlyRemoves(d, after, {}) /\ after.ran = d.ran + 0
        /\ after.baseline = d.baseline /\ after.open = d.open /\ after.orphaned = d.orphaned
        /\ after.scopes = d.scopes /\ \A o \in LaneOwners : after.lanes[o].ran = d.lanes[o].ran
    BY <1>3, <1>5, SharedStepFields
  <1>7. after.ran = d.ran /\ after.count = d.count
    BY <1>3, <1>6 DEF LoopState, OnlyRemoves
  <1>8. SessionSound(after)
    BY <1>3, <1>6, <1>7 DEF SessionSound, Split
  <1>9. DomInv(after, born)
    BY <1>2, <1>6, <1>7, <1>8, QuietKeeps
  <1> QED
    BY <1>4, <1>5, <1>9

LEMMA GlobalRunKeeps ==
    ASSUME DomInv(dom, born), GlobalRun
    PROVE  DomInv(dom, born)'
  <1>1. PICK d : d = Resolved(dom)
    OBVIOUS
  <1>2. DomInv(d, born) /\ ~d.open
    BY <1>1, ResolvedKeeps DEF GlobalRun, RootMay
  <1>3. PICK e \in d.root :
            /\ \A f \in d.root : e.at < f.at \/ (e.at = f.at /\ e.seq <= f.seq)
            /\ dom' = [Without(d, e) EXCEPT !.now = Later(e.at, d.now), !.ran = @ + 1]
            /\ born' = Ran(e, d.root)
    BY <1>1 DEF GlobalRun
  <1>4. d \in LoopState /\ SessionSound(d) /\ CallbacksInv(d, born.ran)
        /\ born \in BornState /\ born.ran \in Nat
    BY <1>2 DEF DomInv, EventsInv, BornState
  <1>5. Live(d) = d.root
    BY <1>2, <1>4, NoLanes DEF SessionSound
  <1>6. e \in LaneEvent
    BY <1>4, <1>5, LiveTyped
  <1>8. PICK W : W = Without(d, e)
    OBVIOUS
  <1>9. /\ W \in LoopState /\ OnlyRemoves(d, W, {e})
        /\ W.open = d.open /\ W.orphaned = d.orphaned /\ W.scopes = d.scopes
        /\ W.ran = d.ran /\ W.baseline = d.baseline
        /\ \A o \in LaneOwners : W.lanes[o].ran = d.lanes[o].ran
    BY <1>4, <1>8, WithoutFields DEF SameRans
  <1>10. PICK at \in Int : at = Later(e.at, d.now)
    BY <1>4, <1>6 DEF Later, LaneEvent, LoopState
  <1>11. PICK after, b2 : after = dom' /\ b2 = born'
    OBVIOUS
  <1>12. after = [W EXCEPT !.now = at, !.ran = W.ran + 1] /\ b2 = Ran(e, Live(d))
    BY <1>3, <1>5, <1>8, <1>9, <1>10, <1>11 DEF LoopState
  <1>13. /\ after \in LoopState /\ after.ran = W.ran + 1
         /\ after.baseline = W.baseline /\ after.open = W.open /\ after.orphaned = W.orphaned
         /\ after.scopes = W.scopes /\ after.lanes = W.lanes /\ after.root = W.root
         /\ after.count = W.count /\ after.seq = W.seq /\ after.nextId = W.nextId
         /\ after.laneIds = W.laneIds
    <2>1. PICK total \in Nat : total = W.ran + 1
      BY <1>9 DEF LoopState
    <2> QED
      BY <1>9, <1>12, <2>1 DEF LoopState
  <1>14. OnlyRemoves(d, after, {e})
    BY <1>9, <1>13 DEF OnlyRemoves
  <1>15. after.count = d.count
    BY <1>14 DEF OnlyRemoves
  <1>16. SessionSound(after)
    BY <1>4, <1>9, <1>13, <1>15 DEF SessionSound, Split
  <1>17. b2 \in BornState /\ b2.n = born.n /\ b2.ran = born.ran + 1
         /\ b2.owed = born.owed \ {e.id} /\ ~b2.outOfOrder
    BY <1>2, <1>3, <1>5, <1>12, RanInOrder
  <1>18. CallbacksInv(after, born.ran + 1)
    BY <1>4, <1>9, <1>13, <1>15, CallbacksMore
  <1>19. DomInv(after, b2)
    BY <1>2, <1>3, <1>5, <1>13, <1>14, <1>16, <1>17, <1>18, EventTaken
  <1> QED
    BY <1>11, <1>19

(* A worker's callback is counted by its lane only.                        *)
LEMMA LaneRunKeeps ==
    ASSUME DomInv(dom, born), NEW o \in LaneOwners, LaneRun(o)
    PROVE  DomInv(dom, born)'
  <1>1. PICK d : d = dom
    OBVIOUS
  <1>2. DomInv(d, born) /\ o \in d.scopes
    BY <1>1 DEF LaneRun
  <1>3. PICK e \in NextOf(d.lanes[o].live, o) :
            /\ dom' = [Without(d, e) EXCEPT !.lanes[o].clock = Later(e.at, LaneNow(d.lanes[o])),
                                            !.lanes[o].ran = @ + 1]
            /\ born' = Ran(e, d.lanes[o].live)
    BY <1>1 DEF LaneRun
  <1>4. d \in LoopState /\ SessionSound(d) /\ Placed(d) /\ CallbacksInv(d, born.ran)
        /\ born \in BornState /\ born.ran \in Nat
    BY <1>2 DEF DomInv, EventsInv, BornState
  <1>5. o \in Split(d)
    BY <1>2, <1>4 DEF SessionSound
  <1>6. /\ e \in d.lanes[o].live /\ e.owner = o /\ e \in Live(d) /\ e \in LaneEvent
        /\ \A f \in d.lanes[o].live : f.owner = e.owner => e.at < f.at \/ (e.at = f.at /\ e.seq <= f.seq)
    BY <1>3, <1>4, <1>5, LiveTyped DEF NextOf
  <1>7. d.lanes[o].live \in SUBSET Live(d)
    BY <1>4, <1>5, LiveTyped
  <1>8. PICK W : W = Without(d, e)
    OBVIOUS
  <1>9. /\ W \in LoopState /\ OnlyRemoves(d, W, {e})
        /\ W.open = d.open /\ W.orphaned = d.orphaned /\ W.scopes = d.scopes
        /\ W.ran = d.ran /\ W.baseline = d.baseline
        /\ \A a \in LaneOwners : W.lanes[a].ran = d.lanes[a].ran
    <2>1. W \in LoopState /\ OnlyRemoves(d, W, {e}) /\ W.open = d.open /\ W.orphaned = d.orphaned
          /\ W.scopes = d.scopes /\ W.ran = d.ran /\ W.baseline = d.baseline /\ SameRans(d, W)
      BY <1>4, <1>8, WithoutFields
    <2> QED
      BY <2>1 DEF SameRans
  <1>10. PICK clock \in Int : clock = Later(e.at, LaneNow(d.lanes[o]))
    <2>1. d.lanes[o].clock \in Int /\ d.lanes[o].shared \in Int
      BY <1>4 DEF LoopState, LaneStore
    <2> QED
      BY <1>6, <2>1 DEF Later, LaneNow, LaneEvent
  <1>11. PICK after, b2 : after = dom' /\ b2 = born'
    OBVIOUS
  <1>12. W.lanes \in [LaneOwners -> LaneStore] /\ W.lanes[o] \in LaneStore
    BY <1>9 DEF LoopState
  <1>13. PICK ran \in Nat : ran = d.lanes[o].ran + 1 /\ d.lanes[o].ran \in Nat
    BY <1>4 DEF LoopState, LaneStore
  <1> DEFINE lane == [W.lanes[o] EXCEPT !.clock = clock, !.ran = ran]
             lanes == [W.lanes EXCEPT ![o] = lane]
  <1>14. lane \in LaneStore /\ lane.live = W.lanes[o].live /\ lane.seq = W.lanes[o].seq
         /\ lane.nextId = W.lanes[o].nextId /\ lane.ran = ran
    BY <1>12 DEF LaneStore
  <1>15. after = [W EXCEPT !.lanes = lanes] /\ b2 = Ran(e, d.lanes[o].live)
    <2>1. after = [W EXCEPT !.lanes[o].clock = clock, !.lanes[o].ran = @ + 1]
      BY <1>3, <1>8, <1>10, <1>11
    <2>2. W.lanes[o].ran + 1 = ran
      BY <1>9, <1>13
    <2> QED
      <3>1. after = [W EXCEPT !.lanes = [W.lanes EXCEPT ![o] =
                        [W.lanes[o] EXCEPT !.clock = clock, !.ran = W.lanes[o].ran + 1]]]
        BY <1>9, <1>12, <2>1 DEF LoopState, LaneStore
      <3>2. lane = [W.lanes[o] EXCEPT !.clock = clock, !.ran = W.lanes[o].ran + 1]
        BY <2>2
      <3> HIDE DEF lane
      <3> QED
        BY <1>3, <1>11, <3>1, <3>2
  <1> HIDE DEF lane
  <1>16. lanes \in [LaneOwners -> LaneStore] /\ lanes[o] = lane
         /\ \A a \in LaneOwners : a # o => lanes[a] = W.lanes[a]
    BY <1>12, <1>14
  <1> HIDE DEF lanes
  <1>17. /\ after \in LoopState /\ after.ran = d.ran
         /\ after.baseline = d.baseline /\ after.open = d.open /\ after.orphaned = d.orphaned
         /\ after.scopes = d.scopes /\ after.lanes = lanes /\ after.root = W.root
         /\ after.count = W.count /\ after.seq = W.seq /\ after.nextId = W.nextId
         /\ after.laneIds = W.laneIds
    BY <1>9, <1>15, <1>16 DEF LoopState
  <1>18. OnlyRemoves(d, after, {e})
    BY <1>9, <1>14, <1>16, <1>17 DEF OnlyRemoves
  <1>19. after.count = d.count /\ Split(after) = Split(d)
    BY <1>18 DEF OnlyRemoves, Split
  <1>20. SessionSound(after)
    BY <1>4, <1>17, <1>19 DEF SessionSound
  <1>21. b2 \in BornState /\ b2.n = born.n /\ b2.ran = born.ran + 1
         /\ b2.owed = born.owed \ {e.id} /\ ~b2.outOfOrder
    BY <1>2, <1>6, <1>7, <1>15, RanInOrder
  <1>22. CallbacksInv(after, born.ran + 1)
    <2>1. \A a \in LaneOwners : after.lanes[a].ran = IF a = o THEN ran ELSE d.lanes[a].ran
      BY <1>9, <1>14, <1>16, <1>17
    <2>2. d.baseline \in Nat /\ d.ran \in Nat /\ d.lanes[o].ran >= d.baseline
      BY <1>4, <1>5 DEF LoopState, CallbacksInv
    <2> DEFINE x == <<o, d.lanes[o].ran>>
    <2>3. d.baseline..(ran - 1) = (d.baseline..(d.lanes[o].ran - 1)) \cup {d.lanes[o].ran}
      BY <1>13, <2>2
    <2>4. {o} \X (d.baseline..(ran - 1)) = ({o} \X (d.baseline..(d.lanes[o].ran - 1))) \cup {x}
      BY <2>3
    <2>5. LaneCallbacks(after) = LaneCallbacks(d) \cup {x}
      <3>1. ASSUME NEW y \in LaneCallbacks(after) PROVE y \in LaneCallbacks(d) \cup {x}
        <4>1. PICK a \in Split(d) : y \in {a} \X (d.baseline..(after.lanes[a].ran - 1))
          BY <1>17, <1>19 DEF LaneCallbacks
        <4>2. a \in LaneOwners
          BY DEF Split
        <4> QED
          BY <2>1, <2>4, <4>1, <4>2 DEF LaneCallbacks
      <3>2. ASSUME NEW y \in LaneCallbacks(d) PROVE y \in LaneCallbacks(after)
        <4>1. PICK a \in Split(d) : y \in {a} \X (d.baseline..(d.lanes[a].ran - 1))
          BY DEF LaneCallbacks
        <4>2. a \in LaneOwners
          BY DEF Split
        <4>3. y \in {a} \X (d.baseline..(after.lanes[a].ran - 1))
          BY <2>1, <2>4, <4>1, <4>2
        <4> QED
          BY <1>17, <1>19, <4>3 DEF LaneCallbacks
      <3>3. x \in LaneCallbacks(after)
        <4>1. x \in {o} \X (d.baseline..(after.lanes[o].ran - 1))
          BY <2>1, <2>4
        <4> QED
          BY <1>5, <1>17, <1>19, <4>1 DEF LaneCallbacks
      <3> QED
        BY <3>1, <3>2, <3>3
    <2>6. x \notin LaneCallbacks(d)
      <3>1. SUFFICES ASSUME x \in LaneCallbacks(d) PROVE FALSE
        OBVIOUS
      <3>2. PICK a \in Split(d) : x \in {a} \X (d.baseline..(d.lanes[a].ran - 1))
        BY <3>1 DEF LaneCallbacks
      <3>3. a = o /\ d.lanes[o].ran \in d.baseline..(d.lanes[o].ran - 1)
        BY <3>2
      <3> QED
        BY <1>13, <2>2, <3>3
    <2>7. IsFiniteSet(LaneCallbacks(d)) /\ born.ran = d.ran + Cardinality(LaneCallbacks(d))
      BY <1>4 DEF CallbacksInv, ExecutedCallbacks
    <2>8. IsFiniteSet(LaneCallbacks(after))
          /\ Cardinality(LaneCallbacks(after)) = Cardinality(LaneCallbacks(d)) + 1
      BY <2>5, <2>6, <2>7, FS_AddElement
    <2>9. born.ran + 1 = after.ran + Cardinality(LaneCallbacks(after))
      BY <1>17, <2>2, <2>7, <2>8, FS_CardinalityType
    <2>10. \A a \in Split(after) : after.lanes[a].ran >= after.baseline
      BY <1>4, <1>13, <1>17, <1>19, <2>1, <2>2 DEF CallbacksInv, Split
    <2> QED
      BY <2>8, <2>9, <2>10 DEF CallbacksInv, ExecutedCallbacks
  <1>23. DomInv(after, b2)
    BY <1>2, <1>6, <1>17, <1>18, <1>20, <1>21, <1>22, EventTaken
  <1> QED
    BY <1>11, <1>23

LEMMA OpenSessionKeeps ==
    ASSUME DomInv(dom, born), NEW count \in 1..Cardinality(LaneOwners), OpenSession(count)
    PROVE  DomInv(dom, born)'
  <1>1. dom.scopes = {} /\ (~dom.open \/ dom.orphaned) /\ born' = born
        /\ dom' = BeginLaneDomains(Resolved(dom), count)
    BY DEF OpenSession, RootMay
  <1>2. DomInv(Resolved(dom), born) /\ Resolved(dom).scopes = {}
    BY <1>1, ResolvedKeeps
  <1>3. ~Resolved(dom).open
    BY <1>1, FinishKeeps DEF Resolved
  <1>4. PICK d, after : d = Resolved(dom) /\ after = dom'
    OBVIOUS
  <1>5. count \in Nat
    BY LaneDomainsAssumption, FS_CardinalityType
  <1>6. DomInv(after, born)
    BY <1>1, <1>2, <1>3, <1>4, <1>5, BeginKeeps
  <1> QED
    BY <1>1, <1>4, <1>6

LEMMA CloseSessionKeeps ==
    ASSUME DomInv(dom, born), CloseSession
    PROVE  DomInv(dom, born)'
  <1>1. PICK d, after : d = dom /\ after = dom'
    OBVIOUS
  <1>2. DomInv(d, born) /\ d.scopes = {} /\ after = FinishLaneDomains(d) /\ born' = born
    BY <1>1 DEF CloseSession, RootMay
  <1>3. DomInv(after, born)
    BY <1>2, FinishKeeps
  <1> QED
    BY <1>1, <1>2, <1>3

(* Entering or leaving a lane, orphaning a session and advancing a lane's  *)
(* clock touch no event.                                                   *)
LEMMA OrphanSessionKeeps ==
    ASSUME DomInv(dom, born), OrphanSession
    PROVE  DomInv(dom, born)'
  <1>1. PICK d, after : d = dom /\ after = dom'
    OBVIOUS
  <1>2. DomInv(d, born) /\ d.open /\ after = [d EXCEPT !.orphaned = TRUE] /\ born' = born
    BY <1>1 DEF OrphanSession
  <1>3. d \in LoopState /\ SessionSound(d)
    BY <1>2 DEF DomInv, EventsInv
  <1>4. /\ after \in LoopState /\ after.root = d.root \ {} /\ after.lanes = d.lanes /\ after.count = d.count
        /\ after.seq = d.seq /\ after.nextId = d.nextId /\ after.laneIds = d.laneIds
        /\ after.open = d.open /\ after.scopes = d.scopes /\ after.ran = d.ran
        /\ after.baseline = d.baseline
    BY <1>2, <1>3 DEF LoopState
  <1>5. OnlyRemoves(d, after, {}) /\ SessionSound(after)
    BY <1>2, <1>3, <1>4 DEF OnlyRemoves, SessionSound, Split
  <1>6. DomInv(after, born)
    BY <1>2, <1>4, <1>5, QuietKeeps
  <1> QED
    BY <1>1, <1>2, <1>6

LaneClocked(d, after, o, shared, clock, scopes) ==
    after = [d EXCEPT !.scopes = scopes,
                      !.lanes = [d.lanes EXCEPT ![o] = [d.lanes[o] EXCEPT !.shared = shared,
                                                                          !.clock = clock]]]

LEMMA LaneClockKeeps ==
    ASSUME NEW d, NEW b, DomInv(d, b), NEW o \in LaneOwners, NEW shared \in Int, NEW clock \in Int,
           NEW scopes \in SUBSET Split(d), scopes = {} \/ d.open,
           NEW after, LaneClocked(d, after, o, shared, clock, scopes)
    PROVE  DomInv(after, b)
  <1>1. d \in LoopState /\ SessionSound(d)
    BY DEF DomInv, EventsInv
  <1>2. d.lanes \in [LaneOwners -> LaneStore] /\ d.lanes[o] \in LaneStore
    BY <1>1 DEF LoopState
  <1> DEFINE lane == [d.lanes[o] EXCEPT !.shared = shared, !.clock = clock]
             lanes == [d.lanes EXCEPT ![o] = lane]
  <1>3. lane \in LaneStore /\ lane.live = d.lanes[o].live /\ lane.seq = d.lanes[o].seq
        /\ lane.nextId = d.lanes[o].nextId /\ lane.ran = d.lanes[o].ran
    BY <1>2 DEF LaneStore
  <1>4. after = [d EXCEPT !.scopes = scopes, !.lanes = lanes]
    BY DEF LaneClocked
  <1> HIDE DEF lane
  <1>5. lanes \in [LaneOwners -> LaneStore] /\ lanes[o] = lane
        /\ \A a \in LaneOwners : a # o => lanes[a] = d.lanes[a]
    BY <1>2, <1>3
  <1> HIDE DEF lanes
  <1>6. scopes \in SUBSET LaneOwners
    BY DEF Split
  <1>7. /\ after \in LoopState /\ after.root = d.root /\ after.lanes = lanes /\ after.count = d.count
        /\ after.seq = d.seq /\ after.nextId = d.nextId /\ after.laneIds = d.laneIds
        /\ after.open = d.open /\ after.orphaned = d.orphaned /\ after.scopes = scopes
        /\ after.ran = d.ran /\ after.baseline = d.baseline
    BY <1>1, <1>4, <1>5, <1>6 DEF LoopState
  <1>8. after.root = d.root \ {}
    BY <1>7
  <1>9. \A a \in LaneOwners : /\ after.lanes[a].live = d.lanes[a].live
                              /\ after.lanes[a].seq = d.lanes[a].seq
                              /\ after.lanes[a].nextId = d.lanes[a].nextId
                              /\ after.lanes[a].ran = d.lanes[a].ran
    BY <1>3, <1>5, <1>7
  <1>10. OnlyRemoves(d, after, {})
    BY <1>7, <1>8, <1>9 DEF OnlyRemoves
  <1>11. SessionSound(after)
    BY <1>1, <1>7 DEF SessionSound, Split
  <1> QED
    BY <1>7, <1>9, <1>10, <1>11, QuietKeeps

LEMMA EnterLaneKeeps ==
    ASSUME DomInv(dom, born), NEW o \in LaneOwners, EnterLane(o)
    PROVE  DomInv(dom, born)'
  <1>1. PICK d, after : d = dom /\ after = dom'
    OBVIOUS
  <1>2. d \in LoopState /\ SessionSound(d) /\ DomInv(d, born) /\ d.open /\ o \in Split(d)
        /\ born' = born
    BY <1>1 DEF DomInv, EventsInv, EnterLane
  <1>3. d.lanes \in [LaneOwners -> LaneStore] /\ d.lanes[o] \in LaneStore /\ d.now \in Int
    BY <1>2 DEF LoopState
  <1>4. PICK shared \in Int, clock \in Int : shared = Later(d.lanes[o].shared, d.now) /\ clock = d.lanes[o].clock
    BY <1>3 DEF LaneStore, Later
  <1>5. PICK scopes \in SUBSET Split(d) : scopes = d.scopes \cup {o}
    BY <1>2 DEF SessionSound
  <1>6. after = [d EXCEPT !.scopes = @ \cup {o}, !.lanes[o].shared = Later(@, d.now)]
    BY <1>1 DEF EnterLane
  <1>7. after = [d EXCEPT !.scopes = scopes,
                          !.lanes = [d.lanes EXCEPT ![o] = [d.lanes[o] EXCEPT !.shared = shared]]]
    BY <1>2, <1>3, <1>4, <1>5, <1>6 DEF LoopState, LaneStore
  <1>8. [d.lanes[o] EXCEPT !.shared = shared] = [d.lanes[o] EXCEPT !.shared = shared, !.clock = clock]
    BY <1>3, <1>4 DEF LaneStore
  <1>9. DomInv(after, born)
    <2>1. LaneClocked(d, after, o, shared, clock, scopes)
      BY <1>7, <1>8 DEF LaneClocked
    <2> QED
      BY <1>2, <2>1, LaneClockKeeps
  <1> QED
    BY <1>1, <1>2, <1>9

LEMMA LeaveLaneKeeps ==
    ASSUME DomInv(dom, born), NEW o \in LaneOwners, LeaveLane(o)
    PROVE  DomInv(dom, born)'
  <1>1. PICK d, after : d = dom /\ after = dom'
    OBVIOUS
  <1>2. d \in LoopState /\ SessionSound(d) /\ DomInv(d, born) /\ o \in d.scopes /\ born' = born
        /\ after = [d EXCEPT !.scopes = d.scopes \ {o}]
    BY <1>1 DEF DomInv, EventsInv, LeaveLane
  <1>3. PICK scopes \in SUBSET LaneOwners : scopes = d.scopes \ {o}
    BY <1>2 DEF LoopState
  <1>4. /\ after \in LoopState /\ after.root = d.root \ {} /\ after.lanes = d.lanes /\ after.count = d.count
        /\ after.seq = d.seq /\ after.nextId = d.nextId /\ after.laneIds = d.laneIds
        /\ after.open = d.open /\ after.orphaned = d.orphaned /\ after.scopes = scopes
        /\ after.ran = d.ran /\ after.baseline = d.baseline
    BY <1>2, <1>3 DEF LoopState
  <1>5. OnlyRemoves(d, after, {}) /\ SessionSound(after)
    BY <1>2, <1>3, <1>4 DEF OnlyRemoves, SessionSound, Split
  <1>6. DomInv(after, born)
    BY <1>2, <1>4, <1>5, QuietKeeps
  <1> QED
    BY <1>1, <1>2, <1>6

LEMMA LanePassKeeps ==
    ASSUME DomInv(dom, born), NEW o \in LaneOwners, NEW at \in 1..MaxTime, LanePass(o, at)
    PROVE  DomInv(dom, born)'
  <1>1. PICK d, after : d = dom /\ after = dom'
    OBVIOUS
  <1>2. d \in LoopState /\ SessionSound(d) /\ DomInv(d, born) /\ o \in d.scopes /\ born' = born
        /\ after = [d EXCEPT !.lanes[o].clock = at] /\ at \in Int
    BY <1>1 DEF DomInv, EventsInv, LanePass
  <1>3. d.lanes \in [LaneOwners -> LaneStore] /\ d.lanes[o] \in LaneStore
    BY <1>2 DEF LoopState
  <1>4. PICK shared \in Int : shared = d.lanes[o].shared
    BY <1>3 DEF LaneStore
  <1>5. PICK scopes \in SUBSET Split(d) : scopes = d.scopes /\ d.open
    BY <1>2 DEF SessionSound
  <1>6. after = [d EXCEPT !.scopes = scopes,
                          !.lanes = [d.lanes EXCEPT ![o] = [d.lanes[o] EXCEPT !.clock = at]]]
    BY <1>2, <1>3, <1>5 DEF LoopState, LaneStore
  <1>7. [d.lanes[o] EXCEPT !.clock = at] = [d.lanes[o] EXCEPT !.shared = shared, !.clock = at]
    BY <1>3, <1>4 DEF LaneStore
  <1>8. DomInv(after, born)
    <2>1. LaneClocked(d, after, o, shared, at, scopes)
      BY <1>6, <1>7 DEF LaneClocked
    <2> QED
      BY <1>2, <1>5, <2>1, LaneClockKeeps
  <1> QED
    BY <1>1, <1>2, <1>8

LEMMA DomainsStart ==
    ASSUME LaneDomainsInit
    PROVE  DomInv(dom, born)
  <1>1. PICK d, b : d = dom /\ b = born
    OBVIOUS
  <1>2. d = [root |-> {}, nextId |-> 1, seq |-> 0, ran |-> 0, now |-> 0,
              clock |-> [o \in LaneOwners |-> NoClock],
              laneIds |-> [o \in LaneOwners |-> 1],
              lanes |-> [o \in LaneOwners |-> EmptyDomain], count |-> 0,
              baseline |-> 0, open |-> FALSE, orphaned |-> FALSE, scopes |-> {}]
        /\ b = [n |-> 0, ran |-> 0, owed |-> {}, outOfOrder |-> FALSE]
    BY <1>1 DEF LaneDomainsInit
  <1>3. d \in LoopState /\ b \in BornState
    <2>1. [o \in LaneOwners |-> NoClock] \in [LaneOwners -> Int]
      BY DEF NoClock
    <2>2. [o \in LaneOwners |-> EmptyDomain] \in [LaneOwners -> LaneStore]
      BY EmptyDomainTyped
    <2> QED
      BY <1>2, <2>1, <2>2 DEF LoopState, BornState
  <1>4. Split(d) = {} /\ Live(d) = {} /\ LaneCallbacks(d) = {} /\ ExecutedCallbacks(d) = d.ran + 0
    BY <1>2, NoLanes
  <1>5. SessionSound(d) /\ Placed(d)
    BY <1>2, <1>4 DEF SessionSound, Placed, EmptyDomain
  <1>6. Numbered(d, b.n) /\ {e.id : e \in Live(d)} = {}
    BY <1>4 DEF Numbered
  <1>7. CallbacksInv(d, b.ran)
    <2>1. b.ran = 0 /\ d.ran = 0
      BY <1>2
    <2>2. ExecutedCallbacks(d) = 0
      BY <1>4, <2>1
    <2> QED
      BY <1>4, <2>1, <2>2, FS_EmptySet DEF CallbacksInv
  <1>8. IsFiniteSet(Live(d))
    BY <1>4, FS_EmptySet
  <1>9. DomInv(d, b)
    BY <1>2, <1>3, <1>5, <1>6, <1>7, <1>8 DEF DomInv, EventsInv
  <1> QED
    BY <1>1, <1>9

LEMMA DomainsExact ==
    ASSUME DomInv(dom, born)
    PROVE  LaneDomainsExact
  <1>1. dom \in LoopState /\ IsFiniteSet(Live(dom)) /\ Placed(dom) /\ Numbered(dom, born.n)
        /\ {e.id : e \in Live(dom)} = born.owed /\ ~born.outOfOrder /\ born.ran = ExecutedCallbacks(dom)
    BY DEF DomInv, EventsInv, CallbacksInv
  <1>2. Cardinality(Live(dom)) = Cardinality(born.owed)
    <2>1. PICK live, owed : live = Live(dom) /\ owed = born.owed
      OBVIOUS
    <2> DEFINE f == [e \in live |-> e.id]
    <2>2. f \in Bijection(live, owed)
      <3>1. f \in [live -> owed]
        BY <1>1, <2>1
      <3>2. \A e, g \in live : f[e] = f[g] => e = g
        BY <1>1, <2>1 DEF Numbered
      <3>3. \A i \in owed : \E e \in live : f[e] = i
        BY <1>1, <2>1
      <3> HIDE DEF f
      <3> QED
        BY <3>1, <3>2, <3>3 DEF Bijection, Injection, Surjection, IsInjective
    <2>3. ExistsBijection(live, owed)
      <3> HIDE DEF f
      <3> QED
        BY <2>2 DEF ExistsBijection
    <2> QED
      BY <1>1, <2>1, <2>3, FS_Bijection
  <1> QED
    BY <1>1, <1>2 DEF LaneDomainsExact, Placed, Numbered

DomainsPartInv == part = "domains" => DomInv(dom, born)

(* Splitting the event loop for parallel lanes and merging it again -      *)
(* also after a close that failed - loses, duplicates or revives no event, *)
(* keeps handles unique, each owner's events in (time, scheduling) order   *)
(* and the callback count exact: for any number of lanes, any delays and   *)
(* any number of sessions, events and workers in their lanes.              *)
THEOREM DomainsAlwaysExact == WorldSpec => []DomainsCorrect
  <1>1. WorldInit => DomainsPartInv
    BY DomainsStart DEF WorldInit, DomainsPartInv
  <1>2. DomainsPartInv /\ [WorldNext]_WorldVars => DomainsPartInv'
    <2>1. SUFFICES ASSUME DomainsPartInv, [WorldNext]_WorldVars, part' = "domains"
                   PROVE  DomInv(dom, born)'
      BY DEF DomainsPartInv
    <2>2. CASE WorldNext /\ part = "domains"
      <3>1. DomInv(dom, born) /\ LaneDomainsNext
        BY <2>1, <2>2 DEF WorldNext, DomainsPartInv
      <3>2. ASSUME RootCancel PROVE DomInv(dom, born)'
        <4>1. PICK e \in Live(Resolved(dom)) :
                 dom.scopes = {} /\ dom' = Without(Resolved(dom), e) /\ born' = [born EXCEPT !.owed = @ \ {e.id}]
          BY <3>2 DEF RootCancel, RootMay
        <4>2. PICK d : d = Resolved(dom)
          OBVIOUS
        <4>3. DomInv(d, born)
          BY <3>1, <4>1, <4>2, ResolvedKeeps
        <4> QED
          BY <4>1, <4>2, <4>3, CancelKeeps
      <3>3. ASSUME NEW o \in LaneOwners \cup {Shared}, NEW delay \in Delays, RootSchedule(o, delay)
            PROVE  DomInv(dom, born)'
        <4>1. dom.scopes = {} /\ Schedule(Resolved(dom), o, delay)
          BY <3>3 DEF RootSchedule, RootMay
        <4>2. DomInv(Resolved(dom), born) /\ o \in Allocators
          BY <3>1, <4>1, ResolvedKeeps DEF Allocators
        <4>3. PICK d : d = Resolved(dom)
          OBVIOUS
        <4>4. Schedule(d, o, delay)
          BY <4>1, <4>3
        <4> QED
          BY <4>2, <4>3, <4>4, ScheduleKeeps
      <3>4. ASSUME NEW o \in LaneOwners, NEW delay \in Delays, LaneSchedule(o, delay)
            PROVE  DomInv(dom, born)'
        <4>1. PICK d : d = dom
          OBVIOUS
        <4>2. Schedule(d, o, delay) /\ DomInv(d, born) /\ o \in Allocators
          BY <3>1, <3>4, <4>1 DEF LaneSchedule, Allocators
        <4> QED
          BY <4>2, ScheduleKeeps
      <3>5. ASSUME NEW o \in LaneOwners, LaneCancel(o)
            PROVE  DomInv(dom, born)'
        <4>1. PICK e \in dom.lanes[o].live :
                 o \in dom.scopes /\ dom' = Without(dom, e) /\ born' = [born EXCEPT !.owed = @ \ {e.id}]
          BY <3>5 DEF LaneCancel
        <4>2. PICK d : d = dom
          OBVIOUS
        <4>3. d \in LoopState /\ o \in Split(d) /\ DomInv(d, born)
          BY <3>1, <4>1, <4>2 DEF DomInv, EventsInv, SessionSound
        <4>4. e \in Live(d)
          BY <4>1, <4>2, <4>3, LiveTyped
        <4> QED
          BY <4>1, <4>2, <4>3, <4>4, CancelKeeps
      <3> QED
        BY <3>1, <3>2, <3>3, <3>4, <3>5, OpenSessionKeeps, CloseSessionKeeps, OrphanSessionKeeps,
           SharedRunKeeps, GlobalRunKeeps, SharedPassKeeps, EnterLaneKeeps, LeaveLaneKeeps,
           LaneRunKeeps, LanePassKeeps DEF LaneDomainsNext
    <2>3. CASE UNCHANGED WorldVars
      <3>1. dom' = dom /\ born' = born /\ part' = part
        BY <2>3 DEF WorldVars, LaneDomainsVars
      <3> QED
        BY <2>1, <3>1 DEF DomainsPartInv
    <2>4. WorldNext => part' = part
      BY DEF WorldNext
    <2> QED
      BY <2>1, <2>2, <2>3, <2>4
  <1>3. DomainsPartInv => DomainsCorrect
    BY DomainsExact DEF DomainsPartInv, DomainsCorrect
  <1> QED
    BY <1>1, <1>2, <1>3, PTL DEF WorldSpec

-----------------------------------------------------------------------------
(* Independent windows (WorldWindows) *)

WinCommand == [ts : Nat, board : WindowBoards, seq : Nat, nth : Nat, win : Nat]
WinReplay == [t : Int, from : Nat, c : WinCommand]
WinReasons == SliceEnds \cup {"synchronization_required"}
WinPhases == {"between", "lanes", "replay", "stopping", "yielding", "stopped"}
WinResults == {"none", "board_failure", "time_budget", "instruction_budget", "all_boards_stopped"}
WinState ==
    [parallel : BOOLEAN, stopOnFailure : BOOLEAN, deadline : Nat, control : BOOLEAN, debug : Debug,
     phase : WinPhases, now : Nat, end : Nat, waiting : SUBSET WindowBoards,
     local : [WindowBoards -> Nat], runnable : SUBSET WindowBoards,
     reason : [WindowBoards -> WinReasons], dispatched : SUBSET WindowBoards,
     outbox : [WindowBoards -> Seq(WinCommand)], pending : Seq(WinCommand), at : Int,
     shared : SUBSET [t : Int, nth : Nat], handed : SUBSET [at : Int, nth : Nat], failed : BOOLEAN,
     result : WinResults, issued : Nat, replayed : Seq(WinReplay), seen : Int, backwards : BOOLEAN]

(* A window is not empty and not longer than configured; a group opened by *)
(* the replay lies inside it.                                              *)
WinClock(w) ==
    /\ w.phase \in {"lanes", "replay"} => w.now < w.end /\ w.end <= w.now + WindowLength
    /\ w.phase = "replay" => w.at = -1 \/ (w.now <= w.at /\ w.at <= w.end)

(* How far the bus has come, and what it saw.                              *)
BusReach(w) == IF w.phase = "replay" /\ w.at > w.now THEN w.at ELSE w.now
WinBus(w) ==
    /\ ~w.backwards /\ w.seen <= BusReach(w) /\ \A e \in w.shared : e.t >= w.seen
    /\ \A i \in 1..Len(w.replayed) :
          /\ w.replayed[i].t <= BusReach(w)
          /\ w.replayed[i].t = IF w.replayed[i].c.ts > w.replayed[i].from
                               THEN w.replayed[i].c.ts ELSE w.replayed[i].from
    /\ \A i, j \in 1..Len(w.replayed) : i < j => w.replayed[i].t <= w.replayed[j].t
    /\ w.phase = "replay" /\ w.at > w.now => \A i \in 1..Len(w.pending) : w.pending[i].ts >= w.at

(* The commands that wait.                                                 *)
InPending(w, c) == \E i \in 1..Len(w.pending) : w.pending[i] = c
InOutbox(w, b, c) == \E i \in 1..Len(w.outbox[b]) : w.outbox[b][i] = c

(* Two commands of one board and one window are numbered alike by the lane *)
(* and by history.                                                         *)
SameStaging(x, y) == x.win = y.win /\ x.board = y.board => x.nth - x.seq = y.nth - y.seq
InOrder(x, y) ==
    /\ x.win = y.win /\ x.ts = y.ts => x.board <= y.board
    /\ x.board = y.board => x.nth < y.nth \/ (x.win # y.win /\ x.ts = y.ts)

(* Of two commands of one board the later staged is not for an earlier     *)
(* time.                                                                   *)
Aged(x, y) == x.board = y.board /\ x.nth < y.nth => x.ts <= y.ts

WinAges(w) ==
    /\ \A i, j \in 1..Len(w.pending) : Aged(w.pending[i], w.pending[j])
    /\ \A i \in 1..Len(w.pending) : w.pending[i].ts <= w.local[w.pending[i].board]
    /\ \A b \in WindowBoards : \A i \in 1..Len(w.outbox[b]) :
          /\ w.outbox[b][i].ts <= w.local[b]
          /\ \A j \in 1..Len(w.outbox[b]) : Aged(w.outbox[b][i], w.outbox[b][j])
          /\ \A j \in 1..Len(w.pending) : w.pending[j].board = b =>
                w.pending[j].nth < w.outbox[b][i].nth /\ w.pending[j].ts <= w.outbox[b][i].ts
          /\ \A j \in 1..Len(w.replayed) : w.replayed[j].c.board = b =>
                w.replayed[j].c.nth < w.outbox[b][i].nth

WinSorted(w) ==
    /\ \A i, j \in 1..Len(w.pending) : i < j => ~Precedes(w.pending[j], w.pending[i])
    /\ \A i, j \in 1..Len(w.pending) : SameStaging(w.pending[i], w.pending[j])
    /\ \A i, j \in 1..Len(w.replayed) : i < j => InOrder(w.replayed[i].c, w.replayed[j].c)
    /\ \A i \in 1..Len(w.replayed), j \in 1..Len(w.pending) : InOrder(w.replayed[i].c, w.pending[j])
    /\ w.phase \in {"between", "lanes"} =>
          /\ \A i \in 1..Len(w.pending) : w.pending[i].win <= w.now
          /\ \A i \in 1..Len(w.replayed) : w.replayed[i].c.win <= w.now
    /\ w.phase = "replay" =>
          /\ \A i \in 1..Len(w.pending) : w.pending[i].win <= w.end
          /\ \A i \in 1..Len(w.replayed) : w.replayed[i].c.win <= w.end

(* A lane's outbox holds the commands of one slice of this window.         *)
WinOutbox(w) ==
    /\ \A b \in WindowBoards :
          w.phase # "lanes" \/ b \in w.waiting => w.outbox[b] = <<>>
    /\ \A b \in WindowBoards : \A i \in 1..Len(w.outbox[b]) :
          w.outbox[b][i].board = b /\ w.outbox[b][i].win = w.end
    /\ \A b \in WindowBoards : \A i, j \in 1..Len(w.outbox[b]) :
          SameStaging(w.outbox[b][i], w.outbox[b][j])

(* Every number names one command.                                         *)
WinDistinct(w) ==
    /\ \A i, j \in 1..Len(w.pending) : w.pending[i].nth = w.pending[j].nth => i = j
    /\ \A i, j \in 1..Len(w.replayed) : w.replayed[i].c.nth = w.replayed[j].c.nth => i = j
    /\ \A i \in 1..Len(w.pending), j \in 1..Len(w.replayed) : w.pending[i].nth # w.replayed[j].c.nth
    /\ \A b \in WindowBoards : \A i, j \in 1..Len(w.outbox[b]) :
          w.outbox[b][i].nth = w.outbox[b][j].nth => i = j
    /\ \A b \in WindowBoards : \A i \in 1..Len(w.outbox[b]) :
          /\ \A j \in 1..Len(w.pending) : w.outbox[b][i].nth # w.pending[j].nth
          /\ \A j \in 1..Len(w.replayed) : w.outbox[b][i].nth # w.replayed[j].c.nth
          /\ \A d \in WindowBoards : d # b =>
                \A j \in 1..Len(w.outbox[d]) : w.outbox[b][i].nth # w.outbox[d][j].nth
    /\ \A h \in w.handed : \A j \in 1..Len(w.replayed) : h.nth # w.replayed[j].c.nth
    /\ w.phase = "stopped" => w.pending = <<>>
    /\ w.phase # "stopped" => w.handed = {}
    /\ \A h \in w.handed : h.at >= w.now

Replayed(w) == {w.replayed[i].c.nth : i \in 1..Len(w.replayed)}
Staged(w) == UNION {Numbers(w.outbox[b]) : b \in WindowBoards}
Handed(w) == {h.nth : h \in w.handed}
WinComplete(w) ==
    Replayed(w) \cup Numbers(w.pending) \cup Staged(w) \cup Handed(w) = 0..(w.issued - 1)

(* How far a lane that has had its slice of this window is.                *)
SliceDone(w, b) ==
    /\ w.local[b] <= w.end + Overshoot /\ w.local[b] >= w.end - WindowLength
    /\ b \in w.runnable /\ (b \notin w.dispatched \/ w.reason[b] = "time_budget") => w.local[b] >= w.end
Near(w, b, time) ==
    /\ w.local[b] <= time + Overshoot
    /\ w.local[b] >= time - (IF b \in w.runnable THEN 0 ELSE WindowLength)
FailedInTurn(w) ==
    ~w.parallel /\ w.stopOnFailure /\ \E b \in WindowBoards : w.reason[b] = "fault"
WinSkew(w) ==
    /\ w.phase = "between" => \A b \in WindowBoards : Near(w, b, w.now)
    /\ w.phase = "lanes" => \/ w.waiting = {} /\ FailedInTurn(w)
                            \/ \A b \in WindowBoards :
                                  IF b \in w.waiting THEN Near(w, b, w.now) ELSE SliceDone(w, b)
    /\ w.phase = "replay" => \A b \in WindowBoards : Near(w, b, w.end)

(* Why a board that may still run last stopped, and one that may not.      *)
Rested(w, b) ==
    IF b \in w.runnable
    THEN w.reason[b] = IF b \in w.dispatched THEN "time_budget" ELSE "instruction_budget"
    ELSE w.reason[b] \in {"halted", "instruction_budget", "fault"}
WinReasoned(w) ==
    /\ w.phase \in {"between", "replay", "stopping", "yielding"} => \A b \in WindowBoards : Rested(w, b)
    /\ w.phase = "lanes" => \A b \in WindowBoards :
          Rested(w, b) \/ (b \in w.runnable /\ b \in w.dispatched /\ w.reason[b] \in SliceEnds)
    /\ w.phase \in {"replay", "stopping", "yielding", "between"} =>
          (w.failed <=> \E b \in WindowBoards : w.reason[b] = "fault")
    /\ w.phase = "stopping" => w.failed \/ DebugStopped(w)

WinReported(w) ==
    w.phase = "stopped" =>
        /\ w.result = "board_failure" <=> \E b \in WindowBoards : w.reason[b] = "fault"
        /\ w.result = "all_boards_stopped" =>
              \/ \A b \in WindowBoards : w.reason[b] = "halted"
              \/ w.debug = "run" /\ w.reason[0] = "halted"

WinInv(w) ==
    /\ w \in WinState /\ WinClock(w) /\ WinBus(w) /\ WinSorted(w) /\ WinAges(w) /\ WinOutbox(w)
    /\ WinDistinct(w) /\ WinComplete(w) /\ WinSkew(w) /\ WinReasoned(w) /\ WinReported(w)

(* The stable sort of the merged outboxes. *)
SortBefore(s, j, i) == Precedes(s[j], s[i]) \/ (~Precedes(s[i], s[j]) /\ j < i)
SortPlaces(s) == 1..Len(s)
RankedAhead(s, i) == {j \in SortPlaces(s) : SortBefore(s, j, i)}

(* The sort puts every entry somewhere, none twice, and none after one it  *)
(* precedes.                                                               *)
SortedBy(q, s, p) ==
    /\ q \in Seq(WinCommand) /\ Len(q) = Len(s)
    /\ p \in [SortPlaces(s) -> SortPlaces(s)] /\ \A k \in SortPlaces(s) : q[k] = s[p[k]]
    /\ \A k, l \in SortPlaces(s) : p[k] = p[l] => k = l
    /\ \A i \in SortPlaces(s) : \E k \in SortPlaces(s) : p[k] = i
    /\ \A k, l \in SortPlaces(s) : k < l => ~Precedes(q[l], q[k])

LEMMA BoardsTyped ==
    /\ IsFiniteSet(WindowBoards) /\ Cardinality(WindowBoards) \in Nat
    /\ WindowBoards = 0..(Cardinality(WindowBoards) - 1) /\ WindowBoards \subseteq Nat
  BY WindowsAssumption, FS_CardinalityType

LEMMA PrecedesOrder ==
    ASSUME NEW a \in WinCommand, NEW b \in WinCommand, NEW c \in WinCommand
    PROVE  /\ ~(Precedes(a, b) /\ Precedes(b, a))
           /\ Precedes(a, b) /\ ~Precedes(c, b) => Precedes(a, c)
           /\ ~Precedes(b, a) /\ Precedes(b, c) => Precedes(a, c)
           /\ ~Precedes(b, a) /\ ~Precedes(c, b) => ~Precedes(c, a)
  <1>1. /\ a.ts \in Nat /\ b.ts \in Nat /\ c.ts \in Nat /\ a.seq \in Nat /\ b.seq \in Nat /\ c.seq \in Nat
        /\ a.board \in Nat /\ b.board \in Nat /\ c.board \in Nat
    BY BoardsTyped DEF WinCommand
  <1> QED
    BY <1>1 DEF Precedes

LEMMA SortBeforeOrder ==
    ASSUME NEW s \in Seq(WinCommand), NEW i \in 1..Len(s), NEW j \in 1..Len(s), NEW k \in 1..Len(s)
    PROVE  /\ ~SortBefore(s, i, i)
           /\ SortBefore(s, i, j) /\ SortBefore(s, j, k) => SortBefore(s, i, k)
           /\ i # j => SortBefore(s, i, j) \/ SortBefore(s, j, i)
  <1>1. PICK a \in WinCommand, b \in WinCommand, c \in WinCommand : a = s[i] /\ b = s[j] /\ c = s[k]
    BY ElementOfSeq
  <1>2. Len(s) \in Nat
    BY LenProperties
  <1>3. ~(Precedes(a, a) /\ Precedes(a, a)) /\ ~(Precedes(a, b) /\ Precedes(b, a))
    BY PrecedesOrder
  <1>4. ASSUME SortBefore(s, i, j), SortBefore(s, j, k) PROVE SortBefore(s, i, k)
    <2>1. Precedes(a, b) \/ (~Precedes(b, a) /\ i < j)
      BY <1>1, <1>4 DEF SortBefore
    <2>2. Precedes(b, c) \/ (~Precedes(c, b) /\ j < k)
      BY <1>1, <1>4 DEF SortBefore
    <2>3. CASE Precedes(a, b)
      <3>1. ~Precedes(c, b)
        BY <2>2, PrecedesOrder
      <3>2. Precedes(a, c)
        BY <2>3, <3>1, PrecedesOrder
      <3> QED
        BY <1>1, <3>2 DEF SortBefore
    <2>4. CASE ~Precedes(b, a) /\ i < j /\ Precedes(b, c)
      <3>1. Precedes(a, c)
        BY <2>4, PrecedesOrder
      <3> QED
        BY <1>1, <3>1 DEF SortBefore
    <2>5. CASE ~Precedes(b, a) /\ i < j /\ ~Precedes(c, b) /\ j < k
      <3>1. ~Precedes(c, a) /\ i < k
        BY <1>2, <2>5, PrecedesOrder
      <3> QED
        BY <1>1, <3>1 DEF SortBefore
    <2> QED
      BY <2>1, <2>2, <2>3, <2>4, <2>5
  <1>5. ~SortBefore(s, i, i)
    BY <1>1, <1>2, <1>3 DEF SortBefore
  <1>6. i # j => SortBefore(s, i, j) \/ SortBefore(s, j, i)
    BY <1>1, <1>2 DEF SortBefore
  <1> QED
    BY <1>4, <1>5, <1>6

LEMMA RankOrder ==
    ASSUME NEW s \in Seq(WinCommand), NEW i \in 1..Len(s), NEW j \in 1..Len(s)
    PROVE  /\ SortRank(s, i) \in 1..Len(s)
           /\ SortBefore(s, i, j) => SortRank(s, i) < SortRank(s, j)
  <1>1. Len(s) \in Nat /\ IsFiniteSet(1..Len(s)) /\ Cardinality(1..Len(s)) = Len(s)
    <2>1. Len(s) \in Nat
      BY LenProperties
    <2>2. 1 \in Int /\ Len(s) \in Int
      BY <2>1
    <2>3. IsFiniteSet(1..Len(s)) /\ Cardinality(1..Len(s)) = IF 1 > Len(s) THEN 0 ELSE Len(s) - 1 + 1
      BY <2>2, FS_Interval
    <2> QED
      BY <2>1, <2>3
  <1>2. /\ SortRank(s, i) = 1 + Cardinality(RankedAhead(s, i))
        /\ SortRank(s, j) = 1 + Cardinality(RankedAhead(s, j))
    BY DEF SortRank, RankedAhead, SortPlaces, SortBefore
  <1>3. RankedAhead(s, i) \subseteq 1..Len(s) /\ i \notin RankedAhead(s, i)
        /\ RankedAhead(s, j) \subseteq 1..Len(s) /\ j \notin RankedAhead(s, j)
    BY SortBeforeOrder DEF RankedAhead, SortPlaces
  <1>4. /\ IsFiniteSet(RankedAhead(s, i)) /\ Cardinality(RankedAhead(s, i)) \in Nat
        /\ IsFiniteSet(RankedAhead(s, j)) /\ Cardinality(RankedAhead(s, j)) \in Nat
    BY <1>1, <1>3, FS_Subset, FS_CardinalityType
  <1>5. Cardinality(RankedAhead(s, i)) < Len(s)
    <2>1. RankedAhead(s, i) # 1..Len(s)
      BY <1>3
    <2>2. Cardinality(RankedAhead(s, i)) <= Len(s) /\ Cardinality(RankedAhead(s, i)) # Len(s)
      BY <1>1, <1>3, <2>1, FS_Subset
    <2> QED
      BY <1>1, <1>4, <2>2
  <1>6. ASSUME SortBefore(s, i, j) PROVE Cardinality(RankedAhead(s, i)) < Cardinality(RankedAhead(s, j))
    <2>1. RankedAhead(s, i) \subseteq RankedAhead(s, j)
      BY <1>6, SortBeforeOrder DEF RankedAhead, SortPlaces
    <2>2. i \in RankedAhead(s, j)
      BY <1>6 DEF RankedAhead, SortPlaces
    <2>3. RankedAhead(s, i) # RankedAhead(s, j)
      BY <1>3, <2>2
    <2>4. Cardinality(RankedAhead(s, i)) <= Cardinality(RankedAhead(s, j))
          /\ Cardinality(RankedAhead(s, i)) # Cardinality(RankedAhead(s, j))
      BY <1>4, <2>1, <2>3, FS_Subset
    <2> QED
      BY <1>4, <2>4
  <1>7. SortRank(s, i) \in 1..Len(s)
    BY <1>1, <1>2, <1>4, <1>5
  <1> QED
    BY <1>2, <1>4, <1>6, <1>7

LEMMA StableSortSorts ==
    ASSUME NEW s \in Seq(WinCommand)
    PROVE  \E p : SortedBy(StableSort(s), s, p)
  <1> DEFINE Places == 1..Len(s)
             f == [i \in Places |-> SortRank(s, i)]
             p == [k \in Places |-> CHOOSE i \in Places : SortRank(s, i) = k]
  <1>1. Len(s) \in Nat /\ IsFiniteSet(Places)
    <2>1. Len(s) \in Nat
      BY LenProperties
    <2>2. 1 \in Int /\ Len(s) \in Int
      BY <2>1
    <2> QED
      BY <2>1, <2>2, FS_Interval
  <1>2. f \in [Places -> Places]
    BY RankOrder
  <1>3. ASSUME NEW i \in Places, NEW j \in Places, i # j PROVE SortRank(s, i) # SortRank(s, j)
    <2>1. SortBefore(s, i, j) \/ SortBefore(s, j, i)
      BY <1>3, SortBeforeOrder
    <2>2. SortRank(s, i) \in 1..Len(s) /\ SortRank(s, j) \in 1..Len(s)
      BY RankOrder
    <2>3. SortRank(s, i) < SortRank(s, j) \/ SortRank(s, j) < SortRank(s, i)
      BY <2>1, RankOrder
    <2> QED
      BY <1>1, <2>2, <2>3
  <1>4. f \in Injection(Places, Places)
    <2>1. \A i, j \in Places : f[i] = f[j] => i = j
      BY <1>3
    <2> HIDE DEF f
    <2> QED
      BY <1>2, <2>1 DEF Injection, IsInjective
  <1>5. f \in Surjection(Places, Places)
    <2> HIDE DEF f, Places
    <2> QED
      BY <1>1, <1>4, FS_Injection
  <1>6. ASSUME NEW k \in Places PROVE \E i \in Places : SortRank(s, i) = k
    <2>1. PICK i \in Places : f[i] = k
      <3> HIDE DEF f, Places
      <3> QED
        BY <1>5 DEF Surjection
    <2> QED
      BY <2>1
  <1>7. ASSUME NEW k \in Places PROVE p[k] \in Places /\ SortRank(s, p[k]) = k
    BY <1>6
  <1>8. StableSort(s) = [k \in Places |-> s[p[k]]]
    BY DEF StableSort
  <1> HIDE DEF p
  <1>9. ASSUME NEW k \in Places PROVE s[p[k]] \in WinCommand
    BY <1>7, ElementOfSeq
  <1> DEFINE q == [k \in Places |-> s[p[k]]]
  <1>10. q \in [Places -> WinCommand] /\ \A k \in Places : q[k] = s[p[k]]
    BY <1>9
  <1> HIDE DEF q
  <1>11. q \in Seq(WinCommand) /\ Len(q) = Len(s)
    BY <1>1, <1>10
  <1>12. ASSUME NEW k \in Places, NEW l \in Places, k < l PROVE ~Precedes(q[l], q[k])
    <2>1. p[k] # p[l]
      BY <1>7, <1>12
    <2>2. ~SortBefore(s, p[l], p[k])
      <3>1. SortBefore(s, p[l], p[k]) => l < k
        BY <1>7, RankOrder
      <3> QED
        BY <1>1, <1>12, <3>1
    <2> QED
      BY <1>10, <2>2 DEF SortBefore
  <1>13. \A k, l \in Places : p[k] = p[l] => k = l
    BY <1>7
  <1>14. ASSUME NEW i \in Places PROVE \E k \in Places : p[k] = i
    <2>1. SortRank(s, i) \in Places
      BY RankOrder
    <2>2. SortRank(s, p[SortRank(s, i)]) = SortRank(s, i) /\ p[SortRank(s, i)] \in Places
      BY <1>7, <2>1
    <2> QED
      BY <1>3, <2>1, <2>2
  <1>15. p \in [Places -> Places]
    <2>1. \A k \in Places : p[k] \in Places
      BY <1>7
    <2> QED
      BY <2>1 DEF p
  <1>16. SortedBy(q, s, p)
    BY <1>10, <1>11, <1>12, <1>13, <1>14, <1>15 DEF SortedBy, SortPlaces
  <1> QED
    BY <1>8, <1>16 DEF q

(* What is gathered from the outboxes of the first boards.                 *)
Gathered(w, s, n) ==
    /\ s \in Seq(WinCommand)
    /\ \A i \in 1..Len(s) : \/ InPending(w, s[i])
                            \/ \E b \in WindowBoards : b < n /\ InOutbox(w, b, s[i])
    /\ \A k \in 1..Len(w.pending) : \E i \in 1..Len(s) : s[i] = w.pending[k]
    /\ \A b \in WindowBoards : b < n =>
          \A k \in 1..Len(w.outbox[b]) : \E i \in 1..Len(s) : s[i] = w.outbox[b][k]
    /\ \A i, j \in 1..Len(s) : s[i].nth = s[j].nth => i = j

LEMMA GatherNone ==
    ASSUME NEW w \in WinState, WinDistinct(w)
    PROVE  Gathered(w, w.pending, 0)
  <1>1. w.pending \in Seq(WinCommand)
    BY DEF WinState
  <1>2. \A b \in WindowBoards : ~(b < 0)
    BY BoardsTyped
  <1> QED
    BY <1>1, <1>2 DEF Gathered, WinDistinct, InPending

LEMMA GatherMore ==
    ASSUME NEW w \in WinState, WinDistinct(w), NEW n \in WindowBoards, NEW s, Gathered(w, s, n)
    PROVE  Gathered(w, s \o w.outbox[n], n + 1)
  <1> DEFINE o == w.outbox[n]
             a == Len(s)
  <1>1. s \in Seq(WinCommand) /\ o \in Seq(WinCommand) /\ n \in Nat
    BY BoardsTyped DEF Gathered, WinState
  <1>2. Len(s) \in Nat /\ Len(o) \in Nat
    BY <1>1, LenProperties
  <1>3. PICK t : t = s \o o
    OBVIOUS
  <1>4. /\ t \in Seq(WinCommand) /\ Len(t) = Len(s) + Len(o)
        /\ \A i \in 1..(Len(s) + Len(o)) : t[i] = IF i <= Len(s) THEN s[i] ELSE o[i - Len(s)]
    BY <1>1, <1>3, ConcatProperties
  <1>5. \A i \in 1..Len(s) : i \in 1..Len(t) /\ t[i] = s[i]
    BY <1>2, <1>4
  <1>6. \A k \in 1..Len(o) : Len(s) + k \in 1..Len(t) /\ t[Len(s) + k] = o[k]
    BY <1>2, <1>4, SMTT(60)
  <1>7. \A i \in 1..Len(t) : \/ i \in 1..Len(s) /\ t[i] = s[i]
                             \/ i - Len(s) \in 1..Len(o) /\ t[i] = o[i - Len(s)]
    BY <1>2, <1>4
  <1>8. \A b \in WindowBoards : b < n + 1 <=> b < n \/ b = n
    BY <1>1, BoardsTyped
  <1> HIDE DEF o
  <1>9. ASSUME NEW i \in 1..Len(t)
        PROVE  InPending(w, t[i]) \/ \E b \in WindowBoards : b < n + 1 /\ InOutbox(w, b, t[i])
    <2>1. CASE i \in 1..Len(s) /\ t[i] = s[i]
      BY <1>8, <2>1 DEF Gathered
    <2>2. CASE i - Len(s) \in 1..Len(o) /\ t[i] = o[i - Len(s)]
      <3>1. InOutbox(w, n, t[i])
        BY <2>2 DEF InOutbox, o
      <3> QED
        BY <1>8, <3>1
    <2> QED
      BY <1>7, <2>1, <2>2
  <1>10. ASSUME NEW k \in 1..Len(w.pending) PROVE \E i \in 1..Len(t) : t[i] = w.pending[k]
    <2>1. PICK i \in 1..Len(s) : s[i] = w.pending[k]
      BY DEF Gathered
    <2>2. i \in 1..Len(t) /\ t[i] = s[i]
      BY <1>5
    <2> QED
      BY <2>1, <2>2
  <1>11. ASSUME NEW b \in WindowBoards, b < n + 1, NEW k \in 1..Len(w.outbox[b])
         PROVE  \E i \in 1..Len(t) : t[i] = w.outbox[b][k]
    <2>1. CASE b < n
      <3>1. PICK i \in 1..Len(s) : s[i] = w.outbox[b][k]
        BY <2>1 DEF Gathered
      <3>2. i \in 1..Len(t) /\ t[i] = s[i]
        BY <1>5
      <3> QED
        BY <3>1, <3>2
    <2>2. CASE b = n
      BY <1>6, <2>2 DEF o
    <2> QED
      BY <1>8, <1>11, <2>1, <2>2
  <1>12. ASSUME NEW i \in 1..Len(s), NEW k \in 1..Len(o) PROVE s[i].nth # o[k].nth
    <2>1. CASE InPending(w, s[i])
      BY <2>1, SMTT(60) DEF InPending, WinDistinct, o
    <2>2. CASE \E b \in WindowBoards : b < n /\ InOutbox(w, b, s[i])
      <3>1. PICK b \in WindowBoards : b < n /\ InOutbox(w, b, s[i])
        BY <2>2
      <3>2. b # n
        BY <1>1, <3>1
      <3>3. PICK j \in 1..Len(w.outbox[b]) : s[i] = w.outbox[b][j]
        BY <3>1 DEF InOutbox
      <3> QED
        BY <3>2, <3>3 DEF WinDistinct, o
    <2> QED
      BY <2>1, <2>2 DEF Gathered
  <1>13. ASSUME NEW i \in 1..Len(t), NEW j \in 1..Len(t), t[i].nth = t[j].nth PROVE i = j
    <2>1. CASE i \in 1..Len(s) /\ t[i] = s[i]
      <3>1. CASE j \in 1..Len(s) /\ t[j] = s[j]
        BY <1>13, <2>1, <3>1 DEF Gathered
      <3>2. CASE j - Len(s) \in 1..Len(o) /\ t[j] = o[j - Len(s)]
        BY <1>12, <1>13, <2>1, <3>2
      <3> QED
        BY <1>7, <3>1, <3>2
    <2>2. CASE i - Len(s) \in 1..Len(o) /\ t[i] = o[i - Len(s)]
      <3>1. CASE j \in 1..Len(s) /\ t[j] = s[j]
        BY <1>12, <1>13, <2>2, <3>1
      <3>2. CASE j - Len(s) \in 1..Len(o) /\ t[j] = o[j - Len(s)]
        <4>1. i - Len(s) = j - Len(s)
          BY <1>13, <2>2, <3>2 DEF WinDistinct, o
        <4> QED
          BY <1>2, <1>4, <4>1
      <3> QED
        BY <1>7, <3>1, <3>2
    <2> QED
      BY <1>7, <2>1, <2>2
  <1>14. Gathered(w, t, n + 1)
    BY <1>4, <1>9, <1>10, <1>11, <1>13 DEF Gathered
  <1> QED
    BY <1>3, <1>14 DEF o

Gathering(w, f, n) ==
    /\ f \in [0..n -> Seq(WinCommand)] /\ f[0] = w.pending
    /\ \A k \in 1..n : f[k] = f[k - 1] \o w.outbox[k - 1]
    /\ \A k \in 0..n : Gathered(w, f[k], k)

LEMMA GatheringExists ==
    ASSUME NEW w \in WinState, WinDistinct(w)
    PROVE  \E f : Gathering(w, f, Cardinality(WindowBoards))
  <1> DEFINE C == Cardinality(WindowBoards)
             Bad == {n \in 0..C : ~\E f : Gathering(w, f, n)}
  <1>0. C \in Nat /\ WindowBoards = 0..(C - 1)
    BY BoardsTyped
  <1> HIDE DEF C
  <1>1. SUFFICES ASSUME Bad # {} PROVE FALSE
    BY <1>0 DEF C
  <1>2. Bad \in SUBSET Nat
    BY <1>0
  <1>3. PICK n \in Bad : \A k \in Bad : n <= k
    <2> HIDE DEF Bad
    <2> QED
      BY <1>1, <1>2, LeastNumber
  <1>4. n \in 0..C /\ ~\E f : Gathering(w, f, n)
    BY <1>3
  <1>5. n # 0
    <2> DEFINE f == [k \in 0..0 |-> w.pending]
    <2>1. w.pending \in Seq(WinCommand)
      BY DEF WinState
    <2>2. f \in [0..0 -> Seq(WinCommand)] /\ f[0] = w.pending /\ \A k \in 0..0 : k = 0
      BY <2>1
    <2> HIDE DEF f
    <2>3. \A k \in 0..0 : Gathered(w, f[k], k)
      BY <2>2, GatherNone
    <2>4. Gathering(w, f, 0)
      BY <2>2, <2>3 DEF Gathering
    <2> QED
      BY <1>4, <2>4
  <1>6. n - 1 \in 0..C /\ n - 1 \in WindowBoards /\ n \in Nat
    BY <1>0, <1>4, <1>5
  <1>7. PICK g : Gathering(w, g, n - 1)
    <2>1. n - 1 \notin Bad
      <3> HIDE DEF Bad
      <3> QED
        BY <1>3, <1>6
    <2> QED
      BY <1>6, <2>1
  <1> DEFINE last == g[n - 1] \o w.outbox[n - 1]
             f == [k \in 0..n |-> IF k = n THEN last ELSE g[k]]
  <1>8. g \in [0..(n - 1) -> Seq(WinCommand)] /\ g[0] = w.pending /\ Gathered(w, g[n - 1], n - 1)
    BY <1>6, <1>7 DEF Gathering
  <1>9. Gathered(w, last, n)
    <2>1. Gathered(w, last, n - 1 + 1)
      BY <1>6, <1>8, GatherMore
    <2> QED
      BY <1>6, <2>1
  <1>10. last \in Seq(WinCommand)
    BY <1>9 DEF Gathered
  <1> HIDE DEF last
  <1>11. f \in [0..n -> Seq(WinCommand)] /\ f[n] = last /\ \A k \in 0..(n - 1) : f[k] = g[k]
    BY <1>6, <1>8, <1>10
  <1> HIDE DEF f
  <1>12. f[0] = w.pending
    BY <1>6, <1>8, <1>11
  <1>13. ASSUME NEW k \in 1..n PROVE f[k] = f[k - 1] \o w.outbox[k - 1]
    <2>1. CASE k = n
      <3>1. n - 1 \in 0..(n - 1)
        BY <1>6
      <3>2. f[n - 1] = g[n - 1] /\ f[n] = last
        BY <1>11, <3>1
      <3> QED
        BY <2>1, <3>2 DEF last
    <2>2. CASE k # n
      <3>1. k \in 1..(n - 1) /\ k \in 0..(n - 1) /\ k - 1 \in 0..(n - 1)
        BY <1>6, <2>2
      <3> QED
        BY <1>7, <1>11, <3>1 DEF Gathering
    <2> QED
      BY <2>1, <2>2
  <1>14. ASSUME NEW k \in 0..n PROVE Gathered(w, f[k], k)
    <2>1. CASE k = n
      BY <1>9, <1>11, <2>1
    <2>2. CASE k # n
      <3>1. k \in 0..(n - 1)
        BY <1>6, <2>2
      <3> QED
        BY <1>7, <1>11, <3>1 DEF Gathering
    <2> QED
      BY <2>1, <2>2
  <1>15. Gathering(w, f, n)
    BY <1>11, <1>12, <1>13, <1>14 DEF Gathering
  <1> QED
    BY <1>4, <1>15

(* The merge sorts the commands that were pending and every outbox.        *)
LEMMA MergedSorts ==
    ASSUME NEW w \in WinState, WinDistinct(w)
    PROVE  \E s, p : Gathered(w, s, Cardinality(WindowBoards)) /\ SortedBy(Merged(w), s, p)
  <1> DEFINE C == Cardinality(WindowBoards)
             Is(g) == g = [n \in 0..C |-> IF n = 0 THEN w.pending ELSE g[n - 1] \o w.outbox[n - 1]]
             all == CHOOSE g : Is(g)
  <1>0. C \in Nat
    BY BoardsTyped
  <1>1. PICK f : Gathering(w, f, C)
    BY GatheringExists
  <1>2. Merged(w) = StableSort(all[C])
    BY DEF Merged
  <1> HIDE DEF C
  <1>3. Is(f)
    <2>1. f \in [0..C -> Seq(WinCommand)]
      BY <1>1 DEF Gathering
    <2>2. ASSUME NEW n \in 0..C
          PROVE  f[n] = IF n = 0 THEN w.pending ELSE f[n - 1] \o w.outbox[n - 1]
      <3>1. n # 0 => n \in 1..C
        BY <1>0
      <3> QED
        BY <1>1, <3>1 DEF Gathering
    <2> DEFINE h == [n \in 0..C |-> IF n = 0 THEN w.pending ELSE f[n - 1] \o w.outbox[n - 1]]
    <2>3. \A n \in 0..C : f[n] = h[n]
      BY <2>2
    <2>4. f = [n \in 0..C |-> f[n]] /\ h = [n \in 0..C |-> h[n]]
      BY <2>1
    <2>5. f = h
      <3> HIDE DEF h
      <3> QED
        BY <2>3, <2>4
    <2> QED
      BY <2>5
  <1>4. Is(all)
    <2> HIDE DEF Is
    <2> QED
      BY <1>3
  <1> HIDE DEF all
  <1> DEFINE Bad == {n \in 0..C : all[n] # f[n]}
  <1>5. all[C] = f[C]
    <2>1. SUFFICES ASSUME Bad # {} PROVE FALSE
      <3>1. C \in 0..C
        BY <1>0
      <3>2. Bad = {} => all[C] = f[C]
        BY <3>1
      <3> QED
        BY <3>2
    <2>2. Bad \in SUBSET Nat
      BY <1>0
    <2>3. PICK n \in Bad : \A k \in Bad : n <= k
      <3> HIDE DEF Bad
      <3> QED
        BY <2>1, <2>2, LeastNumber
    <2>4. n \in 0..C /\ all[n] # f[n]
      BY <2>3
    <2>5. n - 1 \in 0..C /\ n # 0 => all[n - 1] = f[n - 1]
      <3>1. n # 0 /\ n - 1 \in 0..C => n - 1 \notin Bad
        <4> HIDE DEF Bad
        <4> QED
          BY <1>0, <2>3, <2>4
      <3> QED
        BY <3>1
    <2>6. /\ all[n] = IF n = 0 THEN w.pending ELSE all[n - 1] \o w.outbox[n - 1]
          /\ f[n] = IF n = 0 THEN w.pending ELSE f[n - 1] \o w.outbox[n - 1]
      BY <1>3, <1>4, <2>4
    <2>7. n # 0 => n - 1 \in 0..C
      BY <1>0, <2>4
    <2> QED
      BY <2>4, <2>5, <2>6, <2>7
  <1>6. Gathered(w, f[C], C)
    BY <1>0, <1>1 DEF Gathering
  <1>7. f[C] \in Seq(WinCommand)
    BY <1>6 DEF Gathered
  <1>8. PICK p : SortedBy(StableSort(f[C]), f[C], p)
    BY <1>7, StableSortSorts
  <1>9. SortedBy(Merged(w), f[C], p)
    BY <1>2, <1>5, <1>8
  <1> QED
    BY <1>6, <1>9 DEF C

(* The configuration of a run, which no step changes.                      *)
SameRun(w, v) ==
    /\ v.parallel = w.parallel /\ v.stopOnFailure = w.stopOnFailure /\ v.deadline = w.deadline
    /\ v.control = w.control /\ v.debug = w.debug
(* What waits and what was done with it.                                   *)
SameCommands(w, v) ==
    /\ v.pending = w.pending /\ v.replayed = w.replayed /\ v.handed = w.handed
    /\ v.outbox = w.outbox /\ v.issued = w.issued
SameLanes(w, v) ==
    /\ v.local = w.local /\ v.runnable = w.runnable /\ v.reason = w.reason
    /\ v.dispatched = w.dispatched
SameBus(w, v) == v.at = w.at /\ v.shared = w.shared /\ v.seen = w.seen /\ v.backwards = w.backwards

LEMMA StartWindowKeeps ==
    ASSUME NEW w, NEW v, WinInv(w), w.phase = "between", ~Finished(w),
           v = [w EXCEPT !.phase = "lanes", !.end = WindowEnd(w), !.waiting = WindowBoards]
    PROVE  WinInv(v)
  <1>1. w \in WinState
    BY DEF WinInv
  <1>2. w.now \in Nat /\ w.deadline \in Nat /\ WindowLength \in Nat \ {0} /\ Overshoot \in Nat
    BY <1>1, WindowsAssumption DEF WinState
  <1>3. PICK end \in Nat : end = WindowEnd(w) /\ w.now < end /\ end <= w.now + WindowLength
    BY <1>2 DEF WindowEnd, Finished
  <1>4. v = [w EXCEPT !.phase = "lanes", !.end = end, !.waiting = WindowBoards]
    BY <1>3
  <1>5. /\ v \in WinState /\ v.phase = "lanes" /\ v.end = end /\ v.waiting = WindowBoards
        /\ v.now = w.now /\ v.failed = w.failed /\ v.result = w.result
        /\ SameRun(w, v) /\ SameCommands(w, v) /\ SameLanes(w, v) /\ SameBus(w, v)
    <2>0. "lanes" \in WinPhases
      BY DEF WinPhases
    <2>1. v \in WinState
      BY <1>1, <1>4, <2>0, ZenonT(60) DEF WinState
    <2>2. v.phase = "lanes" /\ v.end = end /\ v.waiting = WindowBoards
      BY <1>1, <1>4 DEF WinState
    <2>3. SameRun(w, v) /\ SameCommands(w, v) /\ SameLanes(w, v) /\ SameBus(w, v)
          /\ v.now = w.now /\ v.failed = w.failed /\ v.result = w.result
      BY <1>1, <1>4 DEF WinState, SameRun, SameCommands, SameLanes, SameBus
    <2> QED
      BY <2>1, <2>2, <2>3
  <1>6. WinClock(v)
    BY <1>3, <1>5 DEF WinClock
  <1>7. WinBus(v)
    BY <1>5 DEF WinInv, WinBus, BusReach, SameCommands, SameBus
  <1>8. WinSorted(v)
    BY <1>5 DEF WinInv, WinSorted, SameCommands
  <1>9. WinOutbox(v)
    <2>1. \A b \in WindowBoards : v.outbox[b] = <<>>
      BY <1>5 DEF WinInv, WinOutbox, SameCommands
    <2> QED
      BY <2>1 DEF WinOutbox
  <1>10. WinDistinct(v) /\ WinComplete(v)
    BY <1>5 DEF WinInv, WinDistinct, WinComplete, Replayed, Staged, Handed, SameCommands
  <1>11. WinSkew(v)
    BY <1>5 DEF WinInv, WinSkew, Near, SameLanes
  <1>12. WinReasoned(v) /\ WinReported(v)
    BY <1>5 DEF WinInv, WinReasoned, WinReported, Rested, SameLanes
  <1>13. WinAges(v)
    BY <1>5 DEF WinInv, WinAges, SameCommands, SameLanes
  <1> QED
    BY <1>5, <1>6, <1>7, <1>8, <1>9, <1>10, <1>11, <1>12, <1>13 DEF WinInv

(* What a lane stages in one slice.                                        *)
StagedBy(w, b, staged) ==
    /\ staged \in Seq(WinCommand)
    /\ \A i \in 1..Len(staged) : /\ staged[i].board = b /\ staged[i].win = w.end
                                 /\ staged[i].seq = i - 1 /\ staged[i].nth = w.issued + (i - 1)

(* When: in the time of the slice, and in the order of time.               *)
StagedWithin(staged, from, to) ==
    \A i \in 1..Len(staged) :
        /\ from <= staged[i].ts /\ staged[i].ts <= to
        /\ \A j \in 1..Len(staged) : i <= j => staged[i].ts <= staged[j].ts

LEMMA StagingsTimed ==
    ASSUME win \in WinState, NEW b \in WindowBoards, NEW from \in Nat, NEW to \in Nat,
           NEW staged \in Stagings(b, from, to), StagedInOrder(staged)
    PROVE  StagedWithin(staged, from, to)
  <1>1. PICK issued \in Nat, end \in Nat : issued = win.issued /\ end = win.end
    BY DEF WinState
  <1> DEFINE command(ts, seq) == [ts |-> ts, board |-> b, seq |-> seq, nth |-> issued + seq, win |-> end]
  <1>2. \/ staged = <<>>
        \/ \E t \in from..to : staged = <<command(t, 0)>>
        \/ \E t, u \in from..to : staged = <<command(t, 0), command(u, 1)>>
    BY <1>1 DEF Stagings
  <1>3. \A t \in from..to, k \in {0, 1} : command(t, k).ts = t
    OBVIOUS
  <1> HIDE DEF command
  <1>4. CASE staged = <<>>
    BY <1>4 DEF StagedWithin
  <1>5. ASSUME NEW t \in from..to, staged = <<command(t, 0)>> PROVE StagedWithin(staged, from, to)
    <2>1. PICK x : x = command(t, 0) /\ x.ts = t
      BY <1>3
    <2>2. Len(staged) = 1 /\ staged[1] = x
      BY <1>5, <2>1
    <2> QED
      BY <2>1, <2>2 DEF StagedWithin
  <1>6. ASSUME NEW t \in from..to, NEW u \in from..to, staged = <<command(t, 0), command(u, 1)>>
        PROVE  StagedWithin(staged, from, to)
    <2>1. PICK x, y : x = command(t, 0) /\ x.ts = t /\ y = command(u, 1) /\ y.ts = u
      BY <1>3
    <2>2. Len(staged) = 2 /\ staged[1] = x /\ staged[2] = y
      BY <1>6, <2>1
    <2>3. t <= u
      <3>1. 1 \in 1..(Len(staged) - 1) => staged[1].ts <= staged[1 + 1].ts
        BY DEF StagedInOrder
      <3> QED
        BY <2>1, <2>2, <3>1
    <2>4. \A i \in 1..Len(staged) : i = 1 \/ i = 2
      BY <2>2
    <2> QED
      BY <2>1, <2>2, <2>3, <2>4 DEF StagedWithin
  <1> QED
    BY <1>2, <1>4, <1>5, <1>6

LEMMA StagingsTyped ==
    ASSUME win \in WinState, NEW b \in WindowBoards, NEW from \in Nat, NEW to \in Nat,
           NEW staged \in Stagings(b, from, to)
    PROVE  StagedBy(win, b, staged)
  <1>1. PICK issued \in Nat, end \in Nat : issued = win.issued /\ end = win.end
    BY DEF WinState
  <1> DEFINE command(ts, seq) == [ts |-> ts, board |-> b, seq |-> seq, nth |-> issued + seq, win |-> end]
  <1>2. \/ staged = <<>>
        \/ \E t \in from..to : staged = <<command(t, 0)>>
        \/ \E t, u \in from..to : staged = <<command(t, 0), command(u, 1)>>
    BY <1>1 DEF Stagings
  <1>3. \A t \in from..to, k \in {0, 1} :
           /\ command(t, k) \in WinCommand /\ command(t, k).board = b /\ command(t, k).win = end
           /\ command(t, k).seq = k /\ command(t, k).nth = issued + k
    BY <1>1 DEF WinCommand
  <1> HIDE DEF command
  <1>4. CASE staged = <<>>
    BY <1>4 DEF StagedBy
  <1>5. ASSUME NEW t \in from..to, staged = <<command(t, 0)>> PROVE StagedBy(win, b, staged)
    <2>1. PICK x \in WinCommand : x = command(t, 0) /\ x.board = b /\ x.win = end /\ x.seq = 0 /\ x.nth = issued
      BY <1>1, <1>3
    <2>2. staged = <<x>> /\ staged \in Seq(WinCommand) /\ Len(staged) = 1 /\ staged[1] = x
      BY <1>5, <2>1
    <2> QED
      BY <1>1, <2>1, <2>2 DEF StagedBy
  <1>6. ASSUME NEW t \in from..to, NEW u \in from..to, staged = <<command(t, 0), command(u, 1)>>
        PROVE  StagedBy(win, b, staged)
    <2>1. PICK x \in WinCommand : x = command(t, 0) /\ x.board = b /\ x.win = end /\ x.seq = 0 /\ x.nth = issued
      BY <1>1, <1>3
    <2>2. PICK y \in WinCommand :
             y = command(u, 1) /\ y.board = b /\ y.win = end /\ y.seq = 1 /\ y.nth = issued + 1
      BY <1>1, <1>3
    <2>3. /\ staged = <<x, y>> /\ staged \in Seq(WinCommand) /\ Len(staged) = 2
          /\ staged[1] = x /\ staged[2] = y
      BY <1>6, <2>1, <2>2
    <2> QED
      BY <1>1, <2>1, <2>2, <2>3 DEF StagedBy
  <1> QED
    BY <1>2, <1>4, <1>5, <1>6

(* A lane that has returned from its slice.                                *)
Returned(w, v, b, waiting, local, reason, dispatched, staged) ==
    v = [w EXCEPT !.waiting = waiting, !.local = [w.local EXCEPT ![b] = local],
                  !.reason = [w.reason EXCEPT ![b] = reason], !.dispatched = dispatched,
                  !.outbox = [w.outbox EXCEPT ![b] = staged], !.issued = w.issued + Len(staged)]

ReturnedAs(w, v, b, waiting, local, reason, dispatched, staged) ==
    /\ v \in WinState /\ SameRun(w, v) /\ SameBus(w, v)
    /\ v.phase = w.phase /\ v.now = w.now /\ v.end = w.end /\ v.runnable = w.runnable
    /\ v.pending = w.pending /\ v.replayed = w.replayed /\ v.handed = w.handed
    /\ v.waiting = waiting /\ v.dispatched = dispatched /\ v.issued = w.issued + Len(staged)
    /\ v.local = [w.local EXCEPT ![b] = local] /\ v.reason = [w.reason EXCEPT ![b] = reason]
    /\ v.outbox = [w.outbox EXCEPT ![b] = staged]

LEMMA ReturnedFields ==
    ASSUME NEW w \in WinState, NEW v, NEW b \in WindowBoards, NEW waiting \in SUBSET WindowBoards,
           NEW local \in Nat, NEW reason \in WinReasons, NEW dispatched \in SUBSET WindowBoards,
           NEW staged \in Seq(WinCommand), Returned(w, v, b, waiting, local, reason, dispatched, staged)
    PROVE  ReturnedAs(w, v, b, waiting, local, reason, dispatched, staged)
  <1>1. PICK times \in [WindowBoards -> Nat] : times = [w.local EXCEPT ![b] = local]
    BY DEF WinState
  <1>2. PICK reasons \in [WindowBoards -> WinReasons] : reasons = [w.reason EXCEPT ![b] = reason]
    BY DEF WinState
  <1>3. PICK boxes \in [WindowBoards -> Seq(WinCommand)] : boxes = [w.outbox EXCEPT ![b] = staged]
    BY DEF WinState
  <1>4. PICK issued \in Nat : issued = w.issued + Len(staged)
    BY LenProperties DEF WinState
  <1>5. v = [w EXCEPT !.waiting = waiting, !.local = times, !.reason = reasons,
                      !.dispatched = dispatched, !.outbox = boxes, !.issued = issued]
    BY <1>1, <1>2, <1>3, <1>4 DEF Returned
  <1>6. v \in WinState
    BY <1>5 DEF WinState
  <1>7. SameRun(w, v) /\ SameBus(w, v) /\ v.phase = w.phase /\ v.now = w.now /\ v.end = w.end
        /\ v.runnable = w.runnable /\ v.pending = w.pending /\ v.replayed = w.replayed
        /\ v.handed = w.handed
    BY <1>5 DEF WinState, SameRun, SameBus
  <1>8. v.waiting = waiting /\ v.dispatched = dispatched /\ v.issued = issued
        /\ v.local = times /\ v.reason = reasons /\ v.outbox = boxes
    BY <1>5 DEF WinState
  <1> QED
    BY <1>1, <1>2, <1>3, <1>4, <1>6, <1>7, <1>8 DEF ReturnedAs

(* Every command that waits or was replayed has a number already issued.   *)
LEMMA NumbersIssued ==
    ASSUME NEW w \in WinState, WinComplete(w)
    PROVE  /\ \A i \in 1..Len(w.pending) : w.pending[i].nth < w.issued
           /\ \A i \in 1..Len(w.replayed) : w.replayed[i].c.nth < w.issued
           /\ \A b \in WindowBoards : \A i \in 1..Len(w.outbox[b]) : w.outbox[b][i].nth < w.issued
           /\ \A h \in w.handed : h.nth < w.issued
  <1>1. w.issued \in Nat
    BY DEF WinState
  <1>2. \A n \in Replayed(w) \cup Numbers(w.pending) \cup Staged(w) \cup Handed(w) : n < w.issued
    BY <1>1 DEF WinComplete
  <1>3. \A i \in 1..Len(w.pending) : w.pending[i].nth \in Numbers(w.pending)
    BY DEF Numbers
  <1>4. \A i \in 1..Len(w.replayed) : w.replayed[i].c.nth \in Replayed(w)
    BY DEF Replayed
  <1>5. \A b \in WindowBoards : \A i \in 1..Len(w.outbox[b]) : w.outbox[b][i].nth \in Staged(w)
    BY DEF Staged, Numbers
  <1>6. \A h \in w.handed : h.nth \in Handed(w)
    BY DEF Handed
  <1> QED
    BY <1>2, <1>3, <1>4, <1>5, <1>6

InLane(w, b) == Rested(w, b) \/ (b \in w.runnable /\ b \in w.dispatched /\ w.reason[b] \in SliceEnds)

SoundSlice(w, v, b, waiting, local, reason, dispatched, staged) ==
    /\ Returned(w, v, b, waiting, local, reason, dispatched, staged)
    /\ w.phase = "lanes" /\ b \in w.waiting /\ StagedBy(w, b, staged)
    /\ local >= w.local[b] /\ StagedWithin(staged, w.local[b], local)
    /\ waiting = w.waiting \ {b} \/ (waiting = {} /\ FailedInTurn(v))
    /\ dispatched \in {w.dispatched, w.dispatched \cup {b}} /\ SliceDone(v, b) /\ InLane(v, b)

LEMMA ReturnedKeeps ==
    ASSUME NEW w, NEW v, NEW b \in WindowBoards, NEW waiting \in SUBSET WindowBoards,
           NEW local \in Nat, NEW reason \in WinReasons, NEW dispatched \in SUBSET WindowBoards,
           NEW staged, WinInv(w), SoundSlice(w, v, b, waiting, local, reason, dispatched, staged)
    PROVE  WinInv(v)
  <1>0. /\ Returned(w, v, b, waiting, local, reason, dispatched, staged)
        /\ w.phase = "lanes" /\ b \in w.waiting /\ StagedBy(w, b, staged)
        /\ waiting = w.waiting \ {b} \/ (waiting = {} /\ FailedInTurn(v))
        /\ dispatched \in {w.dispatched, w.dispatched \cup {b}} /\ SliceDone(v, b) /\ InLane(v, b)
    BY DEF SoundSlice
  <1>1. w \in WinState /\ staged \in Seq(WinCommand)
    BY <1>0 DEF WinInv, StagedBy
  <1>2. /\ v \in WinState /\ SameRun(w, v) /\ SameBus(w, v)
        /\ v.phase = w.phase /\ v.now = w.now /\ v.end = w.end /\ v.runnable = w.runnable
        /\ v.pending = w.pending /\ v.replayed = w.replayed /\ v.handed = w.handed
        /\ v.waiting = waiting /\ v.dispatched = dispatched /\ v.issued = w.issued + Len(staged)
        /\ v.local = [w.local EXCEPT ![b] = local] /\ v.reason = [w.reason EXCEPT ![b] = reason]
        /\ v.outbox = [w.outbox EXCEPT ![b] = staged]
    <2>1. ReturnedAs(w, v, b, waiting, local, reason, dispatched, staged)
      BY <1>0, <1>1, ReturnedFields
    <2> QED
      BY <2>1 DEF ReturnedAs
  <1>3. w.issued \in Nat /\ Len(staged) \in Nat /\ w.end \in Nat /\ w.now \in Nat
    BY <1>1, LenProperties DEF WinState
  <1>4. v.outbox[b] = staged /\ \A d \in WindowBoards : d # b => v.outbox[d] = w.outbox[d]
    BY <1>1, <1>2 DEF WinState
  <1>5. \A d \in WindowBoards : d # b => v.local[d] = w.local[d] /\ v.reason[d] = w.reason[d]
                                         /\ (d \in v.dispatched <=> d \in w.dispatched)
    BY <1>0, <1>1, <1>2 DEF WinState
  <1>6. /\ \A i \in 1..Len(w.pending) : w.pending[i].nth < w.issued
        /\ \A i \in 1..Len(w.replayed) : w.replayed[i].c.nth < w.issued
        /\ \A d \in WindowBoards : \A i \in 1..Len(w.outbox[d]) : w.outbox[d][i].nth < w.issued
        /\ \A h \in w.handed : h.nth < w.issued
    BY <1>1, NumbersIssued DEF WinInv
  <1>7. \A i \in 1..Len(staged) : staged[i].board = b /\ staged[i].win = w.end
           /\ staged[i].seq = i - 1 /\ staged[i].nth = w.issued + (i - 1) /\ staged[i].nth \in Int
           /\ staged[i].nth >= w.issued /\ ~(staged[i].nth < w.issued)
    BY <1>0, <1>3 DEF StagedBy
  <1>8. WinClock(v) /\ WinBus(v) /\ WinSorted(v)
    BY <1>0, <1>2, SMTT(60) DEF WinInv, WinClock, WinBus, BusReach, SameBus, WinSorted
  <1>9. WinOutbox(v)
    <2>1. \A d \in WindowBoards : d \in v.waiting => v.outbox[d] = <<>>
      BY <1>0, <1>2, <1>4 DEF WinInv, WinOutbox
    <2>2. ASSUME NEW d \in WindowBoards, NEW i \in 1..Len(v.outbox[d])
          PROVE  v.outbox[d][i].board = d /\ v.outbox[d][i].win = v.end
      BY <1>2, <1>4, <1>7 DEF WinInv, WinOutbox
    <2>3. ASSUME NEW d \in WindowBoards, NEW i \in 1..Len(v.outbox[d]), NEW j \in 1..Len(v.outbox[d])
          PROVE  SameStaging(v.outbox[d][i], v.outbox[d][j])
      <3>1. CASE d = b
        <4>1. i \in 1..Len(staged) /\ j \in 1..Len(staged)
          BY <1>4, <3>1
        <4>2. staged[i].nth - staged[i].seq = w.issued /\ staged[j].nth - staged[j].seq = w.issued
          BY <1>3, <1>7, <4>1
        <4> QED
          BY <1>4, <3>1, <4>2 DEF SameStaging
      <3>2. CASE d # b
        BY <1>4, <3>2 DEF WinInv, WinOutbox
      <3> QED
        BY <3>1, <3>2
    <2> QED
      BY <1>0, <1>2, <2>1, <2>2, <2>3 DEF WinOutbox
  <1>10. WinDistinct(v)
    <2>1. ASSUME NEW d \in WindowBoards, NEW i \in 1..Len(v.outbox[d]), NEW j \in 1..Len(v.outbox[d]),
                 v.outbox[d][i].nth = v.outbox[d][j].nth
          PROVE  i = j
      <3>1. CASE d = b
        <4>1. i \in 1..Len(staged) /\ j \in 1..Len(staged) /\ staged[i].nth = staged[j].nth
          BY <1>4, <2>1, <3>1
        <4>2. w.issued + (i - 1) = w.issued + (j - 1)
          BY <1>7, <4>1
        <4> QED
          BY <1>3, <4>1, <4>2
      <3>2. CASE d # b
        BY <1>4, <2>1, <3>2, SMTT(60) DEF WinInv, WinDistinct
      <3> QED
        BY <3>1, <3>2
    <2>2. ASSUME NEW d \in WindowBoards, NEW i \in 1..Len(v.outbox[d]), NEW j \in 1..Len(v.pending)
          PROVE  v.outbox[d][i].nth # v.pending[j].nth
      <3>1. CASE d = b
        BY <1>2, <1>4, <1>6, <1>7, <3>1
      <3>2. CASE d # b
        BY <1>2, <1>4, <3>2 DEF WinInv, WinDistinct
      <3> QED
        BY <3>1, <3>2
    <2>3. ASSUME NEW d \in WindowBoards, NEW i \in 1..Len(v.outbox[d]), NEW j \in 1..Len(v.replayed)
          PROVE  v.outbox[d][i].nth # v.replayed[j].c.nth
      <3>1. CASE d = b
        BY <1>2, <1>4, <1>6, <1>7, <3>1
      <3>2. CASE d # b
        BY <1>2, <1>4, <3>2 DEF WinInv, WinDistinct
      <3> QED
        BY <3>1, <3>2
    <2>4. ASSUME NEW d \in WindowBoards, NEW i \in 1..Len(v.outbox[d]),
                 NEW e \in WindowBoards, e # d, NEW j \in 1..Len(v.outbox[e])
          PROVE  v.outbox[d][i].nth # v.outbox[e][j].nth
      <3>1. CASE d = b
        <4>1. i \in 1..Len(staged) /\ v.outbox[d][i] = staged[i]
          BY <1>4, <3>1
        <4>2. j \in 1..Len(w.outbox[e]) /\ v.outbox[e][j] = w.outbox[e][j]
          BY <1>4, <2>4, <3>1
        <4> QED
          BY <1>6, <1>7, <4>1, <4>2
      <3>2. CASE e = b
        <4>1. j \in 1..Len(staged) /\ v.outbox[e][j] = staged[j]
          BY <1>4, <3>2
        <4>2. i \in 1..Len(w.outbox[d]) /\ v.outbox[d][i] = w.outbox[d][i]
          BY <1>4, <2>4, <3>2
        <4> QED
          BY <1>6, <1>7, <4>1, <4>2
      <3>3. CASE d # b /\ e # b
        <4>1. i \in 1..Len(w.outbox[d]) /\ v.outbox[d][i] = w.outbox[d][i]
              /\ j \in 1..Len(w.outbox[e]) /\ v.outbox[e][j] = w.outbox[e][j]
          BY <1>4, <3>3
        <4> QED
          BY <2>4, <4>1 DEF WinInv, WinDistinct
      <3> QED
        BY <3>1, <3>2, <3>3
    <2>5. /\ \A i, j \in 1..Len(v.pending) : v.pending[i].nth = v.pending[j].nth => i = j
          /\ \A i, j \in 1..Len(v.replayed) : v.replayed[i].c.nth = v.replayed[j].c.nth => i = j
          /\ \A i \in 1..Len(v.pending), j \in 1..Len(v.replayed) : v.pending[i].nth # v.replayed[j].c.nth
          /\ \A h \in v.handed : \A j \in 1..Len(v.replayed) : h.nth # v.replayed[j].c.nth
          /\ \A h \in v.handed : h.at >= v.now
          /\ v.handed = {}
      BY <1>0, <1>2 DEF WinInv, WinDistinct
    <2> QED
      BY <1>0, <1>2, <2>1, <2>2, <2>3, <2>4, <2>5 DEF WinDistinct
  <1>11. WinComplete(v)
    <2>1. Numbers(staged) = w.issued..(w.issued + Len(staged) - 1)
      <3>1. ASSUME NEW n \in w.issued..(w.issued + Len(staged) - 1) PROVE n \in Numbers(staged)
        <4>1. PICK i \in 1..Len(staged) : n = w.issued + (i - 1)
          <5>1. n - w.issued + 1 \in 1..Len(staged) /\ n = w.issued + ((n - w.issued + 1) - 1)
            BY <1>3
          <5> QED
            BY <5>1
        <4> QED
          BY <1>7, <4>1 DEF Numbers
      <3>2. ASSUME NEW n \in Numbers(staged) PROVE n \in w.issued..(w.issued + Len(staged) - 1)
        <4>1. PICK i \in 1..Len(staged) : n = staged[i].nth
          BY DEF Numbers
        <4> QED
          BY <1>3, <1>7, <4>1
      <3> QED
        BY <3>1, <3>2
    <2>2. Staged(v) = Staged(w) \cup Numbers(staged)
      <3>1. w.outbox[b] = <<>> /\ Numbers(<<>>) = {}
        BY <1>0 DEF WinInv, WinOutbox, Numbers
      <3>2. ASSUME NEW n \in Staged(v) PROVE n \in Staged(w) \cup Numbers(staged)
        BY <1>4 DEF Staged
      <3>3. ASSUME NEW n \in Staged(w) \cup Numbers(staged) PROVE n \in Staged(v)
        BY <1>4, <3>1 DEF Staged
      <3> QED
        BY <3>2, <3>3
    <2>3. Replayed(v) = Replayed(w) /\ Handed(v) = Handed(w) /\ Numbers(v.pending) = Numbers(w.pending)
      BY <1>2 DEF Replayed, Handed
    <2>4. Replayed(v) \cup Numbers(v.pending) \cup Staged(v) \cup Handed(v)
             = 0..(w.issued - 1) \cup w.issued..(w.issued + Len(staged) - 1)
      <3>1. Replayed(w) \cup Numbers(w.pending) \cup Staged(w) \cup Handed(w) = 0..(w.issued - 1)
        BY DEF WinInv, WinComplete
      <3> QED
        BY <2>1, <2>2, <2>3, <3>1
    <2>5. 0..(w.issued - 1) \cup w.issued..(w.issued + Len(staged) - 1) = 0..(w.issued + Len(staged) - 1)
      BY <1>3
    <2>6. v.issued = w.issued + Len(staged)
      BY <1>2, Zenon
    <2>7. 0..(w.issued + Len(staged) - 1) = 0..(v.issued - 1)
      BY <1>3, <2>6
    <2> QED
      BY <2>4, <2>5, <2>7 DEF WinComplete
  <1>12. WinSkew(v)
    <2>1. CASE waiting = {} /\ FailedInTurn(v)
      BY <1>0, <1>2, <2>1 DEF WinSkew
    <2>2. CASE waiting = w.waiting \ {b}
      <3>1. \A d \in WindowBoards : IF d \in w.waiting THEN Near(w, d, w.now) ELSE SliceDone(w, d)
        BY <1>0, <2>2 DEF WinInv, WinSkew
      <3>2. ASSUME NEW d \in WindowBoards, d # b
            PROVE  IF d \in v.waiting THEN Near(v, d, v.now) ELSE SliceDone(v, d)
        BY <1>2, <1>5, <2>2, <3>1, <3>2 DEF Near, SliceDone
      <3>3. b \notin v.waiting
        BY <1>2, <2>2
      <3> QED
        BY <1>0, <1>2, <3>2, <3>3 DEF WinSkew
    <2> QED
      BY <1>0, <2>1, <2>2
  <1>13. WinReasoned(v) /\ WinReported(v)
    <2>1. \A d \in WindowBoards : d # b => InLane(v, d)
      BY <1>0, <1>2, <1>5 DEF WinInv, WinReasoned, InLane, Rested
    <2>2. \A d \in WindowBoards : InLane(v, d)
      BY <1>0, <2>1
    <2> QED
      BY <1>0, <1>2, <2>2 DEF WinReasoned, WinReported, InLane
  <1>14. WinAges(v)
    <2>1. local >= w.local[b] /\ StagedWithin(staged, w.local[b], local) /\ v.local[b] = local
          /\ \A d \in WindowBoards : w.local[d] \in Nat
      BY <1>1, <1>2 DEF SoundSlice, WinState
    <2>2. \A d \in WindowBoards : w.local[d] <= v.local[d] /\ v.local[d] \in Nat
      BY <1>5, <2>1
    <2>3. \A i \in 1..Len(w.pending) : /\ w.pending[i].board \in WindowBoards
                                       /\ w.pending[i].ts \in Nat /\ w.pending[i].nth \in Nat
      <3>1. \A i \in 1..Len(w.pending) : w.pending[i] \in WinCommand
        BY <1>1, ElementOfSeq DEF WinState
      <3> QED
        BY <3>1 DEF WinCommand
    <2>4. \A i \in 1..Len(staged) : staged[i].ts \in Nat /\ staged[i].nth \in Nat
      <3>1. \A i \in 1..Len(staged) : staged[i] \in WinCommand
        BY <1>1, ElementOfSeq
      <3> QED
        BY <3>1 DEF WinCommand
    <2>5. ASSUME NEW i \in 1..Len(v.pending) PROVE v.pending[i].ts <= v.local[v.pending[i].board]
      <3>1. w.pending[i].ts <= w.local[w.pending[i].board] /\ i \in 1..Len(w.pending)
        BY <1>2 DEF WinInv, WinAges
      <3>2. PICK d \in WindowBoards, t \in Nat : d = w.pending[i].board /\ t = w.pending[i].ts
        BY <2>3, <3>1
      <3>3. t <= w.local[d] /\ w.local[d] <= v.local[d] /\ w.local[d] \in Nat /\ v.local[d] \in Nat
        BY <2>1, <2>2, <3>1, <3>2
      <3>4. t <= v.local[d]
        BY <3>3
      <3> QED
        BY <1>2, <3>2, <3>4
    <2>6. \A i, j \in 1..Len(v.pending) : Aged(v.pending[i], v.pending[j])
      BY <1>2 DEF WinInv, WinAges
    <2>7. ASSUME NEW i \in 1..Len(staged)
          PROVE  /\ staged[i].ts <= local
                 /\ \A j \in 1..Len(staged) : Aged(staged[i], staged[j])
                 /\ \A j \in 1..Len(w.pending) : w.pending[j].board = b =>
                       w.pending[j].nth < staged[i].nth /\ w.pending[j].ts <= staged[i].ts
                 /\ \A j \in 1..Len(w.replayed) : w.replayed[j].c.nth < staged[i].nth
      <3>1. w.local[b] <= staged[i].ts /\ staged[i].ts <= local
        BY <2>1 DEF StagedWithin
      <3>2. ASSUME NEW j \in 1..Len(staged) PROVE Aged(staged[i], staged[j])
        <4>1. staged[i].nth < staged[j].nth => i <= j
          <5>1. staged[i].nth = w.issued + (i - 1) /\ staged[j].nth = w.issued + (j - 1)
            BY <1>7
          <5> QED
            BY <1>3, <5>1
        <4> QED
          BY <2>1, <4>1 DEF Aged, StagedWithin
      <3>3. ASSUME NEW j \in 1..Len(w.pending), w.pending[j].board = b
            PROVE  w.pending[j].nth < staged[i].nth /\ w.pending[j].ts <= staged[i].ts
        <4>1. w.pending[j].nth < w.issued /\ w.issued <= staged[i].nth
          BY <1>3, <1>6, <1>7, <2>4
        <4>2. w.pending[j].ts <= w.local[b]
          BY <3>3 DEF WinInv, WinAges
        <4>3. PICK n, t, nth, ts \in Nat : n = w.pending[j].nth /\ t = w.pending[j].ts
                                          /\ nth = staged[i].nth /\ ts = staged[i].ts
          BY <2>3, <2>4
        <4>4. n < w.issued /\ w.issued <= nth /\ t <= w.local[b] /\ w.local[b] <= ts
          BY <3>1, <4>1, <4>2, <4>3
        <4>5. n < nth /\ t <= ts
          BY <1>3, <2>1, <4>4
        <4> QED
          BY <4>3, <4>5
      <3>4. ASSUME NEW j \in 1..Len(w.replayed) PROVE w.replayed[j].c.nth < staged[i].nth
        <4>1. w.replayed[j].c \in WinCommand
          <5>1. w.replayed[j] \in WinReplay
            BY <1>1, ElementOfSeq DEF WinState
          <5> QED
            BY <5>1 DEF WinReplay
        <4>2. w.replayed[j].c.nth \in Nat
          BY <4>1 DEF WinCommand
        <4>3. PICK n, nth \in Nat : n = w.replayed[j].c.nth /\ nth = staged[i].nth
          BY <2>4, <4>2
        <4>4. n < w.issued /\ nth >= w.issued
          BY <1>6, <1>7, <4>3
        <4>5. n < nth
          BY <1>3, <4>4
        <4> QED
          BY <4>3, <4>5
      <3> QED
        BY <3>1, <3>2, <3>3, <3>4
    <2>8. ASSUME NEW d \in WindowBoards, NEW i \in 1..Len(v.outbox[d])
          PROVE  /\ v.outbox[d][i].ts <= v.local[d]
                 /\ \A j \in 1..Len(v.outbox[d]) : Aged(v.outbox[d][i], v.outbox[d][j])
                 /\ \A j \in 1..Len(v.pending) : v.pending[j].board = d =>
                       v.pending[j].nth < v.outbox[d][i].nth /\ v.pending[j].ts <= v.outbox[d][i].ts
                 /\ \A j \in 1..Len(v.replayed) : v.replayed[j].c.board = d =>
                       v.replayed[j].c.nth < v.outbox[d][i].nth
      <3>1. CASE d = b
        <4>1. v.outbox[d] = staged /\ v.local[d] = local /\ i \in 1..Len(staged)
          BY <1>4, <2>1, <3>1
        <4> QED
          BY <1>2, <2>7, <3>1, <4>1
      <3>2. CASE d # b
        <4>1. v.outbox[d] = w.outbox[d] /\ v.local[d] = w.local[d] /\ i \in 1..Len(w.outbox[d])
          BY <1>4, <1>5, <3>2
        <4> QED
          BY <1>2, <4>1 DEF WinInv, WinAges
      <3> QED
        BY <3>1, <3>2
    <2> QED
      BY <2>5, <2>6, <2>8 DEF WinAges
  <1> QED
    BY <1>2, <1>8, <1>9, <1>10, <1>11, <1>12, <1>13, <1>14 DEF WinInv

SliceReturned(w, v, b, until, reason, staged, ran) ==
    \E waiting, dispatched \in SUBSET WindowBoards :
        /\ Returned(w, v, b, waiting, until, reason, dispatched, staged)
        /\ dispatched = IF ran THEN w.dispatched \cup {b} ELSE w.dispatched
        /\ waiting = IF ~w.parallel /\ w.stopOnFailure /\ reason = "fault" THEN {} ELSE w.waiting \ {b}

LEMMA LaneReturnsFields ==
    ASSUME WinInv(win), win.phase = "lanes", NEW b \in win.waiting, NEW until \in Nat,
           NEW reason \in WinReasons, NEW ran \in BOOLEAN, NEW staged, StagedBy(win, b, staged),
           LaneReturns(b, until, reason, staged, ran), NEW w, w = win, NEW v, v = win'
    PROVE  SliceReturned(w, v, b, until, reason, staged, ran)
  <1>1. w \in WinState /\ b \in WindowBoards /\ w.outbox[b] = <<>> /\ staged \in Seq(WinCommand)
    BY DEF WinInv, WinState, WinOutbox, StagedBy
  <1>2. PICK waiting \in SUBSET WindowBoards :
           waiting = IF ~w.parallel /\ w.stopOnFailure /\ ~Succeeded(reason) THEN {} ELSE w.waiting \ {b}
    BY <1>1 DEF WinState
  <1>3. PICK dispatched \in SUBSET WindowBoards :
           dispatched = IF ran THEN w.dispatched \cup {b} ELSE w.dispatched
    BY <1>1 DEF WinState
  <1>4. w.outbox[b] \o staged = staged
    BY <1>1
  <1>5. v = [w EXCEPT !.waiting = waiting, !.local[b] = until, !.reason[b] = reason,
                      !.dispatched = dispatched, !.outbox[b] = w.outbox[b] \o staged,
                      !.issued = w.issued + Len(staged)]
    BY <1>1, <1>2, <1>3 DEF LaneReturns, WinState
  <1>6. Returned(w, v, b, waiting, until, reason, dispatched, staged)
    BY <1>1, <1>4, <1>5 DEF Returned, WinState
  <1> QED
    BY <1>2, <1>3, <1>6 DEF Succeeded, SliceReturned

LEMMA ParkedSliceKeeps ==
    ASSUME WinInv(win), NEW b \in WindowBoards, ParkedSlice(b)
    PROVE  WinInv(win)'
  <1>1. PICK w, v : w = win /\ v = win'
    OBVIOUS
  <1>2. w \in WinState /\ w.phase = "lanes" /\ b \in w.waiting /\ (b \notin w.runnable \/ w.local[b] >= w.end)
    BY <1>1 DEF ParkedSlice, MayExecute, WinInv
  <1>3. w.local[b] \in Nat /\ w.end \in Nat /\ w.now \in Nat /\ w.reason[b] \in WinReasons
        /\ WindowLength \in Nat /\ Overshoot \in Nat
    BY <1>2, WindowsAssumption DEF WinState
  <1>4. PICK until \in Nat : until = IF w.local[b] < w.end THEN w.end ELSE w.local[b]
    BY <1>3
  <1>5. PICK staged \in Stagings(b, w.local[b], until) : LaneReturns(b, until, w.reason[b], staged, FALSE)
    BY <1>1, <1>4 DEF ParkedSlice
  <1>6. StagedBy(w, b, staged)
    BY <1>1, <1>2, <1>3, StagingsTyped
  <1>7. PICK reason \in WinReasons : reason = w.reason[b]
    BY <1>3
  <1>8. PICK waiting, dispatched \in SUBSET WindowBoards :
              /\ Returned(w, v, b, waiting, until, reason, dispatched, staged)
              /\ dispatched = w.dispatched
              /\ waiting = IF ~w.parallel /\ w.stopOnFailure /\ reason = "fault" THEN {} ELSE w.waiting \ {b}
    <2>1. LaneReturns(b, until, reason, staged, FALSE)
      BY <1>5, <1>7
    <2>2. SliceReturned(w, v, b, until, reason, staged, FALSE)
      BY <1>1, <1>2, <1>6, <2>1, LaneReturnsFields
    <2> QED
      BY <2>2 DEF SliceReturned
  <1>9. ReturnedAs(w, v, b, waiting, until, reason, dispatched, staged)
    BY <1>2, <1>6, <1>8, ReturnedFields DEF StagedBy
  <1>10. v.local[b] = until /\ v.reason[b] = reason /\ v.end = w.end /\ v.runnable = w.runnable
         /\ v.dispatched = w.dispatched /\ v.parallel = w.parallel /\ v.stopOnFailure = w.stopOnFailure
    BY <1>2, <1>8, <1>9 DEF ReturnedAs, WinState, SameRun
  <1>11. SliceDone(v, b)
    <2>1. Near(w, b, w.now) /\ w.now < w.end /\ w.end <= w.now + WindowLength
      BY <1>1, <1>2 DEF WinInv, WinSkew, WinClock
    <2> QED
      BY <1>3, <1>4, <1>10, <2>1 DEF Near, SliceDone
  <1>12. InLane(v, b)
    <2>1. InLane(w, b)
      BY <1>1, <1>2 DEF WinInv, WinReasoned, InLane
    <2> QED
      BY <1>7, <1>10, <2>1 DEF InLane, Rested
  <1>13. waiting = w.waiting \ {b} \/ (waiting = {} /\ FailedInTurn(v))
    BY <1>8, <1>10 DEF FailedInTurn
  <1>14. WinInv(v)
    <2>1. until >= w.local[b] /\ StagedWithin(staged, w.local[b], until)
      <3>1. StagedInOrder(staged)
        BY <1>5 DEF LaneReturns
      <3> QED
        BY <1>1, <1>2, <1>3, <1>4, <1>5, <3>1, StagingsTimed
    <2>2. SoundSlice(w, v, b, waiting, until, reason, dispatched, staged)
      BY <1>2, <1>6, <1>8, <1>11, <1>12, <1>13, <2>1 DEF SoundSlice
    <2> QED
      BY <1>1, <2>2, ReturnedKeeps
  <1> QED
    BY <1>1, <1>14

LEMMA OwnerSliceKeeps ==
    ASSUME WinInv(win), NEW b \in WindowBoards, OwnerSlice(b)
    PROVE  WinInv(win)'
  <1>1. PICK w, v : w = win /\ v = win'
    OBVIOUS
  <1>2. w \in WinState /\ w.phase = "lanes" /\ b \in w.waiting /\ b \in w.runnable /\ w.local[b] < w.end
    BY <1>1 DEF OwnerSlice, MayExecute, WinInv
  <1>3. w.local[b] \in Nat /\ w.end \in Nat /\ w.now \in Nat
        /\ WindowLength \in Nat /\ Overshoot \in Nat
    BY <1>2, WindowsAssumption DEF WinState
  <1>4. PICK reason \in WinReasons, until \in Nat :
          /\ reason \in SliceEnds /\ until >= w.local[b] /\ until <= w.end + Overshoot
          /\ reason = "time_budget" => until >= w.end
          /\ \E staged \in Stagings(b, w.local[b], until) : LaneReturns(b, until, reason, staged, TRUE)
    <2>1. PICK r \in SliceEnds, t \in w.local[b]..(w.end + Overshoot) :
          /\ r = "time_budget" => t >= w.end
          /\ \E staged \in Stagings(b, w.local[b], t) : LaneReturns(b, t, r, staged, TRUE)
      BY <1>1 DEF OwnerSlice
    <2>2. r \in WinReasons /\ t \in Nat /\ t >= w.local[b] /\ t <= w.end + Overshoot
      BY <1>3 DEF WinReasons
    <2> QED
      BY <2>1, <2>2
  <1>5. PICK staged \in Stagings(b, w.local[b], until) : LaneReturns(b, until, reason, staged, TRUE)
    BY <1>4
  <1>7. StagedBy(w, b, staged)
    BY <1>1, <1>2, <1>3, StagingsTyped
  <1>8. PICK waiting, dispatched \in SUBSET WindowBoards :
              /\ Returned(w, v, b, waiting, until, reason, dispatched, staged)
              /\ dispatched = w.dispatched \cup {b}
              /\ waiting = IF ~w.parallel /\ w.stopOnFailure /\ reason = "fault" THEN {} ELSE w.waiting \ {b}
    <2>1. SliceReturned(w, v, b, until, reason, staged, TRUE)
      BY <1>1, <1>2, <1>5, <1>7, LaneReturnsFields
    <2> QED
      BY <2>1 DEF SliceReturned
  <1>9. ReturnedAs(w, v, b, waiting, until, reason, dispatched, staged)
    BY <1>2, <1>7, <1>8, ReturnedFields DEF StagedBy
  <1>10. v.local[b] = until /\ v.reason[b] = reason /\ v.end = w.end /\ v.runnable = w.runnable
         /\ v.dispatched = w.dispatched \cup {b}
         /\ v.parallel = w.parallel /\ v.stopOnFailure = w.stopOnFailure
    BY <1>2, <1>8, <1>9 DEF ReturnedAs, WinState, SameRun
  <1>11. SliceDone(v, b)
    <2>1. Near(w, b, w.now) /\ w.now < w.end /\ w.end <= w.now + WindowLength
      BY <1>1, <1>2 DEF WinInv, WinSkew, WinClock
    <2> QED
      BY <1>2, <1>3, <1>4, <1>10, <2>1 DEF Near, SliceDone
  <1>12. InLane(v, b)
    BY <1>2, <1>4, <1>10 DEF InLane
  <1>13. waiting = w.waiting \ {b} \/ (waiting = {} /\ FailedInTurn(v))
    BY <1>8, <1>10 DEF FailedInTurn
  <1>14. WinInv(v)
    <2>1. until >= w.local[b] /\ StagedWithin(staged, w.local[b], until)
      <3>1. StagedInOrder(staged)
        BY <1>5 DEF LaneReturns
      <3> QED
        BY <1>1, <1>2, <1>3, <1>4, <1>5, <3>1, StagingsTimed
    <2>2. SoundSlice(w, v, b, waiting, until, reason, dispatched, staged)
      BY <1>2, <1>7, <1>8, <1>11, <1>12, <1>13, <2>1 DEF SoundSlice
    <2> QED
      BY <1>1, <2>2, ReturnedKeeps
  <1> QED
    BY <1>1, <1>14

(* What the merge puts in front of the replay.                             *)
MergedFrom(w, q) ==
    /\ q \in Seq(WinCommand)
    /\ \A k, l \in 1..Len(q) : k < l => ~Precedes(q[l], q[k])
    /\ \A k, l \in 1..Len(q) : q[k].nth = q[l].nth => k = l
    /\ \A k \in 1..Len(q) : InPending(w, q[k]) \/ \E b \in WindowBoards : InOutbox(w, b, q[k])
    /\ Numbers(q) = Numbers(w.pending) \cup Staged(w)

LEMMA MergedProperties ==
    ASSUME NEW w \in WinState, WinDistinct(w)
    PROVE  MergedFrom(w, Merged(w))
  <1> DEFINE C == Cardinality(WindowBoards)
  <1>1. PICK s, p : Gathered(w, s, C) /\ SortedBy(Merged(w), s, p)
    BY MergedSorts
  <1>2. PICK q : q = Merged(w)
    OBVIOUS
  <1>3. \A b \in WindowBoards : b < C
    BY BoardsTyped
  <1> HIDE DEF C
  <1>4. /\ q \in Seq(WinCommand) /\ Len(q) = Len(s)
        /\ p \in [1..Len(q) -> 1..Len(q)] /\ \A k \in 1..Len(q) : q[k] = s[p[k]]
        /\ \A k, l \in 1..Len(q) : p[k] = p[l] => k = l
        /\ \A i \in 1..Len(q) : \E k \in 1..Len(q) : p[k] = i
        /\ \A k, l \in 1..Len(q) : k < l => ~Precedes(q[l], q[k])
    BY <1>1, <1>2 DEF SortedBy, SortPlaces
  <1>5. \A i \in 1..Len(q) : \E k \in 1..Len(q) : q[k] = s[i]
    BY <1>4
  <1>6. ASSUME NEW k \in 1..Len(q), NEW l \in 1..Len(q), q[k].nth = q[l].nth PROVE k = l
    <2>1. p[k] \in 1..Len(s) /\ p[l] \in 1..Len(s) /\ s[p[k]].nth = s[p[l]].nth
      BY <1>4, <1>6
    <2>2. p[k] = p[l]
      BY <1>1, <2>1 DEF Gathered
    <2> QED
      BY <1>4, <2>2
  <1>7. ASSUME NEW k \in 1..Len(q)
        PROVE  InPending(w, q[k]) \/ \E b \in WindowBoards : InOutbox(w, b, q[k])
    <2>1. p[k] \in 1..Len(s) /\ q[k] = s[p[k]]
      BY <1>4
    <2> QED
      BY <1>1, <2>1 DEF Gathered
  <1>8. Numbers(q) = Numbers(w.pending) \cup Staged(w)
    <2>1. ASSUME NEW n \in Numbers(q) PROVE n \in Numbers(w.pending) \cup Staged(w)
      <3>1. PICK k \in 1..Len(q) : n = q[k].nth
        BY DEF Numbers
      <3>2. CASE InPending(w, q[k])
        BY <3>1, <3>2 DEF InPending, Numbers
      <3>3. ASSUME NEW b \in WindowBoards, InOutbox(w, b, q[k]) PROVE n \in Staged(w)
        <4>1. n \in Numbers(w.outbox[b])
          BY <3>1, <3>3 DEF InOutbox, Numbers
        <4> QED
          BY <4>1 DEF Staged
      <3> QED
        BY <1>7, <3>2, <3>3
    <2>2. ASSUME NEW n \in Numbers(w.pending) PROVE n \in Numbers(q)
      <3>1. PICK k \in 1..Len(w.pending) : n = w.pending[k].nth
        BY DEF Numbers
      <3>2. PICK i \in 1..Len(s) : s[i] = w.pending[k]
        BY <1>1 DEF Gathered
      <3>3. PICK l \in 1..Len(q) : q[l] = s[i]
        BY <1>4, <1>5, <3>2
      <3> QED
        BY <3>1, <3>2, <3>3 DEF Numbers
    <2>3. ASSUME NEW n \in Staged(w) PROVE n \in Numbers(q)
      <3>1. PICK b \in WindowBoards : n \in Numbers(w.outbox[b])
        BY DEF Staged
      <3>2. PICK k \in 1..Len(w.outbox[b]) : n = w.outbox[b][k].nth
        BY <3>1 DEF Numbers
      <3>3. PICK i \in 1..Len(s) : s[i] = w.outbox[b][k]
        BY <1>1, <1>3 DEF Gathered
      <3>4. PICK l \in 1..Len(q) : q[l] = s[i]
        BY <1>4, <1>5, <3>3
      <3> QED
        BY <3>2, <3>3, <3>4 DEF Numbers
    <2> QED
      BY <2>1, <2>2, <2>3
  <1>9. MergedFrom(w, q)
    BY <1>4, <1>6, <1>7, <1>8 DEF MergedFrom
  <1> QED
    BY <1>2, <1>9

LEMMA ParkLanesKeeps ==
    ASSUME WinInv(win), ParkLanes
    PROVE  WinInv(win)'
  <1>1. PICK w, v : w = win /\ v = win'
    OBVIOUS
  <1>2. w \in WinState /\ w.phase = "lanes" /\ w.waiting = {} /\ WinInv(w)
    BY <1>1 DEF WinInv, ParkLanes
  <1>3. w.now \in Nat /\ w.end \in Nat /\ w.now < w.end /\ w.runnable \subseteq WindowBoards
    BY <1>2 DEF WinInv, WinState, WinClock
  <1>4. PICK q : q = Merged(w) /\ MergedFrom(w, q) /\ q \in Seq(WinCommand)
    BY <1>2, MergedProperties DEF WinInv, MergedFrom
  <1>5. PICK failed \in BOOLEAN : failed <=> \E b \in WindowBoards : w.reason[b] = "fault"
    OBVIOUS
  <1>6. PICK runnable \in SUBSET WindowBoards :
           runnable = {b \in w.runnable : ~(b \in w.dispatched /\ w.reason[b] # "time_budget")}
    BY <1>3
  <1>7. PICK boxes \in [WindowBoards -> Seq(WinCommand)] : boxes = [b \in WindowBoards |-> <<>>]
    <2>1. <<>> \in Seq(WinCommand)
      OBVIOUS
    <2>2. [b \in WindowBoards |-> <<>>] \in [WindowBoards -> Seq(WinCommand)]
      BY <2>1, Zenon
    <2> QED
      BY <2>2, Zenon
  <1>8. PICK phase \in WinPhases : phase = IF ~w.parallel /\ failed /\ w.stopOnFailure THEN "stopping" ELSE "replay"
    BY DEF WinPhases
  <1>9. v = [w EXCEPT !.runnable = runnable, !.failed = failed, !.pending = q, !.outbox = boxes,
                      !.at = -1, !.phase = phase]
    <2>1. (\E b \in WindowBoards : ~Succeeded(w.reason[b])) = failed
      <3>1. (\E b \in WindowBoards : ~Succeeded(w.reason[b])) <=> failed
        BY <1>5 DEF Succeeded
      <3> QED
        BY <3>1, Zenon
    <2>2. v = [w EXCEPT
              !.runnable = {b \in @ : ~(b \in w.dispatched /\ w.reason[b] # "time_budget")},
              !.failed = failed, !.pending = q, !.outbox = [b \in WindowBoards |-> <<>>], !.at = -1,
              !.phase = IF ~w.parallel /\ failed /\ w.stopOnFailure THEN "stopping" ELSE "replay"]
      BY <1>1, <1>4, <2>1, Zenon DEF ParkLanes
    <2> QED
      BY <1>2, <1>6, <1>7, <1>8, <2>2 DEF WinState
  <1>10. v \in WinState
    <2>1. PICK at \in Int : at = -1
      OBVIOUS
    <2>2. v = [w EXCEPT !.runnable = runnable, !.failed = failed, !.pending = q, !.outbox = boxes,
                        !.at = at, !.phase = phase]
      BY <1>9, <2>1
    <2> QED
      BY <1>2, <1>4, <2>2, ZenonT(60) DEF WinState
  <1>11. /\ SameRun(w, v) /\ v.now = w.now /\ v.end = w.end /\ v.local = w.local /\ v.reason = w.reason
         /\ v.dispatched = w.dispatched /\ v.shared = w.shared /\ v.seen = w.seen
         /\ v.backwards = w.backwards /\ v.handed = w.handed /\ v.issued = w.issued /\ v.replayed = w.replayed
    BY <1>2, <1>9 DEF WinState, SameRun
  <1>12. /\ v.runnable = runnable /\ v.failed = failed /\ v.pending = q /\ v.outbox = boxes
         /\ v.at = -1 /\ v.phase = phase
    BY <1>2, <1>9 DEF WinState
  <1>13. phase = "replay" \/ (phase = "stopping" /\ failed)
    BY <1>8
  <1>14. \A b \in WindowBoards : v.outbox[b] = <<>> /\ Len(v.outbox[b]) = 0 /\ Numbers(v.outbox[b]) = {}
    BY <1>7, <1>12 DEF Numbers
  <1>15. WinClock(v)
    BY <1>3, <1>2, <1>11, <1>12, <1>13 DEF WinInv, WinClock
  <1>16. WinBus(v)
    <2>1. BusReach(v) = w.now /\ BusReach(w) = w.now /\ ~(v.at > v.now)
      BY <1>2, <1>3, <1>11, <1>12 DEF BusReach
    <2> QED
      BY <1>2, <1>11, <2>1 DEF WinInv, WinBus
  <1>17. ASSUME NEW k \in 1..Len(q)
         PROVE  \/ InPending(w, q[k]) /\ q[k].win <= w.now
                \/ InOutbox(w, q[k].board, q[k]) /\ q[k].win = w.end /\ q[k].board \in WindowBoards
    <2>1. CASE InPending(w, q[k])
      BY <1>2, <2>1 DEF InPending, WinInv, WinSorted
    <2>2. ASSUME NEW b \in WindowBoards, InOutbox(w, b, q[k])
          PROVE  InOutbox(w, q[k].board, q[k]) /\ q[k].win = w.end /\ q[k].board \in WindowBoards
      <3>1. q[k].board = b /\ q[k].win = w.end
        BY <1>2, <2>2 DEF InOutbox, WinInv, WinOutbox
      <3> QED
        BY <2>2, <3>1
    <2> QED
      BY <1>4, <2>1, <2>2 DEF MergedFrom
  <1>18. \A k \in 1..Len(q) : q[k] \in WinCommand /\ q[k].win \in Nat
    <2>1. \A k \in 1..Len(q) : q[k] \in WinCommand
      BY <1>4, ElementOfSeq
    <2> QED
      BY <2>1 DEF WinCommand
  <1>19. \A i \in 1..Len(w.replayed) : w.replayed[i].c.win <= w.now /\ w.replayed[i].c.win \in Nat
    <2>1. \A i \in 1..Len(w.replayed) : w.replayed[i] \in WinReplay
      BY <1>2, ElementOfSeq DEF WinState
    <2>2. \A i \in 1..Len(w.replayed) : w.replayed[i].c.win \in Nat
      BY <2>1 DEF WinReplay, WinCommand
    <2> QED
      BY <1>2, <2>2 DEF WinInv, WinSorted
  <1>20. WinSorted(v)
    <2>1. \A i, j \in 1..Len(q) : i < j => ~Precedes(q[j], q[i])
      BY <1>4 DEF MergedFrom
    <2>2. ASSUME NEW i \in 1..Len(q), NEW j \in 1..Len(q) PROVE SameStaging(q[i], q[j])
      <3>1. SUFFICES ASSUME q[i].win = q[j].win, q[i].board = q[j].board
                     PROVE  q[i].nth - q[i].seq = q[j].nth - q[j].seq
        BY DEF SameStaging
      <3>2. CASE InPending(w, q[i]) /\ InPending(w, q[j])
        <4>1. SameStaging(q[i], q[j])
          BY <1>2, <3>2 DEF InPending, WinInv, WinSorted
        <4> QED
          BY <3>1, <4>1 DEF SameStaging
      <3>3. CASE InOutbox(w, q[i].board, q[i]) /\ InOutbox(w, q[j].board, q[j]) /\ q[i].board \in WindowBoards
        <4>1. PICK b \in WindowBoards : b = q[i].board /\ b = q[j].board
          BY <3>1, <3>3
        <4>2. PICK k \in 1..Len(w.outbox[b]) : w.outbox[b][k] = q[i]
          BY <3>3, <4>1 DEF InOutbox
        <4>3. PICK l \in 1..Len(w.outbox[b]) : w.outbox[b][l] = q[j]
          BY <3>3, <4>1 DEF InOutbox
        <4>4. SameStaging(w.outbox[b][k], w.outbox[b][l])
          BY <1>2 DEF WinInv, WinOutbox
        <4> QED
          BY <3>1, <4>2, <4>3, <4>4 DEF SameStaging
      <3>4. ~(q[i].win <= w.now /\ q[j].win = w.end) /\ ~(q[j].win <= w.now /\ q[i].win = w.end)
        BY <1>3, <1>18, <3>1
      <3> QED
        BY <1>17, <3>2, <3>3, <3>4
    <2>3. ASSUME NEW i \in 1..Len(w.replayed), NEW j \in 1..Len(q) PROVE InOrder(w.replayed[i].c, q[j])
      <3>1. CASE InPending(w, q[j])
        BY <1>2, <3>1 DEF InPending, WinInv, WinSorted
      <3>2. CASE InOutbox(w, q[j].board, q[j]) /\ q[j].win = w.end /\ q[j].board \in WindowBoards
        <4>1. w.replayed[i].c.win # q[j].win
          BY <1>3, <1>19, <3>2
        <4>2. w.replayed[i].c.board = q[j].board => w.replayed[i].c.nth < q[j].nth
          BY <1>2, <3>2 DEF InOutbox, WinInv, WinAges
        <4> QED
          BY <4>1, <4>2 DEF InOrder
      <3> QED
        BY <1>17, <3>1, <3>2
    <2>4. \A i, j \in 1..Len(w.replayed) : i < j => InOrder(w.replayed[i].c, w.replayed[j].c)
      BY <1>2 DEF WinInv, WinSorted
    <2>5. \A k \in 1..Len(q) : q[k].win <= w.end
      BY <1>3, <1>17, <1>18
    <2>6. \A i \in 1..Len(w.replayed) : w.replayed[i].c.win <= w.end
      BY <1>3, <1>19
    <2>7. v.phase \notin {"between", "lanes"} /\ v.pending = q /\ v.replayed = w.replayed /\ v.end = w.end
      BY <1>11, <1>12, <1>13
    <2> QED
      BY <2>1, <2>2, <2>3, <2>4, <2>5, <2>6, <2>7 DEF WinSorted
  <1>21. WinOutbox(v)
    BY <1>14 DEF WinOutbox
  <1>22. ASSUME NEW i \in 1..Len(q), NEW j \in 1..Len(w.replayed) PROVE q[i].nth # w.replayed[j].c.nth
    <2>1. CASE InPending(w, q[i])
      BY <1>2, <2>1 DEF InPending, WinInv, WinDistinct
    <2>2. CASE InOutbox(w, q[i].board, q[i]) /\ q[i].board \in WindowBoards
      BY <1>2, <2>2 DEF InOutbox, WinInv, WinDistinct
    <2> QED
      BY <1>17, <2>1, <2>2
  <1>23. WinDistinct(v)
    <2>1. \A i, j \in 1..Len(q) : q[i].nth = q[j].nth => i = j
      BY <1>4 DEF MergedFrom
    <2>2. /\ \A i, j \in 1..Len(w.replayed) : w.replayed[i].c.nth = w.replayed[j].c.nth => i = j
          /\ \A h \in w.handed : \A j \in 1..Len(w.replayed) : h.nth # w.replayed[j].c.nth
          /\ w.handed = {}
      BY <1>2 DEF WinInv, WinDistinct
    <2> QED
      BY <1>11, <1>12, <1>13, <1>14, <1>22, <2>1, <2>2 DEF WinDistinct
  <1>24. WinComplete(v)
    <2>1. Staged(v) = {}
      <3>1. \A b \in WindowBoards : Numbers(v.outbox[b]) = {}
        BY <1>14
      <3>2. \A n : n \notin Staged(v)
        BY <3>1, Zenon DEF Staged
      <3> QED
        BY <3>2, Zenon
    <2>2. Replayed(v) = Replayed(w) /\ Handed(v) = Handed(w)
      BY <1>11 DEF Replayed, Handed
    <2>3. Numbers(v.pending) = Numbers(w.pending) \cup Staged(w)
      BY <1>4, <1>12 DEF MergedFrom
    <2> QED
      BY <1>2, <1>11, <2>1, <2>2, <2>3 DEF WinInv, WinComplete
  <1>25. WinSkew(v)
    <2>1. CASE FailedInTurn(w)
      <3>1. phase = "stopping"
        BY <1>5, <1>8, <2>1 DEF FailedInTurn
      <3> QED
        BY <1>12, <3>1 DEF WinSkew
    <2>2. CASE \A b \in WindowBoards : SliceDone(w, b)
      <3>1. ASSUME NEW b \in WindowBoards PROVE Near(v, b, v.end)
        <4>1. w.local[b] \in Nat /\ WindowLength \in Nat
          BY <1>2, WindowsAssumption DEF WinState
        <4> QED
          BY <1>3, <1>6, <1>11, <1>12, <2>2, <4>1 DEF SliceDone, Near
      <3> QED
        BY <1>12, <1>13, <3>1 DEF WinSkew
    <2> QED
      BY <1>2, <2>1, <2>2 DEF WinInv, WinSkew
  <1>26. WinReasoned(v) /\ WinReported(v)
    <2>1. ASSUME NEW b \in WindowBoards PROVE Rested(v, b)
      <3>1. InLane(w, b)
        BY <1>2 DEF WinInv, WinReasoned, InLane
      <3> QED
        BY <1>6, <1>11, <1>12, <3>1 DEF InLane, Rested, SliceEnds
    <2> QED
      BY <1>5, <1>11, <1>12, <1>13, <2>1 DEF WinReasoned, WinReported
  <1>27. WinAges(v)
    <2>1. ASSUME NEW i \in 1..Len(q), NEW j \in 1..Len(q) PROVE Aged(q[i], q[j])
      <3>1. SUFFICES ASSUME q[i].board = q[j].board, q[i].nth < q[j].nth PROVE q[i].ts <= q[j].ts
        BY DEF Aged
      <3>2. PICK x, y \in WinCommand : x = q[i] /\ y = q[j]
        BY <1>18
      <3>3. x.nth \in Nat /\ y.nth \in Nat /\ x.board = y.board /\ x.nth < y.nth
        BY <3>1, <3>2 DEF WinCommand
      <3>4. CASE InPending(w, x) /\ InPending(w, y)
        BY <1>2, <3>2, <3>3, <3>4 DEF InPending, WinInv, WinAges, Aged
      <3>5. CASE InPending(w, x) /\ InOutbox(w, y.board, y) /\ y.board \in WindowBoards
        BY <1>2, <3>2, <3>3, <3>5 DEF InPending, InOutbox, WinInv, WinAges
      <3>6. CASE InOutbox(w, x.board, x) /\ x.board \in WindowBoards /\ InPending(w, y)
        <4>1. y.nth < x.nth
          BY <1>2, <3>3, <3>6 DEF InPending, InOutbox, WinInv, WinAges
        <4> QED
          BY <3>3, <4>1
      <3>7. CASE InOutbox(w, x.board, x) /\ x.board \in WindowBoards /\ InOutbox(w, y.board, y)
        <4>1. PICK b \in WindowBoards : b = x.board /\ b = y.board
          BY <3>3, <3>7
        <4>2. PICK k \in 1..Len(w.outbox[b]) : w.outbox[b][k] = x
          BY <3>7, <4>1 DEF InOutbox
        <4>3. PICK l \in 1..Len(w.outbox[b]) : w.outbox[b][l] = y
          BY <3>7, <4>1 DEF InOutbox
        <4>4. Aged(w.outbox[b][k], w.outbox[b][l])
          BY <1>2 DEF WinInv, WinAges
        <4> QED
          BY <3>2, <3>3, <4>2, <4>3, <4>4 DEF Aged
      <3> QED
        BY <1>17, <3>2, <3>4, <3>5, <3>6, <3>7
    <2>2. ASSUME NEW i \in 1..Len(q) PROVE q[i].ts <= w.local[q[i].board]
      <3>1. CASE InPending(w, q[i])
        BY <1>2, <3>1 DEF InPending, WinInv, WinAges
      <3>2. CASE InOutbox(w, q[i].board, q[i]) /\ q[i].board \in WindowBoards
        BY <1>2, <3>2 DEF InOutbox, WinInv, WinAges
      <3> QED
        BY <1>17, <3>1, <3>2
    <2>3. v.pending = q /\ v.local = w.local
      BY <1>11, <1>12
    <2>4. \A b \in WindowBoards : 1..Len(v.outbox[b]) = {}
      BY <1>14
    <2> QED
      BY <2>1, <2>2, <2>3, <2>4 DEF WinAges
  <1>28. WinInv(v)
    BY <1>10, <1>15, <1>16, <1>20, <1>21, <1>23, <1>24, <1>25, <1>26, <1>27 DEF WinInv
  <1> QED
    BY <1>1, <1>28

(* Completions run in time order up to a time.                             *)
ForwardOnly(w) == ~w.backwards /\ \A e \in w.shared : e.t >= w.seen
Drained(w, u, seen) ==
    /\ u \in WinState /\ ForwardOnly(u) /\ u.seen = seen
    /\ SameRun(w, u) /\ SameCommands(w, u) /\ SameLanes(w, u) /\ u.phase = w.phase
    /\ u.now = w.now /\ u.end = w.end /\ u.waiting = w.waiting /\ u.at = w.at
    /\ u.failed = w.failed /\ u.result = w.result

LEMMA DrainKeeps ==
    ASSUME NEW w \in WinState, NEW at \in Int, ForwardOnly(w)
    PROVE  Drained(w, DrainShared(w, at), IF at > w.seen THEN at ELSE w.seen)
  <1>1. PICK u : u = DrainShared(w, at)
    OBVIOUS
  <1>2. w.shared \subseteq [t : Int, nth : Nat] /\ w.seen \in Int /\ w.backwards = FALSE
    BY DEF WinState, ForwardOnly
  <1>3. PICK shared \in SUBSET [t : Int, nth : Nat] : shared = w.shared \ {e \in w.shared : e.t <= at}
    BY <1>2
  <1>4. PICK seen \in Int : seen = IF at > w.seen THEN at ELSE w.seen
    BY <1>2
  <1>5. (w.backwards \/ \E e \in {e \in w.shared : e.t <= at} : e.t < w.seen) = FALSE
    <2>1. \A e \in w.shared : ~(e.t < w.seen)
      BY <1>2 DEF ForwardOnly
    <2>2. (w.backwards \/ \E e \in {e \in w.shared : e.t <= at} : e.t < w.seen) <=> FALSE
      BY <1>2, <2>1, Zenon
    <2> QED
      BY <2>2, Zenon
  <1>6. u = [w EXCEPT !.shared = shared, !.seen = seen, !.backwards = FALSE]
    <2>1. u = [w EXCEPT !.shared = w.shared \ {e \in w.shared : e.t <= at},
                        !.seen = IF at > w.seen THEN at ELSE w.seen,
                        !.backwards = w.backwards \/ \E e \in {e \in w.shared : e.t <= at} : e.t < w.seen]
      BY <1>1, Zenon DEF DrainShared
    <2> QED
      BY <1>3, <1>4, <1>5, <2>1, Zenon
  <1>7. u \in WinState
    BY <1>6 DEF WinState
  <1>8. u.shared = shared /\ u.seen = seen /\ u.backwards = FALSE
    BY <1>6 DEF WinState
  <1>9. SameRun(w, u) /\ SameCommands(w, u) /\ SameLanes(w, u) /\ u.phase = w.phase
        /\ u.now = w.now /\ u.end = w.end /\ u.waiting = w.waiting /\ u.at = w.at
        /\ u.failed = w.failed /\ u.result = w.result
    BY <1>6 DEF WinState, SameRun, SameCommands, SameLanes
  <1>10. ASSUME NEW e \in shared PROVE e.t >= seen
    <2>1. e \in w.shared /\ ~(e.t <= at) /\ e.t \in Int
      BY <1>2, <1>3
    <2>2. e.t >= w.seen
      BY <2>1 DEF ForwardOnly
    <2> QED
      BY <1>2, <1>4, <2>1, <2>2
  <1>11. ForwardOnly(u)
    BY <1>8, <1>10 DEF ForwardOnly
  <1> QED
    BY <1>1, <1>4, <1>7, <1>8, <1>9, <1>11 DEF Drained

(* The head of a sequence of commands and what is left.                    *)
LEMMA HeadAndRest ==
    ASSUME NEW s \in Seq(WinCommand), s # <<>>
    PROVE  /\ Head(s) = s[1] /\ Head(s) \in WinCommand /\ 1 \in 1..Len(s)
           /\ Tail(s) \in Seq(WinCommand) /\ Len(Tail(s)) = Len(s) - 1 /\ Len(s) \in Nat
           /\ \A i \in 1..Len(Tail(s)) : i + 1 \in 1..Len(s) /\ Tail(s)[i] = s[i + 1]
  <1>1. Len(s) \in Nat /\ Len(s) # 0
    BY LenProperties, EmptySeq
  <1>2. Head(s) = s[1] /\ Head(s) \in WinCommand /\ Tail(s) \in Seq(WinCommand)
        /\ Len(Tail(s)) = Len(s) - 1 /\ \A i \in 1..Len(Tail(s)) : Tail(s)[i] = s[i + 1]
    BY <1>1, HeadTailProperties, ElementOfSeq
  <1> QED
    BY <1>1, <1>2

(* The bus at the moment a command takes effect.                           *)
AtCommand(w, u, at, c) ==
    /\ u \in WinState /\ ForwardOnly(u) /\ u.seen <= at
    /\ SameRun(w, u) /\ SameCommands(w, u) /\ SameLanes(w, u) /\ u.phase = w.phase
    /\ u.now = w.now /\ u.end = w.end /\ u.waiting = w.waiting
    /\ u.failed = w.failed /\ u.result = w.result
    /\ w.now <= at /\ at <= w.end /\ BusReach(w) <= at
    /\ at = (IF c.ts > w.now THEN c.ts ELSE w.now)

LEMMA CommandReached ==
    ASSUME NEW w, WinInv(w), w.phase = "replay", Due(w), NEW c, c = Head(w.pending),
           NEW at, at = (IF ~(c.ts > w.at) THEN w.at ELSE IF c.ts > w.now THEN c.ts ELSE w.now),
           NEW u, u = (IF c.ts > w.at THEN DrainShared(DrainShared(w, w.at), at) ELSE w)
    PROVE  at \in Int /\ AtCommand(w, u, at, c)
  <1>1. w \in WinState /\ w.pending \in Seq(WinCommand) /\ w.pending # <<>> /\ c.ts <= w.end
    BY DEF WinInv, Due, WinState
  <1>2. c = w.pending[1] /\ c \in WinCommand /\ 1 \in 1..Len(w.pending) /\ c.ts \in Nat
    <2>1. c = w.pending[1] /\ c \in WinCommand /\ 1 \in 1..Len(w.pending)
      BY <1>1, HeadAndRest
    <2> QED
      BY <2>1 DEF WinCommand
  <1>3. w.now \in Nat /\ w.end \in Nat /\ w.at \in Int /\ w.seen \in Int /\ w.now < w.end
        /\ (w.at = -1 \/ (w.now <= w.at /\ w.at <= w.end))
    BY <1>1 DEF WinInv, WinState, WinClock
  <1>4. ForwardOnly(w) /\ w.seen <= BusReach(w) /\ (w.at > w.now => c.ts >= w.at)
        /\ BusReach(w) = IF w.at > w.now THEN w.at ELSE w.now
    BY <1>2 DEF WinInv, WinBus, ForwardOnly, BusReach
  <1>5. at \in Int /\ w.now <= at /\ at <= w.end /\ BusReach(w) <= at
        /\ at = IF c.ts > w.now THEN c.ts ELSE w.now
    BY <1>1, <1>2, <1>3, <1>4
  <1>6. CASE ~(c.ts > w.at)
    <2>1. u = w /\ w.seen <= at
      BY <1>3, <1>4, <1>5, <1>6
    <2> QED
      BY <1>1, <1>4, <1>5, <2>1 DEF AtCommand, SameRun, SameCommands, SameLanes
  <1>7. CASE c.ts > w.at
    <2>1. PICK d : d = DrainShared(w, w.at) /\ Drained(w, d, IF w.at > w.seen THEN w.at ELSE w.seen)
      BY <1>1, <1>3, <1>4, DrainKeeps
    <2>2. d \in WinState /\ ForwardOnly(d) /\ d.seen = IF w.at > w.seen THEN w.at ELSE w.seen
      BY <2>1 DEF Drained
    <2>3. u = DrainShared(d, at)
      BY <1>7, <2>1
    <2>4. Drained(d, u, IF at > d.seen THEN at ELSE d.seen)
      BY <1>5, <2>2, <2>3, DrainKeeps
    <2>5. d.seen <= at /\ d.seen \in Int
      BY <1>2, <1>3, <1>4, <1>5, <1>7, <2>2
    <2>6. u.seen <= at
      BY <1>5, <2>4, <2>5 DEF Drained
    <2> QED
      BY <1>5, <2>1, <2>4, <2>6 DEF AtCommand, Drained, SameRun, SameCommands, SameLanes
  <1> QED
    BY <1>5, <1>6, <1>7

LEMMA ReplayCommandKeeps ==
    ASSUME WinInv(win), ReplayCommand
    PROVE  WinInv(win)'
  <1>1. PICK w, v : w = win /\ v = win'
    OBVIOUS
  <1>2. w \in WinState /\ w.phase = "replay" /\ Due(w) /\ WinInv(w) /\ w.pending # <<>>
    BY <1>1 DEF WinInv, ReplayCommand, Due
  <1>3. PICK c : c = Head(w.pending)
    OBVIOUS
  <1>4. PICK at : at = IF ~(c.ts > w.at) THEN w.at ELSE IF c.ts > w.now THEN c.ts ELSE w.now
    OBVIOUS
  <1>5. PICK u : u = IF c.ts > w.at THEN DrainShared(DrainShared(w, w.at), at) ELSE w
    OBVIOUS
  <1>6. at \in Int /\ AtCommand(w, u, at, c)
    BY <1>2, <1>3, <1>4, <1>5, CommandReached
  <1>7. v = [u EXCEPT !.pending = Tail(@), !.at = at,
                      !.shared = @ \cup {[t |-> at + BusDelay, nth |-> c.nth]},
                      !.replayed = Append(@, [t |-> at, from |-> w.now, c |-> c])]
    BY <1>1, <1>3, <1>4, <1>5, Zenon DEF ReplayCommand
  <1>8. w.pending \in Seq(WinCommand) /\ w.replayed \in Seq(WinReplay) /\ w.now \in Nat /\ w.end \in Nat
    BY <1>2 DEF WinState
  <1>9. PICK rest \in Seq(WinCommand) : rest = Tail(w.pending) /\ Len(rest) = Len(w.pending) - 1
           /\ \A i \in 1..Len(rest) : i + 1 \in 1..Len(w.pending) /\ rest[i] = w.pending[i + 1]
    BY <1>2, <1>8, HeadAndRest
  <1>10. c = w.pending[1] /\ c \in WinCommand /\ 1 \in 1..Len(w.pending) /\ Len(w.pending) \in Nat
    BY <1>2, <1>3, <1>8, HeadAndRest
  <1>11. c.ts \in Nat /\ c.nth \in Nat /\ c.board \in Nat /\ c.seq \in Nat
    BY <1>10, BoardsTyped DEF WinCommand
  <1>12. PICK r \in WinReplay : r = [t |-> at, from |-> w.now, c |-> c] /\ r.t = at /\ r.from = w.now /\ r.c = c
    <2> DEFINE x == [t |-> at, from |-> w.now, c |-> c]
    <2>1. x \in WinReplay
      BY <1>6, <1>8, <1>10 DEF WinReplay
    <2>2. x.t = at /\ x.from = w.now /\ x.c = c
      OBVIOUS
    <2> QED
      BY <2>1, <2>2
  <1>13. PICK log \in Seq(WinReplay) : log = Append(w.replayed, r) /\ Len(log) = Len(w.replayed) + 1
            /\ (\A i \in 1..Len(w.replayed) : log[i] = w.replayed[i]) /\ log[Len(w.replayed) + 1] = r
    BY <1>8, AppendProperties, ZenonT(60)
  <1>14. PICK done \in [t : Int, nth : Nat] : done = [t |-> at + BusDelay, nth |-> c.nth] /\ done.t >= at
    <2>1. at + BusDelay \in Int /\ at + BusDelay >= at
      BY <1>6, WindowsAssumption
    <2> DEFINE x == [t |-> at + BusDelay, nth |-> c.nth]
    <2>2. x \in [t : Int, nth : Nat] /\ x.t = at + BusDelay
      BY <1>11, <2>1
    <2> QED
      BY <2>1, <2>2
  <1>15. u \in WinState /\ u.pending = w.pending /\ u.replayed = w.replayed
         /\ u.shared \subseteq [t : Int, nth : Nat] /\ u.seen \in Int
    BY <1>6 DEF AtCommand, SameCommands, WinState
  <1>16. PICK shared \in SUBSET [t : Int, nth : Nat] : shared = u.shared \cup {done}
    BY <1>15
  <1>17. v = [u EXCEPT !.pending = rest, !.at = at, !.shared = shared, !.replayed = log]
    BY <1>7, <1>9, <1>12, <1>13, <1>14, <1>15, <1>16 DEF WinState
  <1>18. v \in WinState
    BY <1>6, <1>15, <1>17 DEF WinState
  <1>19. /\ SameRun(u, v) /\ SameLanes(u, v) /\ v.phase = u.phase /\ v.now = u.now /\ v.end = u.end
         /\ v.outbox = u.outbox /\ v.issued = u.issued /\ v.handed = u.handed /\ v.seen = u.seen
         /\ v.backwards = u.backwards /\ v.failed = u.failed /\ v.waiting = u.waiting
    BY <1>15, <1>17 DEF WinState, SameRun, SameLanes
  <1>20. v.pending = rest /\ v.at = at /\ v.shared = shared /\ v.replayed = log
    BY <1>15, <1>17 DEF WinState
  <1>21. /\ SameRun(w, v) /\ SameLanes(w, v) /\ v.phase = "replay" /\ v.now = w.now /\ v.end = w.end
         /\ v.outbox = w.outbox /\ v.issued = w.issued /\ v.handed = w.handed /\ v.failed = w.failed
         /\ v.waiting = w.waiting
    BY <1>2, <1>6, <1>19 DEF AtCommand, SameRun, SameLanes, SameCommands
  <1>22. ~v.backwards /\ v.seen <= at /\ v.seen \in Int /\ \A e \in shared : e.t >= v.seen
    <2>1. ~u.backwards /\ u.seen <= at /\ \A e \in u.shared : e.t >= u.seen
      BY <1>6 DEF AtCommand, ForwardOnly
    <2>2. done.t >= u.seen
      BY <1>6, <1>14, <1>15, <2>1
    <2> QED
      BY <1>15, <1>16, <1>19, <2>1, <2>2
  <1>23. w.now <= at /\ at <= w.end /\ BusReach(w) <= at /\ at = IF c.ts > w.now THEN c.ts ELSE w.now
    BY <1>6 DEF AtCommand
  <1>24. Len(w.replayed) \in Nat /\ \A i \in 1..Len(log) : i \in 1..Len(w.replayed) \/ i = Len(w.replayed) + 1
    <2>1. Len(w.replayed) \in Nat
      BY <1>8, LenProperties
    <2> QED
      BY <1>13, <2>1
  <1>25. \A i \in 1..Len(log) : (i \in 1..Len(w.replayed) /\ log[i] = w.replayed[i])
                                \/ (i = Len(w.replayed) + 1 /\ log[i] = r)
    BY <1>13, <1>24
  <1>26. \A i \in 1..Len(w.replayed) : w.replayed[i].t \in Int /\ w.replayed[i].c \in WinCommand
    <2>1. \A i \in 1..Len(w.replayed) : w.replayed[i] \in WinReplay
      BY <1>8, ElementOfSeq
    <2> QED
      BY <2>1 DEF WinReplay
  <1>27. \A i \in 1..Len(w.pending) : w.pending[i].ts \in Nat /\ w.pending[i].nth \in Nat
            /\ w.pending[i].seq \in Nat /\ w.pending[i].board \in Nat
    <2>1. \A i \in 1..Len(w.pending) : w.pending[i] \in WinCommand
      BY <1>8, ElementOfSeq
    <2> QED
      BY <2>1, BoardsTyped DEF WinCommand
  <1>28. WinClock(v)
    BY <1>2, <1>20, <1>21, <1>23 DEF WinInv, WinClock
  <1>29. WinBus(v)
    <2>1. BusReach(v) = at
      BY <1>6, <1>8, <1>20, <1>21, <1>23 DEF BusReach
    <2>2. BusReach(w) \in Int
      BY <1>2 DEF BusReach, WinState
    <2>3. \A i \in 1..Len(w.replayed) :
             /\ w.replayed[i].t <= BusReach(w)
             /\ w.replayed[i].t = IF w.replayed[i].c.ts > w.replayed[i].from
                                  THEN w.replayed[i].c.ts ELSE w.replayed[i].from
      BY <1>2 DEF WinInv, WinBus
    <2>4. \A i \in 1..Len(w.replayed) : w.replayed[i].t <= at
      BY <1>6, <1>23, <1>26, <2>2, <2>3, SMTT(60)
    <2>5. ASSUME NEW i \in 1..Len(log)
          PROVE  log[i].t <= at /\ log[i].t = IF log[i].c.ts > log[i].from THEN log[i].c.ts ELSE log[i].from
      BY <1>6, <1>12, <1>23, <1>25, <2>3, <2>4, SMTT(60)
    <2>6. ASSUME NEW i \in 1..Len(log), NEW j \in 1..Len(log), i < j PROVE log[i].t <= log[j].t
      <3>1. CASE j \in 1..Len(w.replayed)
        <4>1. i \in 1..Len(w.replayed) /\ log[i] = w.replayed[i] /\ log[j] = w.replayed[j]
          BY <1>13, <1>24, <2>6, <3>1
        <4>2. w.replayed[i].t <= w.replayed[j].t
          BY <1>2, <2>6, <3>1, <4>1 DEF WinInv, WinBus
        <4> QED
          BY <4>1, <4>2
      <3>2. CASE j = Len(w.replayed) + 1
        <4>1. log[j].t = at
          BY <1>12, <1>13, <3>2
        <4> QED
          BY <2>5, <4>1
      <3> QED
        BY <1>24, <3>1, <3>2
    <2>7. ASSUME at > w.now, NEW i \in 1..Len(rest) PROVE rest[i].ts >= at
      <3>1. i + 1 \in 1..Len(w.pending) /\ rest[i] = w.pending[i + 1] /\ 1 < i + 1
        BY <1>9, <1>10
      <3>2. ~Precedes(w.pending[i + 1], w.pending[1])
        BY <1>2, <1>10, <3>1 DEF WinInv, WinSorted
      <3>3. w.pending[i + 1].ts >= c.ts
        <4>1. PICK z : z = w.pending[i + 1]
          OBVIOUS
        <4>2. z.ts \in Nat /\ ~Precedes(z, c)
          BY <1>10, <1>27, <3>1, <3>2, <4>1
        <4>3. z.ts >= c.ts
          BY <1>11, <4>2 DEF Precedes
        <4> QED
          BY <4>1, <4>3
      <3>4. at = c.ts
        BY <1>8, <1>11, <1>23, <2>7
      <3> QED
        BY <3>1, <3>3, <3>4
    <2> QED
      BY <1>20, <1>21, <1>22, <2>1, <2>5, <2>6, <2>7 DEF WinBus
  <1>30. WinSorted(v)
    <2>1. ASSUME NEW i \in 1..Len(rest), NEW j \in 1..Len(rest)
          PROVE  (i < j => ~Precedes(rest[j], rest[i])) /\ SameStaging(rest[i], rest[j])
      <3>1. i + 1 \in 1..Len(w.pending) /\ rest[i] = w.pending[i + 1]
            /\ j + 1 \in 1..Len(w.pending) /\ rest[j] = w.pending[j + 1] /\ (i < j => i + 1 < j + 1)
        BY <1>9
      <3> QED
        BY <1>2, <3>1 DEF WinInv, WinSorted
    <2>2. ASSUME NEW j \in 1..Len(rest) PROVE InOrder(c, rest[j])
      <3>1. j + 1 \in 1..Len(w.pending) /\ rest[j] = w.pending[j + 1] /\ 1 < j + 1
        BY <1>9, <1>10
      <3>2. PICK z : z = w.pending[j + 1]
        OBVIOUS
      <3>3. ~Precedes(z, c) /\ SameStaging(c, z) /\ Aged(z, c) /\ c.nth # z.nth
        <4>1. ~Precedes(z, c) /\ SameStaging(c, z) /\ Aged(z, c)
          BY <1>2, <1>10, <3>1, <3>2 DEF WinInv, WinSorted, WinAges
        <4>2. c.nth = z.nth => 1 = j + 1
          BY <1>2, <1>10, <3>1, <3>2 DEF WinInv, WinDistinct
        <4> QED
          BY <3>1, <4>1, <4>2
      <3>4. z.ts \in Nat /\ z.board \in Nat /\ z.seq \in Nat /\ z.nth \in Nat
        BY <1>27, <3>1, <3>2
      <3>5. InOrder(c, z)
        <4>1. c.win = z.win /\ c.ts = z.ts => c.board <= z.board
          BY <1>11, <3>3, <3>4 DEF Precedes
        <4>2. ASSUME c.board = z.board, ~(c.nth < z.nth) PROVE c.win # z.win /\ c.ts = z.ts
          <5>1. z.nth < c.nth
            BY <1>11, <3>3, <3>4, <4>2
          <5>2. z.ts <= c.ts
            BY <3>3, <4>2, <5>1 DEF Aged
          <5>3. c.ts = z.ts /\ c.seq <= z.seq
            BY <1>11, <3>3, <3>4, <4>2, <5>2 DEF Precedes
          <5>4. c.win = z.win => c.nth - c.seq = z.nth - z.seq
            BY <3>3, <4>2 DEF SameStaging
          <5> QED
            BY <1>11, <3>4, <5>1, <5>3, <5>4
        <4> QED
          BY <4>1, <4>2 DEF InOrder
      <3> QED
        BY <3>1, <3>2, <3>5
    <2>3. ASSUME NEW i \in 1..Len(log), NEW j \in 1..Len(log), i < j PROVE InOrder(log[i].c, log[j].c)
      <3>1. CASE j \in 1..Len(w.replayed)
        <4>1. i \in 1..Len(w.replayed) /\ log[i] = w.replayed[i] /\ log[j] = w.replayed[j]
          BY <1>13, <1>24, <2>3, <3>1
        <4>2. InOrder(w.replayed[i].c, w.replayed[j].c)
          BY <1>2, <2>3, <3>1, <4>1 DEF WinInv, WinSorted
        <4> QED
          BY <4>1, <4>2
      <3>2. CASE j = Len(w.replayed) + 1
        <4>1. i \in 1..Len(w.replayed)
          BY <1>24, <2>3, <3>2
        <4>2. log[i] = w.replayed[i] /\ log[j].c = w.pending[1]
          BY <1>10, <1>12, <1>13, <3>2, <4>1
        <4>3. InOrder(w.replayed[i].c, w.pending[1])
          BY <1>2, <1>10, <4>1 DEF WinInv, WinSorted
        <4> QED
          BY <4>2, <4>3
      <3> QED
        BY <1>24, <3>1, <3>2
    <2>4. ASSUME NEW i \in 1..Len(log), NEW j \in 1..Len(rest) PROVE InOrder(log[i].c, rest[j])
      <3>1. CASE i \in 1..Len(w.replayed) /\ log[i] = w.replayed[i]
        BY <1>2, <1>9, <3>1 DEF WinInv, WinSorted
      <3>2. CASE log[i] = r
        BY <1>12, <2>2, <3>2
      <3> QED
        BY <1>25, <3>1, <3>2
    <2>5. \A i \in 1..Len(rest) : rest[i].win <= w.end
      BY <1>2, <1>9 DEF WinInv, WinSorted
    <2>6. \A i \in 1..Len(log) : log[i].c.win <= w.end
      BY <1>2, <1>10, <1>12, <1>25 DEF WinInv, WinSorted
    <2> QED
      BY <1>20, <1>21, <2>1, <2>3, <2>4, <2>5, <2>6 DEF WinSorted
  <1>31. WinOutbox(v)
    BY <1>2, <1>21 DEF WinInv, WinOutbox
  <1>32. WinDistinct(v)
    <2>1. ASSUME NEW i \in 1..Len(rest), NEW j \in 1..Len(rest), rest[i].nth = rest[j].nth PROVE i = j
      <3>1. i + 1 \in 1..Len(w.pending) /\ rest[i] = w.pending[i + 1]
            /\ j + 1 \in 1..Len(w.pending) /\ rest[j] = w.pending[j + 1]
        BY <1>9
      <3>2. i + 1 = j + 1
        BY <1>2, <2>1, <3>1 DEF WinInv, WinDistinct
      <3> QED
        BY <3>2
    <2>2. ASSUME NEW i \in 1..Len(rest) PROVE rest[i].nth # c.nth
      <3>1. i + 1 \in 1..Len(w.pending) /\ rest[i] = w.pending[i + 1] /\ i + 1 # 1
        BY <1>9, <1>10
      <3> QED
        BY <1>2, <1>10, <3>1 DEF WinInv, WinDistinct
    <2>3. ASSUME NEW i \in 1..Len(w.replayed) PROVE w.replayed[i].c.nth # c.nth
      BY <1>2, <1>10 DEF WinInv, WinDistinct
    <2>4. ASSUME NEW i \in 1..Len(log), NEW j \in 1..Len(log), log[i].c.nth = log[j].c.nth PROVE i = j
      <3>1. CASE i \in 1..Len(w.replayed) /\ j \in 1..Len(w.replayed)
        BY <1>2, <1>13, <2>4, <3>1 DEF WinInv, WinDistinct
      <3>2. CASE i = Len(w.replayed) + 1 /\ j = Len(w.replayed) + 1
        BY <3>2
      <3>3. ~(i \in 1..Len(w.replayed) /\ j = Len(w.replayed) + 1)
        BY <1>12, <1>13, <2>3, <2>4
      <3>4. ~(j \in 1..Len(w.replayed) /\ i = Len(w.replayed) + 1)
        BY <1>12, <1>13, <2>3, <2>4
      <3> QED
        BY <1>24, <3>1, <3>2, <3>3, <3>4
    <2>5. ASSUME NEW i \in 1..Len(rest), NEW j \in 1..Len(log) PROVE rest[i].nth # log[j].c.nth
      <3>1. CASE j \in 1..Len(w.replayed) /\ log[j] = w.replayed[j]
        BY <1>2, <1>9, <3>1 DEF WinInv, WinDistinct
      <3>2. CASE log[j] = r
        BY <1>12, <2>2, <3>2
      <3> QED
        BY <1>25, <3>1, <3>2
    <2>6. \A b \in WindowBoards : v.outbox[b] = <<>> /\ Len(v.outbox[b]) = 0
      BY <1>2, <1>21 DEF WinInv, WinOutbox
    <2>7. v.handed = {}
      BY <1>2, <1>21 DEF WinInv, WinDistinct
    <2> QED
      BY <1>20, <1>21, <2>1, <2>4, <2>5, <2>6, <2>7 DEF WinDistinct
  <1>33. WinComplete(v)
    <2>1. Replayed(v) = Replayed(w) \cup {c.nth}
      <3>1. ASSUME NEW n \in Replayed(v) PROVE n \in Replayed(w) \cup {c.nth}
        <4>1. PICK i \in 1..Len(log) : n = log[i].c.nth
          BY <1>20 DEF Replayed
        <4> QED
          BY <1>12, <1>25, <4>1 DEF Replayed
      <3>2. ASSUME NEW i \in 1..Len(w.replayed) PROVE w.replayed[i].c.nth \in Replayed(v)
        <4>1. i \in 1..Len(log) /\ log[i] = w.replayed[i]
          BY <1>13, <1>24
        <4> QED
          BY <1>20, <4>1 DEF Replayed
      <3>3. c.nth \in Replayed(v)
        <4>1. Len(w.replayed) + 1 \in 1..Len(log) /\ log[Len(w.replayed) + 1].c.nth = c.nth
          BY <1>12, <1>13, <1>24
        <4> QED
          BY <1>20, <4>1 DEF Replayed
      <3> QED
        BY <3>1, <3>2, <3>3 DEF Replayed
    <2>2. Numbers(w.pending) = Numbers(rest) \cup {c.nth}
      <3>1. ASSUME NEW i \in 1..Len(w.pending) PROVE w.pending[i].nth \in Numbers(rest) \cup {c.nth}
        <4>1. CASE i = 1
          BY <1>10, <4>1
        <4>2. CASE i # 1
          <5>1. i - 1 \in 1..Len(rest) /\ (i - 1) + 1 = i
            BY <1>9, <1>10, <4>2
          <5>2. rest[i - 1] = w.pending[i]
            BY <1>9, <5>1
          <5> QED
            BY <5>1, <5>2 DEF Numbers
        <4> QED
          BY <4>1, <4>2
      <3>2. ASSUME NEW i \in 1..Len(rest) PROVE rest[i].nth \in Numbers(w.pending)
        BY <1>9 DEF Numbers
      <3>3. c.nth \in Numbers(w.pending)
        BY <1>10 DEF Numbers
      <3> QED
        BY <3>1, <3>2, <3>3 DEF Numbers
    <2>3. Staged(v) = Staged(w) /\ Handed(v) = Handed(w)
      BY <1>21 DEF Staged, Handed
    <2> QED
      BY <1>2, <1>20, <1>21, <2>1, <2>2, <2>3 DEF WinInv, WinComplete
  <1>34. WinSkew(v) /\ WinReasoned(v) /\ WinReported(v)
    BY <1>2, <1>21 DEF WinInv, WinSkew, WinReasoned, WinReported, Near, Rested, SameLanes
  <1>35. WinAges(v)
    <2>1. ASSUME NEW i \in 1..Len(rest)
          PROVE  rest[i].ts <= w.local[rest[i].board] /\ \A j \in 1..Len(rest) : Aged(rest[i], rest[j])
      BY <1>2, <1>9 DEF WinInv, WinAges
    <2>2. v.local = w.local /\ v.pending = rest
      BY <1>20, <1>21 DEF SameLanes
    <2>3. \A b \in WindowBoards : v.outbox[b] = <<>> /\ 1..Len(v.outbox[b]) = {}
      BY <1>2, <1>21 DEF WinInv, WinOutbox
    <2> QED
      BY <2>1, <2>2, <2>3 DEF WinAges
  <1>36. WinInv(v)
    BY <1>18, <1>28, <1>29, <1>30, <1>31, <1>32, <1>33, <1>34, <1>35 DEF WinInv
  <1> QED
    BY <1>1, <1>36

LEMMA EndWindowKeeps ==
    ASSUME WinInv(win), EndWindow
    PROVE  WinInv(win)'
  <1>1. PICK w, v : w = win /\ v = win'
    OBVIOUS
  <1>2. w \in WinState /\ w.phase = "replay" /\ ~Due(w) /\ WinInv(w)
    BY <1>1 DEF WinInv, EndWindow
  <1>3. w.now \in Nat /\ w.end \in Nat /\ w.seen \in Int /\ w.at \in Int /\ ForwardOnly(w)
        /\ w.now < w.end /\ w.seen <= BusReach(w) /\ BusReach(w) <= w.end /\ BusReach(w) \in Int
    <2>1. w.now \in Nat /\ w.end \in Nat /\ w.seen \in Int /\ w.at \in Int
      BY <1>2 DEF WinState
    <2>2. ForwardOnly(w) /\ w.seen <= BusReach(w)
      BY <1>2 DEF WinInv, WinBus, ForwardOnly
    <2>3. w.now < w.end /\ (w.at = -1 \/ (w.now <= w.at /\ w.at <= w.end))
      BY <1>2 DEF WinInv, WinClock
    <2>4. BusReach(w) <= w.end /\ BusReach(w) \in Int
      BY <2>1, <2>3 DEF BusReach
    <2> QED
      BY <2>1, <2>2, <2>3, <2>4
  <1>4. PICK d : d = DrainShared(w, w.end) /\ Drained(w, d, IF w.end > w.seen THEN w.end ELSE w.seen)
    BY <1>2, <1>3, DrainKeeps
  <1>5. PICK u : u = [d EXCEPT !.now = w.end]
    OBVIOUS
  <1>6. PICK phase \in WinPhases :
           /\ v = [u EXCEPT !.phase = phase]
           /\ \/ phase = "stopping" /\ (DebugStopped(u) \/ u.failed)
              \/ phase = "between"
              \/ phase = "yielding"
    <2>1. u = [DrainShared(w, w.end) EXCEPT !.now = w.end]
      BY <1>4, <1>5
    <2>2. IF DebugStopped(u) \/ (u.failed /\ u.stopOnFailure)
          THEN v = [u EXCEPT !.phase = "stopping"]
          ELSE \/ v = [u EXCEPT !.phase = "between"]
               \/ u.control /\ v = [u EXCEPT !.phase = "yielding"]
      BY <1>1, <2>1, Zenon DEF EndWindow
    <2>3. {"stopping", "between", "yielding"} \subseteq WinPhases
      BY DEF WinPhases
    <2> QED
      BY <2>2, <2>3
  <1>7. d \in WinState /\ ForwardOnly(d) /\ d.seen = w.end
    BY <1>3, <1>4 DEF Drained
  <1>8. u \in WinState /\ u.now = w.end /\ ForwardOnly(u) /\ u.seen = w.end /\ SameRun(d, u)
        /\ SameCommands(d, u) /\ SameLanes(d, u) /\ u.failed = d.failed /\ u.result = d.result
    BY <1>3, <1>5, <1>7 DEF WinState, ForwardOnly, SameRun, SameCommands, SameLanes
  <1>9. v \in WinState /\ v.phase = phase /\ v.now = w.end /\ ForwardOnly(v) /\ v.seen = w.end
        /\ SameRun(u, v) /\ SameCommands(u, v) /\ SameLanes(u, v) /\ v.failed = u.failed
        /\ v.result = u.result
    <2>1. v = [u EXCEPT !.phase = phase]
      BY <1>6
    <2> QED
      BY <1>8, <2>1 DEF WinState, ForwardOnly, SameRun, SameCommands, SameLanes
  <1>10. SameRun(w, v) /\ SameCommands(w, v) /\ SameLanes(w, v) /\ v.failed = w.failed
    BY <1>4, <1>8, <1>9 DEF Drained, SameRun, SameCommands, SameLanes
  <1>11. phase \in {"stopping", "between", "yielding"}
    BY <1>6
  <1>12. WinClock(v)
    BY <1>9, <1>11 DEF WinClock
  <1>13. WinBus(v)
    <2>1. BusReach(v) = w.end
      BY <1>9, <1>11 DEF BusReach
    <2>2. \A i \in 1..Len(w.replayed) : w.replayed[i].t <= w.end
      <3>1. \A i \in 1..Len(w.replayed) : w.replayed[i] \in WinReplay
        BY <1>2, ElementOfSeq DEF WinState
      <3>2. \A i \in 1..Len(w.replayed) : w.replayed[i].t \in Int
        BY <3>1 DEF WinReplay
      <3>3. \A i \in 1..Len(w.replayed) : w.replayed[i].t <= BusReach(w)
        BY <1>2 DEF WinInv, WinBus
      <3> QED
        BY <1>3, <3>2, <3>3
    <2>3. /\ \A i \in 1..Len(w.replayed) :
                w.replayed[i].t = IF w.replayed[i].c.ts > w.replayed[i].from
                                  THEN w.replayed[i].c.ts ELSE w.replayed[i].from
          /\ \A i, j \in 1..Len(w.replayed) : i < j => w.replayed[i].t <= w.replayed[j].t
      BY <1>2 DEF WinInv, WinBus
    <2>4. v.seen <= w.end /\ v.replayed = w.replayed /\ v.phase # "replay"
      BY <1>3, <1>9, <1>10, <1>11 DEF SameCommands
    <2> QED
      BY <1>9, <2>1, <2>2, <2>3, <2>4 DEF WinBus, ForwardOnly
  <1>14. WinSorted(v) /\ WinOutbox(v) /\ WinDistinct(v)
    <2>1. v.pending = w.pending /\ v.replayed = w.replayed /\ v.handed = w.handed /\ v.outbox = w.outbox
      BY <1>10 DEF SameCommands
    <2>2. WinSorted(v)
      BY <1>2, <1>9, <1>11, <2>1 DEF WinInv, WinSorted
    <2>3. \A b \in WindowBoards : v.outbox[b] = <<>> /\ Len(v.outbox[b]) = 0
      BY <1>2, <2>1 DEF WinInv, WinOutbox
    <2>4. WinOutbox(v)
      BY <2>3 DEF WinOutbox
    <2>5. v.handed = {} /\ v.phase # "stopped"
      BY <1>2, <1>9, <1>11, <2>1 DEF WinInv, WinDistinct
    <2>6. WinDistinct(v)
      BY <1>2, <2>1, <2>3, <2>5 DEF WinInv, WinDistinct
    <2> QED
      BY <2>2, <2>4, <2>6
  <1>15. WinComplete(v)
    BY <1>2, <1>10 DEF WinInv, WinComplete, Replayed, Staged, Handed, SameCommands
  <1>16. WinSkew(v)
    BY <1>2, <1>9, <1>10, <1>11 DEF WinInv, WinSkew, Near, SameLanes
  <1>17. WinReasoned(v) /\ WinReported(v)
    <2>1. DebugStopped(u) => DebugStopped(v)
      BY <1>9 DEF DebugStopped, SameRun, SameLanes
    <2>2. phase = "stopping" => v.failed \/ DebugStopped(v)
      BY <1>6, <1>9, <2>1
    <2>3. \A b \in WindowBoards : Rested(v, b)
      BY <1>2, <1>10 DEF WinInv, WinReasoned, Rested, SameLanes
    <2>4. v.failed <=> \E b \in WindowBoards : v.reason[b] = "fault"
      BY <1>2, <1>10 DEF WinInv, WinReasoned, SameLanes
    <2> QED
      BY <1>9, <1>11, <2>2, <2>3, <2>4 DEF WinReasoned, WinReported
  <1>18. WinAges(v)
    BY <1>2, <1>10 DEF WinInv, WinAges, SameCommands, SameLanes
  <1>19. WinInv(v)
    BY <1>9, <1>12, <1>13, <1>14, <1>15, <1>16, <1>17, <1>18 DEF WinInv
  <1> QED
    BY <1>1, <1>19

LEMMA StopWorldKeeps ==
    ASSUME WinInv(win), StopWorld
    PROVE  WinInv(win)'
  <1>1. PICK w, v : w = win /\ v = win'
    OBVIOUS
  <1>2. /\ w \in WinState /\ WinInv(w)
        /\ w.phase \in {"stopping", "yielding"} \/ (w.phase = "between" /\ Finished(w))
    BY <1>1 DEF WinInv, StopWorld
  <1>3. w.pending \in Seq(WinCommand) /\ w.now \in Nat /\ w.runnable \subseteq WindowBoards
        /\ w.reason \in [WindowBoards -> WinReasons]
    BY <1>2 DEF WinState
  <1>4. PICK result \in WinResults : result = StopReason(w)
    BY DEF StopReason, WinResults
  <1>5. \A i \in 1..Len(w.pending) : w.pending[i] \in WinCommand
    BY <1>3, ElementOfSeq
  <1>6. Range(w.pending) = {w.pending[i] : i \in 1..Len(w.pending)}
    <2>1. DOMAIN w.pending = 1..Len(w.pending)
      BY <1>3, LenProperties
    <2> QED
      BY <2>1 DEF Range
  <1>7. PICK handed : handed = {[at |-> IF c.ts > w.now THEN c.ts ELSE w.now, nth |-> c.nth] :
                                c \in Range(w.pending)}
    OBVIOUS
  <1>8. ASSUME NEW h \in handed
        PROVE  h \in [at : Int, nth : Nat] /\ h.at >= w.now /\ \E i \in 1..Len(w.pending) : h.nth = w.pending[i].nth
    <2>1. PICK i \in 1..Len(w.pending) :
             h = [at |-> IF w.pending[i].ts > w.now THEN w.pending[i].ts ELSE w.now, nth |-> w.pending[i].nth]
      BY <1>6, <1>7
    <2>2. w.pending[i].ts \in Nat /\ w.pending[i].nth \in Nat
      BY <1>5 DEF WinCommand
    <2>3. h.at = IF w.pending[i].ts > w.now THEN w.pending[i].ts ELSE w.now
      BY <2>1
    <2>4. h.at \in Int /\ h.at >= w.now
      BY <1>3, <2>2, <2>3
    <2> QED
      BY <2>1, <2>2, <2>4
  <1>9. ASSUME NEW i \in 1..Len(w.pending) PROVE \E h \in handed : h.nth = w.pending[i].nth
    <2>1. w.pending[i] \in Range(w.pending)
      BY <1>6
    <2> DEFINE h == [at |-> IF w.pending[i].ts > w.now THEN w.pending[i].ts ELSE w.now, nth |-> w.pending[i].nth]
    <2>2. h \in handed
      BY <1>7, <2>1
    <2>3. h.nth = w.pending[i].nth
      OBVIOUS
    <2> QED
      BY <2>2, <2>3
  <1>10. handed \in SUBSET [at : Int, nth : Nat]
    BY <1>8
  <1>11. PICK reason \in [WindowBoards -> WinReasons] :
            reason = [b \in WindowBoards |->
                        IF b \notin w.runnable THEN w.reason[b]
                        ELSE IF w.failed /\ w.stopOnFailure THEN "synchronization_required"
                        ELSE "time_budget"]
    BY <1>3 DEF WinReasons, SliceEnds
  <1>12. v = [w EXCEPT !.phase = "stopped", !.result = result, !.pending = <<>>, !.handed = handed,
                       !.reason = reason]
    <2>1. v = [w EXCEPT
          !.phase = "stopped", !.result = StopReason(w), !.pending = <<>>,
          !.handed = {[at |-> IF c.ts > w.now THEN c.ts ELSE w.now, nth |-> c.nth] :
                      c \in Range(w.pending)},
          !.reason = [b \in WindowBoards |->
              IF b \notin w.runnable THEN w.reason[b]
              ELSE IF w.failed /\ w.stopOnFailure THEN "synchronization_required"
              ELSE "time_budget"]]
      BY <1>1, <1>2, Zenon DEF StopWorld
    <2> QED
      BY <1>4, <1>7, <1>11, <2>1, Zenon
  <1>13. v \in WinState
    <2>1. PICK none \in Seq(WinCommand) : none = <<>>
      BY EmptySeq
    <2>2. PICK phase \in WinPhases : phase = "stopped"
      BY DEF WinPhases
    <2>3. v = [w EXCEPT !.phase = phase, !.result = result, !.pending = none, !.handed = handed,
                        !.reason = reason]
      BY <1>12, <2>1, <2>2
    <2> QED
      BY <1>2, <1>10, <2>3, ZenonT(60) DEF WinState
  <1>14. v.phase = "stopped" /\ v.result = result /\ v.pending = <<>> /\ v.handed = handed /\ v.reason = reason
    BY <1>2, <1>12 DEF WinState
  <1>15. SameRun(w, v) /\ SameBus(w, v) /\ v.now = w.now /\ v.end = w.end /\ v.runnable = w.runnable
         /\ v.replayed = w.replayed /\ v.outbox = w.outbox /\ v.issued = w.issued
    BY <1>2, <1>12 DEF WinState, SameRun, SameBus
  <1>16. \A b \in WindowBoards : v.outbox[b] = <<>> /\ Len(v.outbox[b]) = 0 /\ Numbers(v.outbox[b]) = {}
    <2>1. \A b \in WindowBoards : v.outbox[b] = <<>>
      BY <1>2, <1>15 DEF WinInv, WinOutbox
    <2> QED
      BY <2>1 DEF Numbers
  <1>17. Len(v.pending) = 0 /\ Numbers(v.pending) = {}
    BY <1>14 DEF Numbers
  <1>18. WinClock(v) /\ WinOutbox(v)
    BY <1>14, <1>16 DEF WinClock, WinOutbox
  <1>19. WinBus(v)
    <2>1. BusReach(v) = BusReach(w)
      BY <1>2, <1>14, <1>15 DEF BusReach
    <2> QED
      BY <1>2, <1>14, <1>15, <2>1 DEF WinInv, WinBus, SameBus
  <1>20. WinSorted(v)
    BY <1>2, <1>14, <1>15, <1>17 DEF WinInv, WinSorted
  <1>21. WinDistinct(v)
    <2>1. ASSUME NEW h \in handed, NEW j \in 1..Len(w.replayed) PROVE h.nth # w.replayed[j].c.nth
      <3>1. PICK i \in 1..Len(w.pending) : h.nth = w.pending[i].nth
        BY <1>8
      <3>2. w.pending[i].nth # w.replayed[j].c.nth
        BY <1>2 DEF WinInv, WinDistinct
      <3> QED
        BY <3>1, <3>2
    <2>2. \A i, j \in 1..Len(w.replayed) : w.replayed[i].c.nth = w.replayed[j].c.nth => i = j
      BY <1>2 DEF WinInv, WinDistinct
    <2> QED
      BY <1>8, <1>14, <1>15, <1>16, <1>17, <2>1, <2>2 DEF WinDistinct
  <1>22. WinComplete(v)
    <2>1. Handed(w) = {}
      BY <1>2 DEF Handed, WinInv, WinDistinct
    <2>2. Handed(v) = Numbers(w.pending)
      <3>1. ASSUME NEW n \in Handed(v) PROVE n \in Numbers(w.pending)
        BY <1>8, <1>14 DEF Handed, Numbers
      <3>2. ASSUME NEW n \in Numbers(w.pending) PROVE n \in Handed(v)
        BY <1>9, <1>14 DEF Handed, Numbers
      <3> QED
        BY <3>1, <3>2
    <2>3. Replayed(v) = Replayed(w) /\ Staged(v) = Staged(w)
      BY <1>15 DEF Replayed, Staged
    <2> QED
      BY <1>2, <1>15, <1>17, <2>1, <2>2, <2>3 DEF WinInv, WinComplete
  <1>23. WinSkew(v) /\ WinReasoned(v)
    BY <1>14 DEF WinSkew, WinReasoned
  <1>24. WinReported(v)
    <2>1. \A b \in WindowBoards : Rested(w, b)
      BY <1>2 DEF WinInv, WinReasoned
    <2>2. w.failed <=> \E b \in WindowBoards : w.reason[b] = "fault"
      BY <1>2 DEF WinInv, WinReasoned
    <2>3. \A b \in WindowBoards : reason[b] = "fault" <=> w.reason[b] = "fault"
      BY <1>11, <2>1 DEF Rested
    <2>4. result = "board_failure" <=> w.failed
      BY <1>4 DEF StopReason
    <2>5. ASSUME result = "all_boards_stopped"
          PROVE  \/ \A b \in WindowBoards : reason[b] = "halted"
                 \/ w.debug = "run" /\ reason[0] = "halted"
      <3>1. /\ ~w.failed /\ w.phase # "yielding" /\ ~(w.deadline # 0 /\ w.now >= w.deadline)
            /\ \A b \in WindowBoards : w.reason[b] # "instruction_budget"
        BY <1>4, <2>5 DEF StopReason
      <3>2. \A b \in WindowBoards : w.reason[b] # "fault"
        BY <2>2, <3>1
      <3>3. \A b \in WindowBoards : b \notin w.runnable => reason[b] = "halted"
        BY <1>11, <2>1, <3>1, <3>2 DEF Rested
      <3>4. CASE w.phase = "between" /\ Finished(w)
        <4>1. w.runnable = {}
          BY <3>1, <3>4 DEF Finished
        <4> QED
          BY <3>3, <4>1
      <3>5. CASE w.phase = "stopping" /\ 0 \in WindowBoards
        <4>1. DebugStopped(w)
          BY <1>2, <3>1, <3>5 DEF WinInv, WinReasoned
        <4>2. 0 \notin w.runnable
          BY <2>1, <3>1, <3>5, <4>1 DEF DebugStopped, Rested
        <4> QED
          BY <3>3, <3>5, <4>1, <4>2 DEF DebugStopped
      <3>6. CASE 0 \notin WindowBoards
        <4>1. WindowBoards = {}
          BY <3>6, BoardsTyped
        <4> QED
          BY <4>1
      <3> QED
        BY <1>2, <3>1, <3>4, <3>5, <3>6
    <2> QED
      BY <1>14, <1>15, <2>2, <2>3, <2>4, <2>5 DEF WinReported, SameRun
  <1>25. WinAges(v)
    <2>1. \A b \in WindowBoards : v.outbox[b] = <<>> /\ 1..Len(v.outbox[b]) = {}
      BY <1>2, <1>15 DEF WinInv, WinOutbox
    <2>2. 1..Len(v.pending) = {}
      BY <1>14
    <2> QED
      BY <2>1, <2>2 DEF WinAges
  <1>26. WinInv(v)
    BY <1>13, <1>18, <1>19, <1>20, <1>21, <1>22, <1>23, <1>24, <1>25 DEF WinInv
  <1> QED
    BY <1>1, <1>26

LEMMA WindowsStart ==
    ASSUME WindowsInit
    PROVE  WinInv(win)
  <1>1. PICK w : w = win
    OBVIOUS
  <1>2. PICK o \in WindowOptions : /\ o.debug \in Debug
           /\ w = [parallel |-> o.parallel, stopOnFailure |-> o.stopOnFailure,
              deadline |-> IF o.limited THEN WindowDeadline ELSE 0,
              control |-> o.control, debug |-> o.debug,
              phase |-> "between", now |-> 0, end |-> 0, waiting |-> {},
              local |-> [b \in WindowBoards |-> 0],
              runnable |-> {b \in WindowBoards : ~(o.debug = "held" /\ b = 0)},
              reason |-> [b \in WindowBoards |->
                  IF o.debug = "held" /\ b = 0 THEN "halted" ELSE "instruction_budget"],
              dispatched |-> {}, outbox |-> [b \in WindowBoards |-> <<>>],
              pending |-> <<>>, at |-> 0, shared |-> {}, handed |-> {},
              failed |-> FALSE, result |-> "none", issued |-> 0,
              replayed |-> <<>>, seen |-> 0, backwards |-> FALSE]
    BY <1>1 DEF WindowsInit
  <1>3. o.parallel \in BOOLEAN /\ o.stopOnFailure \in BOOLEAN /\ o.limited \in BOOLEAN /\ o.control \in BOOLEAN
    BY WindowsAssumption
  <1>4. PICK deadline \in Nat : deadline = IF o.limited THEN WindowDeadline ELSE 0
    BY WindowsAssumption
  <1>5. PICK local \in [WindowBoards -> Nat] : local = [b \in WindowBoards |-> 0]
    OBVIOUS
  <1>6. PICK runnable \in SUBSET WindowBoards : runnable = {b \in WindowBoards : ~(o.debug = "held" /\ b = 0)}
    OBVIOUS
  <1>7. PICK reason \in [WindowBoards -> WinReasons] :
           reason = [b \in WindowBoards |->
                       IF o.debug = "held" /\ b = 0 THEN "halted" ELSE "instruction_budget"]
    BY DEF WinReasons, SliceEnds
  <1>8. PICK boxes \in [WindowBoards -> Seq(WinCommand)] : boxes = [b \in WindowBoards |-> <<>>]
    <2>1. <<>> \in Seq(WinCommand)
      BY EmptySeq
    <2>2. [b \in WindowBoards |-> <<>>] \in [WindowBoards -> Seq(WinCommand)]
      BY <2>1, Zenon
    <2> QED
      BY <2>2, Zenon
  <1>9. <<>> \in Seq(WinCommand) /\ <<>> \in Seq(WinReplay) /\ Len(<<>>) = 0
    BY EmptySeq
  <1>10. w = [parallel |-> o.parallel, stopOnFailure |-> o.stopOnFailure, deadline |-> deadline,
              control |-> o.control, debug |-> o.debug,
              phase |-> "between", now |-> 0, end |-> 0, waiting |-> {},
              local |-> local, runnable |-> runnable, reason |-> reason,
              dispatched |-> {}, outbox |-> boxes,
              pending |-> <<>>, at |-> 0, shared |-> {}, handed |-> {},
              failed |-> FALSE, result |-> "none", issued |-> 0,
              replayed |-> <<>>, seen |-> 0, backwards |-> FALSE]
    BY <1>2, <1>4, <1>5, <1>6, <1>7, <1>8, Zenon
  <1>11. w \in WinState
    <2>1. "between" \in WinPhases /\ "none" \in WinResults
      BY DEF WinPhases, WinResults
    <2> QED
      BY <1>2, <1>3, <1>9, <1>10, <2>1 DEF WinState
  <1>12. /\ w.phase = "between" /\ w.now = 0 /\ w.local = local /\ w.runnable = runnable /\ w.reason = reason
         /\ w.dispatched = {} /\ w.outbox = boxes /\ w.pending = <<>> /\ w.shared = {} /\ w.handed = {}
         /\ ~w.failed /\ w.issued = 0 /\ w.replayed = <<>> /\ w.seen = 0 /\ ~w.backwards /\ w.at = 0
    BY <1>10
  <1>13. \A b \in WindowBoards : w.outbox[b] = <<>> /\ Len(w.outbox[b]) = 0 /\ Numbers(w.outbox[b]) = {}
    BY <1>8, <1>12 DEF Numbers
  <1>14. Len(w.pending) = 0 /\ Len(w.replayed) = 0 /\ Numbers(w.pending) = {} /\ Replayed(w) = {}
         /\ Handed(w) = {} /\ Staged(w) = {}
    <2>1. Len(w.pending) = 0 /\ Len(w.replayed) = 0
      BY <1>9, <1>12
    <2>2. \A n : n \notin Staged(w)
      BY <1>13, ZenonT(60) DEF Staged
    <2>3. Staged(w) = {}
      BY <2>2, Zenon
    <2> QED
      BY <1>12, <2>1, <2>3 DEF Numbers, Replayed, Handed
  <1>15. WinClock(w) /\ WinBus(w) /\ WinSorted(w) /\ WinAges(w) /\ WinOutbox(w)
    BY <1>12, <1>13, <1>14 DEF WinClock, WinBus, BusReach, WinSorted, WinAges, WinOutbox
  <1>16. WinDistinct(w) /\ WinComplete(w)
    BY <1>12, <1>13, <1>14 DEF WinDistinct, WinComplete
  <1>17. WinSkew(w)
    <2>1. \A b \in WindowBoards : w.local[b] = 0
      BY <1>5, <1>12
    <2> QED
      BY <1>12, <2>1, WindowsAssumption DEF WinSkew, Near
  <1>18. WinReasoned(w) /\ WinReported(w)
    <2>1. \A b \in WindowBoards : Rested(w, b) /\ w.reason[b] # "fault"
      BY <1>6, <1>7, <1>12 DEF Rested
    <2> QED
      BY <1>12, <2>1 DEF WinReasoned, WinReported
  <1>19. WinInv(w)
    BY <1>11, <1>15, <1>16, <1>17, <1>18 DEF WinInv
  <1> QED
    BY <1>1, <1>19

(* A sequence whose entries carry distinct numbers has as many numbers as  *)
(* entries.                                                                *)
OneEach(f, n) == \A i, j \in 1..n : f[i] = f[j] => i = j
ValuesTo(f, n) == {f[i] : i \in 1..n}

LEMMA DistinctCount ==
    ASSUME NEW f, NEW n \in Nat, OneEach(f, n)
    PROVE  IsFiniteSet(ValuesTo(f, n)) /\ Cardinality(ValuesTo(f, n)) = n
  <1> DEFINE D == 1..n
             R == {f[i] : i \in D}
             g == [i \in D |-> f[i]]
  <1>1. IsFiniteSet(D) /\ Cardinality(D) = n
    <2>1. 1 \in Int /\ n \in Int
      OBVIOUS
    <2>2. IsFiniteSet(1..n) /\ Cardinality(1..n) = IF 1 > n THEN 0 ELSE n - 1 + 1
      BY <2>1, FS_Interval
    <2> QED
      BY <2>2
  <1>2. g \in [D -> R] /\ (\A i, j \in D : g[i] = g[j] => i = j) /\ \A x \in R : \E i \in D : g[i] = x
    BY DEF OneEach
  <1> HIDE DEF g, R, D
  <1>3. g \in Bijection(D, R)
    BY <1>2 DEF Bijection, Injection, Surjection, IsInjective
  <1>4. ExistsBijection(D, R)
    BY <1>3 DEF ExistsBijection
  <1>5. IsFiniteSet(R) /\ Cardinality(R) = Cardinality(D)
    BY <1>1, <1>4, FS_Bijection
  <1> QED
    BY <1>1, <1>5 DEF R, D, ValuesTo

LEMMA CommandsCounted ==
    ASSUME NEW w, WinInv(w)
    PROVE  Len(w.replayed) + Len(w.pending) + Cardinality(Staged(w) \cup Handed(w)) = w.issued
  <1>1. w \in WinState /\ w.issued \in Nat /\ w.replayed \in Seq(WinReplay) /\ w.pending \in Seq(WinCommand)
    BY DEF WinInv, WinState
  <1>2. Len(w.replayed) \in Nat /\ Len(w.pending) \in Nat
    BY <1>1, LenProperties
  <1>3. PICK a, b, c : a = Replayed(w) /\ b = Numbers(w.pending) /\ c = Staged(w) \cup Handed(w)
    OBVIOUS
  <1>4. IsFiniteSet(a) /\ Cardinality(a) = Len(w.replayed)
    <2> DEFINE f == [i \in 1..Len(w.replayed) |-> w.replayed[i].c.nth]
    <2>1. OneEach(f, Len(w.replayed))
      BY DEF WinInv, WinDistinct, OneEach
    <2>2. a = ValuesTo(f, Len(w.replayed))
      BY <1>3 DEF Replayed, ValuesTo
    <2> HIDE DEF f
    <2> QED
      BY <1>2, <2>1, <2>2, DistinctCount
  <1>5. IsFiniteSet(b) /\ Cardinality(b) = Len(w.pending)
    <2> DEFINE f == [i \in 1..Len(w.pending) |-> w.pending[i].nth]
    <2>1. OneEach(f, Len(w.pending))
      BY DEF WinInv, WinDistinct, OneEach
    <2>2. b = ValuesTo(f, Len(w.pending))
      BY <1>3 DEF Numbers, ValuesTo
    <2> HIDE DEF f
    <2> QED
      BY <1>2, <2>1, <2>2, DistinctCount
  <1>6. a \cap b = {}
    BY <1>3 DEF Replayed, Numbers, WinInv, WinDistinct
  <1>7. (a \cup b) \cap c = {}
    <2>1. ASSUME NEW i \in 1..Len(w.replayed) PROVE w.replayed[i].c.nth \notin c
      <3>1. \A d \in WindowBoards : w.replayed[i].c.nth \notin Numbers(w.outbox[d])
        BY DEF Numbers, WinInv, WinDistinct
      <3>2. w.replayed[i].c.nth \notin Staged(w)
        BY <3>1 DEF Staged
      <3>3. w.replayed[i].c.nth \notin Handed(w)
        BY DEF Handed, WinInv, WinDistinct
      <3> QED
        BY <1>3, <3>2, <3>3
    <2>2. ASSUME NEW i \in 1..Len(w.pending) PROVE w.pending[i].nth \notin c
      <3>1. \A d \in WindowBoards : w.pending[i].nth \notin Numbers(w.outbox[d])
        BY DEF Numbers, WinInv, WinDistinct
      <3>2. w.pending[i].nth \notin Staged(w)
        BY <3>1 DEF Staged
      <3>3. w.phase # "stopped"
        BY EmptySeq DEF WinInv, WinDistinct
      <3>4. Handed(w) = {}
        BY <3>3 DEF Handed, WinInv, WinDistinct
      <3> QED
        BY <1>3, <3>2, <3>4
    <2> QED
      BY <1>3, <2>1, <2>2 DEF Replayed, Numbers
  <1>8. a \cup b \cup c = 0..(w.issued - 1)
    <2>1. Replayed(w) \cup Numbers(w.pending) \cup Staged(w) \cup Handed(w) = 0..(w.issued - 1)
      BY DEF WinInv, WinComplete
    <2> QED
      BY <1>3, <2>1
  <1>9. IsFiniteSet(0..(w.issued - 1)) /\ Cardinality(0..(w.issued - 1)) = w.issued
    <2>1. 0 \in Int /\ w.issued - 1 \in Int
      BY <1>1
    <2>2. /\ IsFiniteSet(0..(w.issued - 1))
          /\ Cardinality(0..(w.issued - 1)) = IF 0 > w.issued - 1 THEN 0 ELSE (w.issued - 1) - 0 + 1
      BY <2>1, FS_Interval
    <2> QED
      BY <1>1, <2>2
  <1>10. IsFiniteSet(c) /\ Cardinality(c) \in Nat
    <2>1. c \subseteq 0..(w.issued - 1)
      BY <1>8
    <2> QED
      BY <1>9, <2>1, FS_Subset, FS_CardinalityType
  <1>11. IsFiniteSet(a \cup b) /\ Cardinality(a \cup b) = Cardinality(a) + Cardinality(b)
    <2>1. /\ IsFiniteSet(a \cup b)
          /\ Cardinality(a \cup b) = Cardinality(a) + Cardinality(b) - Cardinality(a \cap b)
      BY <1>4, <1>5, FS_Union
    <2>2. Cardinality(a \cap b) = 0
      BY <1>6, FS_EmptySet
    <2> QED
      BY <1>2, <1>4, <1>5, <2>1, <2>2
  <1>12. Cardinality((a \cup b) \cup c) = Cardinality(a \cup b) + Cardinality(c)
    <2>1. Cardinality((a \cup b) \cup c)
             = Cardinality(a \cup b) + Cardinality(c) - Cardinality((a \cup b) \cap c)
      BY <1>10, <1>11, FS_Union
    <2>2. Cardinality((a \cup b) \cap c) = 0
      BY <1>7, FS_EmptySet
    <2>3. Cardinality(a \cup b) \in Nat
      BY <1>11, FS_CardinalityType
    <2> QED
      BY <1>10, <2>1, <2>2, <2>3
  <1>13. Cardinality((a \cup b) \cup c) = w.issued
    BY <1>8, <1>9
  <1>14. Len(w.replayed) + Len(w.pending) + Cardinality(c) = w.issued
    BY <1>2, <1>4, <1>5, <1>10, <1>11, <1>12, <1>13
  <1> QED
    BY <1>3, <1>14

LEMMA WindowsAreExact ==
    ASSUME WinInv(win)
    PROVE  WindowsExact
  <1>1. CommandsKept
    <2>1. ReplayedNumbers = Replayed(win)
      BY DEF ReplayedNumbers, Replayed
    <2>2. Replayed(win) \cup Numbers(win.pending) \cup Staged(win) \cup Handed(win) = 0..(win.issued - 1)
      BY DEF WinInv, WinComplete
    <2>3. Len(win.replayed) + Len(win.pending) + Cardinality(Staged(win) \cup Handed(win)) = win.issued
      BY CommandsCounted
    <2> QED
      BY <2>1, <2>2, <2>3, Zenon DEF CommandsKept, Staged, Handed
  <1>2. BusInOrder
    BY DEF WinInv, WinBus, WinSorted, InOrder, BusInOrder
  <1>3. BoundedSkew
    BY DEF WinInv, WinSkew, Near, BoundedSkew
  <1>4. WindowsReported
    BY DEF WinInv, WinDistinct, WinReported, WindowsReported
  <1> QED
    BY <1>1, <1>2, <1>3, <1>4 DEF WindowsExact

WindowsPartInv == part = "windows" => WinInv(win)

(* Independent windows, for any number of boards, any window length and    *)
(* overshoot, in parallel or in turn, with failures, debugger stops and    *)
(* yields: every command a lane stages reaches the bus exactly once or is  *)
(* handed over when the run stops; the bus sees time move forward, and the *)
(* commands of a board in the order it staged them, within a window and    *)
(* across windows, except that a carried command and one of a later window *)
(* for the same time may change places; lanes stay within a window and an  *)
(* instruction of the shared clock, and the reported reason hides no       *)
(* failure.                                                                *)
THEOREM WindowsAlwaysExact == WorldSpec => []WindowsCorrect
  <1>1. WorldInit => WindowsPartInv
    BY WindowsStart DEF WorldInit, WindowsPartInv
  <1>2. WindowsPartInv /\ [WorldNext]_WorldVars => WindowsPartInv'
    <2>1. SUFFICES ASSUME WindowsPartInv, [WorldNext]_WorldVars, part' = "windows"
                   PROVE  WinInv(win)'
      BY DEF WindowsPartInv
    <2>2. CASE WorldNext /\ part = "windows"
      <3>1. WinInv(win) /\ WindowsNext
        BY <2>1, <2>2 DEF WorldNext, WindowsPartInv
      <3>2. ASSUME StartWindow PROVE WinInv(win)'
        <4>1. PICK w, v : w = win /\ v = win'
          OBVIOUS
        <4>2. WinInv(w) /\ w.phase = "between" /\ ~Finished(w)
              /\ v = [w EXCEPT !.phase = "lanes", !.end = WindowEnd(w), !.waiting = WindowBoards]
          BY <3>1, <3>2, <4>1 DEF StartWindow
        <4>3. WinInv(v)
          BY <4>2, StartWindowKeeps
        <4> QED
          BY <4>1, <4>3
      <3> QED
        BY <3>1, <3>2, ParkLanesKeeps, ReplayCommandKeeps, EndWindowKeeps, StopWorldKeeps,
           ParkedSliceKeeps, OwnerSliceKeeps DEF WindowsNext
    <2>3. CASE UNCHANGED WorldVars
      <3>1. win' = win /\ part' = part
        BY <2>3 DEF WorldVars
      <3> QED
        BY <2>1, <3>1 DEF WindowsPartInv
    <2>4. WorldNext => part' = part
      BY DEF WorldNext
    <2> QED
      BY <2>1, <2>2, <2>3, <2>4
  <1>3. WindowsPartInv => WindowsCorrect
    BY WindowsAreExact DEF WindowsPartInv, WindowsCorrect
  <1> QED
    BY <1>1, <1>2, <1>3, PTL DEF WorldSpec
=============================================================================
