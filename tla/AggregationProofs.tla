------------------------- MODULE AggregationProofs -------------------------
(***************************************************************************)
(* Lemmas about aggregate and percentile, for any number of GPUs and any   *)
(* readings.  GpuCollectionProofs and FunctionProofs rest on them.         *)
(***************************************************************************)
EXTENDS Aggregation, FiniteSetTheorems, WellFoundedInduction, TLAPS

-----------------------------------------------------------------------------
(* Numbers *)

\* A set of numbers has a least one.
LEMMA Least ==
  ASSUME NEW S \in SUBSET Nat, S # {}
  PROVE  \E m \in S : \A n \in S : m <= n
<1>1. PICK m \in S : \A n \in S : ~(<<n, m>> \in OpToRel(<, Nat))
  BY NatLessThanWellFounded, WFMin
<1>2. ASSUME NEW n \in S PROVE m <= n
  <2>1. <<n, m>> \in Nat \X Nat /\ ~(<<n, m>> \in OpToRel(<, Nat))
    BY <1>1
  <2>2. ~(n < m)
    BY <2>1 DEF OpToRel
  <2> QED
    BY <2>2
<1> QED
  BY <1>2

\* What holds of 0 and, with a number, of the next one, holds up to m.
LEMMA UpTo ==
  ASSUME NEW m \in Nat, NEW good, 0 \in good,
         \A n \in 0..m : n < m /\ n \in good => n + 1 \in good
  PROVE  \A n \in 0..m : n \in good
<1> DEFINE wrong == {n \in 0..m : n \notin good}
<1>1. SUFFICES ASSUME wrong # {} PROVE FALSE
  OBVIOUS
<1>0. wrong \in SUBSET Nat
  OBVIOUS
<1> HIDE DEF wrong
<1>2. PICK n \in wrong : \A k \in wrong : n <= k
  BY <1>0, <1>1, Least
<1> USE DEF wrong
<1>3. n \in 0..m /\ n \notin good /\ n # 0
  BY <1>2
<1>4. n - 1 \in 0..m /\ n - 1 < m /\ ~(n <= n - 1)
  BY <1>3
<1>5. n - 1 \in good
  BY <1>2, <1>4
<1> QED
  BY <1>3, <1>4, <1>5

LEMMA ProductMonotone ==
  ASSUME NEW a \in Nat, NEW b \in Nat, NEW c \in Nat, a <= b
  PROVE  a * c <= b * c
OBVIOUS

LEMMA MinOf ==
  ASSUME NEW S \in SUBSET Nat, S # {}
  PROVE  Min(S) \in S /\ \A n \in S : Min(S) <= n
BY Least DEF Min

LEMMA MaxOf ==
  ASSUME NEW S \in SUBSET Nat, S # {}, NEW b \in Nat, \A n \in S : n <= b
  PROVE  Max(S) \in S /\ \A n \in S : n <= Max(S)
<1> DEFINE below == {b - n : n \in S}
<1>1. below \in SUBSET Nat /\ below # {}
  <2>1. \A n \in S : n \in Nat /\ n <= b
    OBVIOUS
  <2>2. \A n \in Nat : n <= b => b - n \in Nat
    OBVIOUS
  <2>3. \A d \in below : d \in Nat
    BY <2>1, <2>2
  <2>4. PICK n \in S : TRUE
    OBVIOUS
  <2>5. b - n \in below
    BY <2>4
  <2> QED
    BY <2>3, <2>5
<1>2. PICK d \in below : \A c \in below : d <= c
  BY <1>1, Least
<1>3. PICK m \in S : d = b - m
  BY <1>2
<1>4. \A n \in S : b - m <= b - n
  BY <1>2, <1>3
<1>5. \A n \in S : m >= n
  BY <1>4
<1>6. Max(S) \in S /\ \A n \in S : Max(S) >= n
  BY <1>3, <1>5 DEF Max
<1> QED
  BY <1>6

-----------------------------------------------------------------------------
(* Readings *)

LEMMA ReadingsAre ==
  ASSUME NEW values
  PROVE  Readings(values) = {values[i] : i \in DOMAIN values}
BY DEF Readings, ToSet

\* A node's readings have an upper bound.
LEMMA Bounded ==
  ASSUME NEW values \in Seq(Nat)
  PROVE  \E b \in Nat : \A i \in DOMAIN values : values[i] <= b
<1> DEFINE AllUpTo(n, b) == \A i \in 1..n : values[i] <= b
           good == {n \in 0..Len(values) : \E b \in Nat : AllUpTo(n, b)}
<1>1. 0 \in good
  <2>1. AllUpTo(0, 0)
    OBVIOUS
  <2> QED
    BY <2>1
<1>2. ASSUME NEW n \in 0..Len(values), n < Len(values), n \in good
      PROVE  n + 1 \in good
  <2>1. PICK b \in Nat : AllUpTo(n, b)
    BY <1>2
  <2>2. n + 1 \in 1..Len(values) /\ values[n + 1] \in Nat
    BY <1>2
  <2>3. PICK c \in Nat : b <= c /\ values[n + 1] <= c
    BY <2>2
  <2>4. AllUpTo(n + 1, c)
    <3> SUFFICES ASSUME NEW i \in 1..(n + 1) PROVE values[i] <= c
      OBVIOUS
    <3>1. i \in 1..n \/ i = n + 1
      OBVIOUS
    <3>2. CASE i \in 1..n
      <4>1. values[i] <= b /\ values[i] \in Nat
        BY <2>1, <2>2, <3>2
      <4> QED
        BY <4>1, <2>3
    <3> QED
      BY <3>1, <3>2, <2>3
  <2> HIDE DEF AllUpTo
  <2>5. n + 1 \in 0..Len(values) /\ \E d \in Nat : AllUpTo(n + 1, d)
    BY <2>2, <2>3, <2>4
  <2> QED
    BY <2>5
<1>3. Len(values) \in Nat /\ Len(values) \in 0..Len(values)
  OBVIOUS
<1> HIDE DEF good
<1>4. Len(values) \in good
  BY <1>1, <1>2, <1>3, UpTo
<1>5. DOMAIN values = 1..Len(values)
  OBVIOUS
<1> QED
  BY <1>4, <1>5 DEF good

\* Counts are between 0 and the number of readings, and grow with v.
LEMMA Counts ==
  ASSUME NEW values \in Seq(Nat), NEW v \in Int, NEW w \in Int
  PROVE  /\ AtOrBelow(values, v) \in 0..Len(values)
         /\ Below(values, v) \in 0..Len(values)
         /\ v <= w => AtOrBelow(values, v) <= AtOrBelow(values, w)
         /\ v < w => AtOrBelow(values, v) <= Below(values, w)
         /\ Below(values, v) = AtOrBelow(values, v - 1)
<1> DEFINE at(x) == {i \in DOMAIN values : values[i] <= x}
           less(x) == {i \in DOMAIN values : values[i] < x}
<1>1. DOMAIN values = 1..Len(values) /\ Len(values) \in Nat
  OBVIOUS
<1>2. IsFiniteSet(DOMAIN values) /\ Cardinality(DOMAIN values) = Len(values)
  BY <1>1, FS_Interval
<1>3. ASSUME NEW S \in SUBSET DOMAIN values
      PROVE  IsFiniteSet(S) /\ Cardinality(S) \in 0..Len(values)
  <2>1. IsFiniteSet(S) /\ Cardinality(S) <= Len(values)
    BY <1>2, FS_Subset
  <2> QED
    BY <2>1, FS_CardinalityType
<1>4. \A i \in DOMAIN values : values[i] \in Nat
  OBVIOUS
<1>5. at(v) \in SUBSET DOMAIN values /\ less(v) \in SUBSET DOMAIN values
  OBVIOUS
<1>6. v <= w => at(v) \in SUBSET at(w)
  BY <1>4
<1>7. v < w => at(v) \in SUBSET less(w)
  BY <1>4
<1>8. less(v) = at(v - 1)
  BY <1>4
<1>9. at(w) \in SUBSET DOMAIN values /\ less(w) \in SUBSET DOMAIN values
  OBVIOUS
<1>10. IsFiniteSet(at(w)) /\ IsFiniteSet(less(w))
  BY <1>3, <1>9
<1> HIDE DEF at, less
<1>11. /\ v <= w => Cardinality(at(v)) <= Cardinality(at(w))
       /\ v < w => Cardinality(at(v)) <= Cardinality(less(w))
  BY <1>6, <1>7, <1>10, FS_Subset
<1>12. Cardinality(at(v)) \in 0..Len(values) /\ Cardinality(less(v)) \in 0..Len(values)
  BY <1>3, <1>5
<1> QED
  BY <1>8, <1>11, <1>12 DEF AtOrBelow, Below, at, less

LEMMA CountsAtTheEnds ==
  ASSUME NEW values \in Seq(Nat), NEW v \in Int
  PROVE  /\ v < 0 => AtOrBelow(values, v) = 0
         /\ (\A i \in DOMAIN values : values[i] <= v) =>
              AtOrBelow(values, v) = Len(values)
         /\ v \notin Readings(values) => AtOrBelow(values, v) = AtOrBelow(values, v - 1)
<1> DEFINE at(x) == {i \in DOMAIN values : values[i] <= x}
<1>1. DOMAIN values = 1..Len(values) /\ Len(values) \in Nat
  OBVIOUS
<1>2. \A i \in DOMAIN values : values[i] \in Nat
  OBVIOUS
<1>3. v < 0 => at(v) = {}
  BY <1>2
<1>4. (\A i \in DOMAIN values : values[i] <= v) => at(v) = DOMAIN values
  OBVIOUS
<1>5. v \notin Readings(values) => at(v) = at(v - 1)
  <2> SUFFICES ASSUME v \notin Readings(values), NEW i \in DOMAIN values
               PROVE  values[i] <= v <=> values[i] <= v - 1
    OBVIOUS
  <2>1. values[i] # v /\ values[i] \in Nat
    BY <1>2, ReadingsAre
  <2> QED
    BY <2>1
<1>6. Cardinality({}) = 0
  BY FS_EmptySet
<1>7. Cardinality(1..Len(values)) = Len(values)
  BY <1>1, FS_Interval
<1> QED
  BY <1>1, <1>3, <1>4, <1>5, <1>6, <1>7 DEF AtOrBelow

-----------------------------------------------------------------------------
(* Percentiles *)

LEMMA KthAround ==
  ASSUME NEW values \in Seq(Nat), NEW k \in 1..Len(values), NEW x \in Int,
         Below(values, x) < k, k <= AtOrBelow(values, x), NEW w \in Int
  PROVE  k <= AtOrBelow(values, w) <=> x <= w
<1>1. /\ AtOrBelow(values, w) \in Int /\ AtOrBelow(values, x) \in Int
      /\ Below(values, x) \in Int /\ k \in Int
  BY Counts
<1>2. x <= w => AtOrBelow(values, x) <= AtOrBelow(values, w)
  BY Counts
<1>3. w < x => AtOrBelow(values, w) <= Below(values, x)
  BY Counts
<1> QED
  BY <1>1, <1>2, <1>3

\* There is a k-th reading, and the count reaches k at it and not before.
LEMMA Kth ==
  ASSUME NEW values \in Seq(Nat), NEW k \in DOMAIN values
  PROVE  /\ sorted(values)[k] \in Readings(values) /\ sorted(values)[k] \in Nat
         /\ \A w \in Int : k <= AtOrBelow(values, w) <=> sorted(values)[k] <= w
<1> DEFINE reach == {v \in Nat : k <= AtOrBelow(values, v)}
<1>1. k \in 1..Len(values) /\ Len(values) \in Nat
  OBVIOUS
<1>2. reach # {} /\ reach \in SUBSET Nat
  <2>1. PICK b \in Nat : \A i \in DOMAIN values : values[i] <= b
    BY Bounded
  <2>2. AtOrBelow(values, b) = Len(values)
    BY <2>1, CountsAtTheEnds
  <2> QED
    BY <1>1, <2>2
<1> HIDE DEF reach
<1>3. PICK v \in reach : \A w \in reach : v <= w
  BY <1>2, Least
<1>4. v \in Nat /\ k <= AtOrBelow(values, v)
  BY <1>3 DEF reach
<1>5. AtOrBelow(values, v - 1) < k
  <2>1. v - 1 \in Int /\ AtOrBelow(values, v - 1) \in 0..Len(values)
    BY <1>4, Counts
  <2>2. CASE v = 0
    <3>1. AtOrBelow(values, v - 1) = 0
      BY <2>1, <2>2, CountsAtTheEnds
    <3> QED
      BY <1>1, <3>1
  <2>3. CASE v # 0
    <3>1. v - 1 \in Nat /\ ~(v <= v - 1)
      BY <1>4, <2>3
    <3>2. v - 1 \notin reach
      BY <1>3, <3>1
    <3> QED
      BY <1>1, <2>1, <3>1, <3>2 DEF reach
  <2> QED
    BY <2>2, <2>3
<1>6. v \in Readings(values)
  BY <1>1, <1>4, <1>5, Counts, CountsAtTheEnds
<1>7. Below(values, v) < k
  BY <1>4, <1>5, Counts
<1>8. sorted(values)[k] = CHOOSE u \in Readings(values) :
                            Below(values, u) < k /\ k <= AtOrBelow(values, u)
  BY DEF sorted
<1>9. PICK x : x = sorted(values)[k]
  OBVIOUS
<1>10. /\ x \in Readings(values)
       /\ Below(values, x) < k /\ k <= AtOrBelow(values, x)
  BY <1>4, <1>6, <1>7, <1>8, <1>9
<1>11. x \in Nat
  <2>1. \A i \in DOMAIN values : values[i] \in Nat
    OBVIOUS
  <2> QED
    BY <1>10, <2>1, ReadingsAre
<1>12. ASSUME NEW w \in Int PROVE k <= AtOrBelow(values, w) <=> x <= w
  BY <1>1, <1>10, <1>11, KthAround
<1> QED
  BY <1>9, <1>10, <1>11, <1>12

\* The rank is that of a reading.
LEMMA RankInRange ==
  ASSUME NEW n \in Nat \ {0}, NEW p \in {95, 99}
  PROVE  rank(n, p) \in 0..(n - 1)
<1>1. CASE p = 95
  BY <1>1 DEF rank
<1>2. CASE p = 99
  BY <1>2 DEF rank
<1> QED
  BY <1>1, <1>2

LEMMA PercentileIs ==
  ASSUME NEW values \in Seq(Nat), values # <<>>, NEW p \in {95, 99}
  PROVE  /\ percentile(values, p) = sorted(values)[rank(Len(values), p) + 1]
         /\ rank(Len(values), p) + 1 \in DOMAIN values
<1>1. Len(values) \in Nat \ {0}
  OBVIOUS
<1>2. rank(Len(values), p) \in 0..(Len(values) - 1)
  BY <1>1, RankInRange
<1> QED
  BY <1>1, <1>2 DEF percentile

\* At least p percent of the readings do not exceed w.
Covers(values, p, w) == 100 * AtOrBelow(values, w) >= p * Len(values)

\* A percentile is a reading, and at most w exactly when p percent of the
\* readings are.
LEMMA PercentileReached ==
  ASSUME NEW values \in Seq(Nat), values # <<>>, NEW p \in {95, 99}
  PROVE  /\ percentile(values, p) \in Readings(values)
         /\ percentile(values, p) \in Nat
         /\ \A w \in Int : percentile(values, p) <= w <=> Covers(values, p, w)
<1> DEFINE k == rank(Len(values), p) + 1
<1>1. percentile(values, p) = sorted(values)[k] /\ k \in DOMAIN values
  BY PercentileIs
<1>2. Len(values) \in Nat \ {0}
  OBVIOUS
<1>3. ASSUME NEW w \in Int
      PROVE  k <= AtOrBelow(values, w) <=> Covers(values, p, w)
  <2>1. PICK n \in Nat \ {0} : n = Len(values)
    BY <1>2
  <2>2. PICK c \in Nat : c = AtOrBelow(values, w)
    BY Counts
  <2>3. 100 * c >= p * n <=> rank(n, p) + 1 <= c
    <3>1. CASE p = 95
      BY <3>1 DEF rank
    <3>2. CASE p = 99
      BY <3>2 DEF rank
    <3> QED
      BY <3>1, <3>2
  <2> QED
    BY <2>1, <2>2, <2>3 DEF Covers
<1> HIDE DEF k
<1> QED
  BY <1>1, <1>3, Kth

-----------------------------------------------------------------------------
(* Totals *)

\* The running totals of the readings.
Running(values, sum, m) ==
  /\ sum \in [0..m -> Int] /\ sum[0] = 0
  /\ \A n \in 1..m : sum[n] = sum[n - 1] + values[n]

LEMMA RunningExists ==
  ASSUME NEW values \in Seq(Int)
  PROVE  \E sum : Running(values, sum, Len(values))
<1> DEFINE good == {n \in 0..Len(values) : \E sum : Running(values, sum, n)}
<1>1. Len(values) \in Nat
  OBVIOUS
<1>2. 0 \in good
  <2> DEFINE zero == [n \in 0..0 |-> 0]
  <2>1. Running(values, zero, 0)
    BY DEF Running
  <2> HIDE DEF zero
  <2> QED
    BY <1>1, <2>1
<1>3. ASSUME NEW n \in 0..Len(values), n < Len(values), n \in good
      PROVE  n + 1 \in good
  <2>1. PICK sum : Running(values, sum, n)
    BY <1>3
  <2> DEFINE more == [k \in 0..(n + 1) |->
                        IF k <= n THEN sum[k] ELSE sum[n] + values[n + 1]]
  <2>2. n + 1 \in 0..Len(values) /\ values[n + 1] \in Int /\ n \in Nat
    BY <1>3
  <2>3. \A k \in 0..n : sum[k] \in Int
    BY <2>1 DEF Running
  <2>4. more \in [0..(n + 1) -> Int]
    BY <2>2, <2>3
  <2>5. more[0] = 0
    BY <2>1, <2>2 DEF Running
  <2>6. ASSUME NEW k \in 1..(n + 1) PROVE more[k] = more[k - 1] + values[k]
    <3>1. CASE k = n + 1
      BY <2>2, <3>1
    <3>2. CASE k # n + 1
      <4>1. k \in 1..n /\ k <= n /\ k - 1 <= n /\ k - 1 \in 0..(n + 1)
        BY <2>2, <3>2
      <4> QED
        BY <4>1, <2>1 DEF Running
    <3> QED
      BY <3>1, <3>2
  <2> HIDE DEF more
  <2>7. Running(values, more, n + 1)
    BY <2>4, <2>5, <2>6 DEF Running
  <2> QED
    BY <2>2, <2>7
<1>4. Len(values) \in 0..Len(values)
  BY <1>1
<1> HIDE DEF good
<1>5. Len(values) \in good
  BY <1>1, <1>2, <1>3, <1>4, UpTo
<1> QED
  BY <1>5 DEF good

\* total is the last of the running totals.
LEMMA TotalIs ==
  ASSUME NEW values \in Seq(Int)
  PROVE  \E sum : /\ Running(values, sum, Len(values))
                  /\ total(values) = sum[Len(values)]
<1> DEFINE m == Len(values)
           Rec(f) == f = [n \in 0..m |-> IF n = 0 THEN 0 ELSE f[n - 1] + values[n]]
           upTo == CHOOSE f : Rec(f)
<1>1. m \in Nat
  OBVIOUS
<1>2. PICK sum : Running(values, sum, m)
  BY RunningExists
<1>3. Rec(sum)
  <2>1. \A n \in 0..m : sum[n] = IF n = 0 THEN 0 ELSE sum[n - 1] + values[n]
    BY <1>1, <1>2 DEF Running
  <2> QED
    BY <1>2, <2>1 DEF Running
<1>4. Rec(upTo)
  BY <1>3
<1>5. total(values) = upTo[m]
  BY DEF total
<1>6. PICK f : f = upTo
  OBVIOUS
<1> HIDE DEF upTo
<1>7. f = [n \in 0..m |-> IF n = 0 THEN 0 ELSE f[n - 1] + values[n]]
  BY <1>4, <1>6
<1> DEFINE body == [n \in 0..m |-> IF n = 0 THEN 0 ELSE f[n - 1] + values[n]]
<1>8. /\ DOMAIN body = 0..m
      /\ \A n \in 0..m : body[n] = IF n = 0 THEN 0 ELSE f[n - 1] + values[n]
  OBVIOUS
<1>9. f = body
  BY <1>7
<1> HIDE DEF body
<1>10. /\ DOMAIN f = 0..m
       /\ \A n \in 0..m : f[n] = IF n = 0 THEN 0 ELSE f[n - 1] + values[n]
  BY <1>8, <1>9
<1> DEFINE good == {n \in 0..m : f[n] = sum[n]}
<1>11. 0 \in good
  BY <1>1, <1>2, <1>10 DEF Running
<1>12. ASSUME NEW n \in 0..m, n < m, n \in good PROVE n + 1 \in good
  <2>1. n + 1 \in 0..m /\ n + 1 \in 1..m /\ n + 1 # 0 /\ (n + 1) - 1 = n
    BY <1>1, <1>12
  <2>2. f[n + 1] = f[n] + values[n + 1]
    BY <1>10, <2>1
  <2>3. sum[n + 1] = sum[n] + values[n + 1]
    BY <1>2, <2>1 DEF Running
  <2> QED
    BY <1>12, <2>1, <2>2, <2>3
<1>13. m \in 0..m
  BY <1>1
<1>14. f[m] = sum[m]
  <2> HIDE DEF good
  <2>1. m \in good
    BY <1>1, <1>11, <1>12, <1>13, UpTo
  <2> QED
    BY <2>1 DEF good
<1> QED
  BY <1>2, <1>5, <1>6, <1>14

LEMMA TotalType ==
  ASSUME NEW values \in Seq(Int)
  PROVE  total(values) \in Int
<1>1. PICK sum : Running(values, sum, Len(values)) /\ total(values) = sum[Len(values)]
  BY TotalIs
<1>2. Len(values) \in 0..Len(values)
  OBVIOUS
<1> QED
  BY <1>1, <1>2 DEF Running

\* Readings that are nowhere lower have no lower total.
LEMMA TotalMonotone ==
  ASSUME NEW values \in Seq(Int), NEW higher \in Seq(Int), Len(higher) = Len(values),
         \A i \in DOMAIN values : values[i] <= higher[i]
  PROVE  total(values) <= total(higher)
<1> DEFINE m == Len(values)
<1>1. PICK sum : Running(values, sum, m) /\ total(values) = sum[m]
  BY TotalIs
<1>2. PICK sum2 : Running(higher, sum2, m) /\ total(higher) = sum2[m]
  BY TotalIs
<1>3. m \in Nat /\ m \in 0..m /\ DOMAIN values = 1..m /\ DOMAIN higher = 1..m
  OBVIOUS
<1>4. /\ \A i \in 1..m : /\ values[i] \in Int /\ higher[i] \in Int
                          /\ values[i] <= higher[i]
  BY <1>3
<1> HIDE DEF m
<1> DEFINE good == {n \in 0..m : sum[n] <= sum2[n]}
<1>5. 0 \in good
  BY <1>1, <1>2, <1>3 DEF Running
<1>6. ASSUME NEW n \in 0..m, n < m, n \in good PROVE n + 1 \in good
  <2>1. n + 1 \in 0..m /\ n + 1 \in 1..m /\ (n + 1) - 1 = n
    BY <1>3, <1>6
  <2>2. /\ sum[n + 1] = sum[n] + values[n + 1] /\ sum[n] \in Int
        /\ sum2[n + 1] = sum2[n] + higher[n + 1] /\ sum2[n] \in Int
    BY <1>1, <1>2, <2>1 DEF Running
  <2>3. sum[n] <= sum2[n] /\ values[n + 1] <= higher[n + 1]
    BY <1>4, <1>6, <2>1
  <2>4. values[n + 1] \in Int /\ higher[n + 1] \in Int
    BY <1>4, <2>1
  <2>5. sum[n + 1] <= sum2[n + 1]
    BY <2>2, <2>3, <2>4
  <2> QED
    BY <2>1, <2>5
<1> HIDE DEF good
<1>7. m \in good
  BY <1>3, <1>5, <1>6, UpTo
<1> QED
  BY <1>1, <1>2, <1>7 DEF good

\* The total of readings that are all the same.
LEMMA TotalOfSame ==
  ASSUME NEW m \in Nat, NEW v \in Int
  PROVE  total([i \in 1..m |-> v]) = m * v
<1> DEFINE values == [i \in 1..m |-> v]
<1>1. values \in Seq(Int) /\ Len(values) = m /\ \A i \in 1..m : values[i] = v
  OBVIOUS
<1> HIDE DEF values
<1>2. PICK sum : Running(values, sum, m) /\ total(values) = sum[m]
  BY <1>1, TotalIs
<1> DEFINE good == {n \in 0..m : sum[n] = n * v}
<1>3. 0 \in good
  BY <1>2 DEF Running
<1>4. ASSUME NEW n \in 0..m, n < m, n \in good PROVE n + 1 \in good
  <2>1. n + 1 \in 0..m /\ n + 1 \in 1..m /\ (n + 1) - 1 = n /\ n \in Int
    BY <1>4
  <2>2. sum[n + 1] = sum[n] + v
    BY <1>1, <1>2, <2>1 DEF Running
  <2>3. (n + 1) * v = n * v + v
    BY <2>1
  <2> QED
    BY <1>4, <2>1, <2>2, <2>3
<1>5. m \in 0..m
  OBVIOUS
<1>6. sum[m] = m * v
  <2> HIDE DEF good
  <2>1. m \in good
    BY <1>3, <1>4, <1>5, UpTo
  <2> QED
    BY <2>1 DEF good
<1> QED
  BY <1>2, <1>6 DEF values

\* The total of readings between two numbers.
LEMMA TotalBetween ==
  ASSUME NEW values \in Seq(Int), NEW lo \in Int, NEW hi \in Int,
         \A i \in DOMAIN values : lo <= values[i] /\ values[i] <= hi
  PROVE  Len(values) * lo <= total(values) /\ total(values) <= Len(values) * hi
<1> DEFINE m == Len(values)
           low == [i \in 1..m |-> lo]
           high == [i \in 1..m |-> hi]
<1>1. m \in Nat /\ DOMAIN values = 1..m
  OBVIOUS
<1>2. /\ low \in Seq(Int) /\ Len(low) = m /\ DOMAIN low = 1..m
      /\ high \in Seq(Int) /\ Len(high) = m
      /\ \A i \in 1..m : low[i] = lo /\ high[i] = hi
  BY <1>1
<1>3. total(low) = m * lo /\ total(high) = m * hi
  BY <1>1, TotalOfSame
<1> HIDE DEF low, high
<1>4. total(low) <= total(values) /\ total(values) <= total(high)
  BY <1>1, <1>2, TotalMonotone
<1> QED
  BY <1>3, <1>4

-----------------------------------------------------------------------------
(* The loops of max and min *)

\* The readings of a node.
LEMMA SomeReadings ==
  ASSUME NEW values \in Seq(Nat), values # <<>>
  PROVE  /\ Len(values) \in Nat \ {0} /\ DOMAIN values = 1..Len(values)
         /\ \A i \in 1..Len(values) : values[i] \in Nat
         /\ Readings(values) = {values[i] : i \in 1..Len(values)}
         /\ Readings(values) \in SUBSET Nat
<1>1. /\ Len(values) \in Nat \ {0} /\ DOMAIN values = 1..Len(values)
      /\ \A i \in 1..Len(values) : values[i] \in Nat
  OBVIOUS
<1>2. Readings(values) = {values[i] : i \in 1..Len(values)}
  BY <1>1, ReadingsAre
<1> QED
  BY <1>1, <1>2

\* A loop that starts with the first reading and at each next one lets `step'
\* decide between that and what it has.
Walk(values, step, f, m) ==
  /\ f \in [1..m -> Nat] /\ f = [n \in 1..m |-> f[n]] /\ f[1] = values[1]
  /\ \A n \in 2..m : f[n] = step[<<f[n - 1], values[n]>>]

LEMMA WalkExists ==
  ASSUME NEW values \in Seq(Nat), values # <<>>, NEW step \in [Nat \X Nat -> Nat]
  PROVE  \E f : Walk(values, step, f, Len(values))
<1> DEFINE M == Len(values)
           good == {k \in 0..(M - 1) : \E f : Walk(values, step, f, k + 1)}
<1>1. M \in Nat \ {0} /\ \A n \in 1..M : values[n] \in Nat
  BY SomeReadings
<1>2. 0 \in good
  <2> DEFINE one == [n \in 1..1 |-> values[1]]
  <2>1. /\ one \in [1..1 -> Nat] /\ one = [n \in 1..1 |-> one[n]] /\ one[1] = values[1]
        /\ 2..1 = {}
    BY <1>1
  <2> HIDE DEF one
  <2>2. Walk(values, step, one, 1)
    BY <2>1 DEF Walk
  <2>3. 0 \in 0..(M - 1) /\ 0 + 1 = 1
    BY <1>1
  <2> QED
    BY <2>2, <2>3
<1>3. ASSUME NEW k \in 0..(M - 1), k < M - 1, k \in good PROVE k + 1 \in good
  <2>1. PICK m : m = k + 1
    OBVIOUS
  <2>2. m \in Nat /\ m >= 1 /\ m \in 1..m /\ m + 1 \in 1..M /\ k + 1 \in 0..(M - 1)
    BY <1>1, <1>3, <2>1
  <2>3. PICK f : Walk(values, step, f, m)
    BY <1>3, <2>1
  <2>4. /\ f \in [1..m -> Nat] /\ f[1] = values[1]
        /\ \A n \in 2..m : f[n] = step[<<f[n - 1], values[n]>>]
    BY <2>3 DEF Walk
  <2> DEFINE more == [n \in 1..(m + 1) |->
                        IF n <= m THEN f[n] ELSE step[<<f[m], values[m + 1]>>]]
  <2>5. step[<<f[m], values[m + 1]>>] \in Nat
    <3>1. f[m] \in Nat /\ values[m + 1] \in Nat
      BY <1>1, <2>2, <2>4
    <3> QED
      BY <3>1
  <2>6. \A n \in 1..m : f[n] \in Nat
    BY <2>4
  <2>7. more \in [1..(m + 1) -> Nat]
    BY <2>2, <2>5, <2>6
  <2>8. more[1] = values[1]
    BY <2>2, <2>4
  <2>9. ASSUME NEW n \in 2..(m + 1)
        PROVE  more[n] = step[<<more[n - 1], values[n]>>]
    <3>1. CASE n = m + 1
      <4>1. n - 1 = m /\ n \in 1..(m + 1) /\ m \in 1..(m + 1) /\ ~(m + 1 <= m)
        BY <2>2, <3>1
      <4>2. more[m + 1] = step[<<f[m], values[m + 1]>>] /\ more[m] = f[m]
        BY <2>2, <3>1, <4>1
      <4> QED
        BY <3>1, <4>1, <4>2
    <3>2. CASE n # m + 1
      <4>1. /\ n \in 2..m /\ n <= m /\ n - 1 <= m
            /\ n \in 1..(m + 1) /\ n - 1 \in 1..(m + 1)
        BY <2>2, <3>2
      <4>2. more[n] = f[n] /\ more[n - 1] = f[n - 1]
        BY <4>1
      <4> QED
        BY <4>1, <4>2, <2>4
    <3> QED
      BY <3>1, <3>2
  <2>10. more = [n \in 1..(m + 1) |-> more[n]]
    OBVIOUS
  <2> HIDE DEF more
  <2>11. Walk(values, step, more, m + 1)
    BY <2>7, <2>8, <2>9, <2>10 DEF Walk
  <2> QED
    BY <2>1, <2>2, <2>11
<1>4. M - 1 \in Nat /\ M - 1 \in 0..(M - 1) /\ (M - 1) + 1 = M
  BY <1>1
<1> HIDE DEF good
<1>5. M - 1 \in good
  BY <1>2, <1>3, <1>4, UpTo
<1> QED
  BY <1>4, <1>5 DEF good

\* What the loop of max returns is a reading that no other exceeds, what the
\* loop of min returns one that no other is below.
LEMMA LargestIs ==
  ASSUME NEW values \in Seq(Nat), values # <<>>
  PROVE  /\ largest(values) \in Readings(values)
         /\ \A v \in Readings(values) : v <= largest(values)
<1> DEFINE M == Len(values)
           step == [p \in Nat \X Nat |-> IF p[2] > p[1] THEN p[2] ELSE p[1]]
           Rec(f) == f = [n \in 1..M |->
                            IF n = 1 THEN values[1]
                            ELSE IF values[n] > f[n - 1] THEN values[n] ELSE f[n - 1]]
           upTo == CHOOSE f : Rec(f)
           Holds(f, n) == /\ f[n] \in Readings(values)
                          /\ \A i \in 1..n : values[i] <= f[n]
<1>1. /\ M \in Nat \ {0} /\ \A i \in 1..M : values[i] \in Nat
      /\ Readings(values) = {values[i] : i \in 1..M}
  BY SomeReadings
<1>2. step \in [Nat \X Nat -> Nat]
  OBVIOUS
<1>3. PICK f : Walk(values, step, f, M)
  BY <1>2, WalkExists
<1>4. \E g : Rec(g)
  <2>1. \A n \in 2..M : f[n] = IF values[n] > f[n - 1] THEN values[n] ELSE f[n - 1]
    <3> SUFFICES ASSUME NEW n \in 2..M
                 PROVE  f[n] = IF values[n] > f[n - 1] THEN values[n] ELSE f[n - 1]
      OBVIOUS
    <3>1. n \in 1..M /\ n - 1 \in 1..M
      BY <1>1
    <3>2. f[n - 1] \in Nat /\ values[n] \in Nat
      BY <1>1, <1>3, <3>1 DEF Walk
    <3> QED
      BY <1>3, <3>2 DEF Walk
  <2>2. \A n \in 1..M :
          f[n] = IF n = 1 THEN values[1]
                 ELSE IF values[n] > f[n - 1] THEN values[n] ELSE f[n - 1]
    <3>1. \A n \in 1..M : n = 1 \/ (n # 1 /\ n \in 2..M)
      BY <1>1
    <3>2. f[1] = values[1]
      BY <1>3 DEF Walk
    <3> QED
      BY <2>1, <3>1, <3>2
  <2>3. Rec(f)
    BY <1>3, <2>2 DEF Walk
  <2> QED
    BY <2>3
<1>5. PICK g : g = upTo
  OBVIOUS
<1>6. Rec(g)
  BY <1>4, <1>5
<1>7. largest(values) = g[M]
  BY <1>5 DEF largest
<1>8. \A n \in 1..M :
        g[n] = IF n = 1 THEN values[1]
               ELSE IF values[n] > g[n - 1] THEN values[n] ELSE g[n - 1]
  <2> DEFINE body == [n \in 1..M |->
                        IF n = 1 THEN values[1]
                        ELSE IF values[n] > g[n - 1] THEN values[n] ELSE g[n - 1]]
  <2>1. g = body
    BY <1>6
  <2>2. \A n \in 1..M :
          body[n] = IF n = 1 THEN values[1]
                    ELSE IF values[n] > g[n - 1] THEN values[n] ELSE g[n - 1]
    OBVIOUS
  <2> HIDE DEF body
  <2> QED
    BY <2>1, <2>2
<1> HIDE DEF upTo, Rec, step
<1> DEFINE good == {k \in 0..(M - 1) : Holds(g, k + 1)}
<1>9. 0 \in good
  BY <1>1, <1>8
<1>10. ASSUME NEW k \in 0..(M - 1), k < M - 1, k \in good PROVE k + 1 \in good
  <2>1. PICK n : n = k + 1
    OBVIOUS
  <2>2. /\ n \in 1..M /\ n + 1 \in 1..M /\ n + 1 # 1 /\ (n + 1) - 1 = n
        /\ k + 1 \in 0..(M - 1)
    BY <1>1, <1>10, <2>1
  <2>3. Holds(g, n)
    BY <1>10, <2>1
  <2>4. g[n + 1] = IF values[n + 1] > g[n] THEN values[n + 1] ELSE g[n]
    BY <1>8, <2>2
  <2>5. g[n] \in Nat /\ values[n + 1] \in Nat /\ values[n + 1] \in Readings(values)
    BY <1>1, <2>2, <2>3
  <2>6. ASSUME NEW i \in 1..(n + 1) PROVE values[i] <= g[n + 1]
    <3>1. CASE i = n + 1
      BY <2>4, <2>5, <3>1
    <3>2. CASE i # n + 1
      <4>1. i \in 1..n /\ i \in 1..M
        BY <2>2, <3>2
      <4>2. values[i] <= g[n] /\ values[i] \in Nat
        BY <1>1, <2>3, <4>1
      <4> QED
        BY <2>4, <2>5, <4>2
    <3> QED
      BY <3>1, <3>2
  <2>7. Holds(g, n + 1)
    BY <2>3, <2>4, <2>5, <2>6
  <2> QED
    BY <2>1, <2>2, <2>7
<1>11. M - 1 \in Nat /\ M - 1 \in 0..(M - 1) /\ (M - 1) + 1 = M
  BY <1>1
<1>12. Holds(g, M)
  <2> HIDE DEF good, Holds
  <2>1. M - 1 \in good
    BY <1>9, <1>10, <1>11, UpTo
  <2> QED
    BY <1>11, <2>1 DEF good
<1> QED
  BY <1>1, <1>7, <1>12

LEMMA SmallestIs ==
  ASSUME NEW values \in Seq(Nat), values # <<>>
  PROVE  /\ smallest(values) \in Readings(values)
         /\ \A v \in Readings(values) : smallest(values) <= v
<1> DEFINE M == Len(values)
           step == [p \in Nat \X Nat |-> IF p[2] < p[1] THEN p[2] ELSE p[1]]
           Rec(f) == f = [n \in 1..M |->
                            IF n = 1 THEN values[1]
                            ELSE IF values[n] < f[n - 1] THEN values[n] ELSE f[n - 1]]
           upTo == CHOOSE f : Rec(f)
           Holds(f, n) == /\ f[n] \in Readings(values)
                          /\ \A i \in 1..n : f[n] <= values[i]
<1>1. /\ M \in Nat \ {0} /\ \A i \in 1..M : values[i] \in Nat
      /\ Readings(values) = {values[i] : i \in 1..M}
  BY SomeReadings
<1>2. step \in [Nat \X Nat -> Nat]
  OBVIOUS
<1>3. PICK f : Walk(values, step, f, M)
  BY <1>2, WalkExists
<1>4. \E g : Rec(g)
  <2>1. \A n \in 2..M : f[n] = IF values[n] < f[n - 1] THEN values[n] ELSE f[n - 1]
    <3> SUFFICES ASSUME NEW n \in 2..M
                 PROVE  f[n] = IF values[n] < f[n - 1] THEN values[n] ELSE f[n - 1]
      OBVIOUS
    <3>1. n \in 1..M /\ n - 1 \in 1..M
      BY <1>1
    <3>2. f[n - 1] \in Nat /\ values[n] \in Nat
      BY <1>1, <1>3, <3>1 DEF Walk
    <3> QED
      BY <1>3, <3>2 DEF Walk
  <2>2. \A n \in 1..M :
          f[n] = IF n = 1 THEN values[1]
                 ELSE IF values[n] < f[n - 1] THEN values[n] ELSE f[n - 1]
    <3>1. \A n \in 1..M : n = 1 \/ (n # 1 /\ n \in 2..M)
      BY <1>1
    <3>2. f[1] = values[1]
      BY <1>3 DEF Walk
    <3> QED
      BY <2>1, <3>1, <3>2
  <2>3. Rec(f)
    BY <1>3, <2>2 DEF Walk
  <2> QED
    BY <2>3
<1>5. PICK g : g = upTo
  OBVIOUS
<1>6. Rec(g)
  BY <1>4, <1>5
<1>7. smallest(values) = g[M]
  BY <1>5 DEF smallest
<1>8. \A n \in 1..M :
        g[n] = IF n = 1 THEN values[1]
               ELSE IF values[n] < g[n - 1] THEN values[n] ELSE g[n - 1]
  <2> DEFINE body == [n \in 1..M |->
                        IF n = 1 THEN values[1]
                        ELSE IF values[n] < g[n - 1] THEN values[n] ELSE g[n - 1]]
  <2>1. g = body
    BY <1>6
  <2>2. \A n \in 1..M :
          body[n] = IF n = 1 THEN values[1]
                    ELSE IF values[n] < g[n - 1] THEN values[n] ELSE g[n - 1]
    OBVIOUS
  <2> HIDE DEF body
  <2> QED
    BY <2>1, <2>2
<1> HIDE DEF upTo, Rec, step
<1> DEFINE good == {k \in 0..(M - 1) : Holds(g, k + 1)}
<1>9. 0 \in good
  BY <1>1, <1>8
<1>10. ASSUME NEW k \in 0..(M - 1), k < M - 1, k \in good PROVE k + 1 \in good
  <2>1. PICK n : n = k + 1
    OBVIOUS
  <2>2. /\ n \in 1..M /\ n + 1 \in 1..M /\ n + 1 # 1 /\ (n + 1) - 1 = n
        /\ k + 1 \in 0..(M - 1)
    BY <1>1, <1>10, <2>1
  <2>3. Holds(g, n)
    BY <1>10, <2>1
  <2>4. g[n + 1] = IF values[n + 1] < g[n] THEN values[n + 1] ELSE g[n]
    BY <1>8, <2>2
  <2>5. g[n] \in Nat /\ values[n + 1] \in Nat /\ values[n + 1] \in Readings(values)
    BY <1>1, <2>2, <2>3
  <2>6. ASSUME NEW i \in 1..(n + 1) PROVE g[n + 1] <= values[i]
    <3>1. CASE i = n + 1
      BY <2>4, <2>5, <3>1
    <3>2. CASE i # n + 1
      <4>1. i \in 1..n /\ i \in 1..M
        BY <2>2, <3>2
      <4>2. g[n] <= values[i] /\ values[i] \in Nat
        BY <1>1, <2>3, <4>1
      <4> QED
        BY <2>4, <2>5, <4>2
    <3> QED
      BY <3>1, <3>2
  <2>7. Holds(g, n + 1)
    BY <2>3, <2>4, <2>5, <2>6
  <2> QED
    BY <2>1, <2>2, <2>7
<1>11. M - 1 \in Nat /\ M - 1 \in 0..(M - 1) /\ (M - 1) + 1 = M
  BY <1>1
<1>12. Holds(g, M)
  <2> HIDE DEF good, Holds
  <2>1. M - 1 \in good
    BY <1>9, <1>10, <1>11, UpTo
  <2> QED
    BY <1>11, <2>1 DEF good
<1> QED
  BY <1>1, <1>7, <1>12

-----------------------------------------------------------------------------
(* Aggregates *)

\* The busiest and the least busy GPU.
LEMMA Extremes ==
  ASSUME NEW values \in Seq(Nat), values # <<>>
  PROVE  /\ largest(values) \in Readings(values)
         /\ smallest(values) \in Readings(values)
         /\ Readings(values) \in SUBSET Nat
         /\ \A v \in Readings(values) :
              smallest(values) <= v /\ v <= largest(values)
BY LargestIs, SmallestIs, SomeReadings

\* Max, min and the percentiles are readings of GPUs of the node.
LEMMA AggregateReading ==
  ASSUME NEW values \in Seq(Nat), values # <<>>,
         NEW method \in {"max", "min", "p95", "p99"}
  PROVE  \E v \in Readings(values) : aggregate(values, method) = Whole(v)
<1>1. CASE method = "max"
  BY <1>1, Extremes DEF aggregate
<1>2. CASE method = "min"
  BY <1>2, Extremes DEF aggregate
<1>3. CASE method = "p95"
  <2>1. percentile(values, 95) \in Readings(values)
    BY PercentileReached
  <2> QED
    BY <1>3, <2>1 DEF aggregate
<1>4. CASE method = "p99"
  <2>1. percentile(values, 99) \in Readings(values)
    BY PercentileReached
  <2> QED
    BY <1>4, <2>1 DEF aggregate
<1> QED
  BY <1>1, <1>2, <1>3, <1>4

LEMMA TotalNat ==
  ASSUME NEW values \in Seq(Nat)
  PROVE  total(values) \in Nat
<1>1. PICK b \in Nat : \A i \in DOMAIN values : values[i] <= b
  BY Bounded
<1>2. values \in Seq(Int) /\ \A i \in DOMAIN values : 0 <= values[i]
  OBVIOUS
<1>3. Len(values) * 0 <= total(values) /\ total(values) \in Int
  BY <1>1, <1>2, TotalBetween, TotalType
<1> QED
  BY <1>3

LEMMA AggregateType ==
  ASSUME NEW values \in Seq(Nat), values # <<>>, NEW method \in Methods
  PROVE  /\ aggregate(values, method) \in [num : Nat, den : Nat]
         /\ aggregate(values, method).den > 0
<1>1. CASE method \in {"max", "min", "p95", "p99"}
  <2>1. PICK v \in Readings(values) : aggregate(values, method) = Whole(v)
    BY <1>1, AggregateReading
  <2>2. v \in Nat
    BY Extremes
  <2> QED
    BY <2>1, <2>2 DEF Whole
<1>2. CASE method = "avg"
  <2>1. Len(values) \in Nat /\ Len(values) > 0
    OBVIOUS
  <2> QED
    BY <1>2, <2>1, TotalNat DEF aggregate, mean
<1>3. CASE method = "sum"
  BY <1>3, TotalNat DEF aggregate, Whole
<1> QED
  BY <1>1, <1>2, <1>3 DEF Methods

\* Between bounds of the readings there is every aggregate but the sum.
LEMMA AggregateBetween ==
  ASSUME NEW values \in Seq(Nat), values # <<>>, NEW method \in Methods \ {"sum"},
         NEW lo \in Nat, NEW hi \in Nat,
         \A i \in DOMAIN values : lo <= values[i] /\ values[i] <= hi
  PROVE  /\ AtMost(Whole(lo), aggregate(values, method))
         /\ AtMost(aggregate(values, method), Whole(hi))
<1>1. CASE method \in {"max", "min", "p95", "p99"}
  <2>1. PICK v \in Readings(values) : aggregate(values, method) = Whole(v)
    BY <1>1, AggregateReading
  <2>2. v \in Nat /\ lo <= v /\ v <= hi
    BY Extremes, ReadingsAre
  <2> QED
    BY <2>1, <2>2 DEF Whole, AtMost
<1>2. CASE method = "avg"
  <2>1. values \in Seq(Int) /\ Len(values) \in Nat
    OBVIOUS
  <2>2. Len(values) * lo <= total(values) /\ total(values) <= Len(values) * hi
    BY <2>1, TotalBetween
  <2>3. total(values) \in Nat
    BY TotalNat
  <2>4. aggregate(values, method) = [num |-> total(values), den |-> Len(values)]
    BY <1>2 DEF aggregate, mean
  <2>5. Len(values) * lo = lo * Len(values) /\ Len(values) * hi = hi * Len(values)
    BY <2>1
  <2> QED
    BY <2>1, <2>2, <2>3, <2>4, <2>5 DEF Whole, AtMost
<1> QED
  BY <1>1, <1>2 DEF Methods

-----------------------------------------------------------------------------
(* What percentile's comment says *)

LEMMA PercentileIsNearestRank ==
  ASSUME NEW values \in Seq(Nat), values # <<>>, NEW p \in {95, 99}
  PROVE  percentile(values, p) =
           Min({v \in Readings(values) :
                  100 * AtOrBelow(values, v) >= p * Len(values)})
<1> DEFINE S == {v \in Readings(values) :
                   100 * AtOrBelow(values, v) >= p * Len(values)}
           x == percentile(values, p)
<1>1. /\ x \in Readings(values) /\ x \in Nat
      /\ \A w \in Int : x <= w <=> Covers(values, p, w)
  BY PercentileReached
<1>2. Readings(values) \in SUBSET Nat
  BY Extremes
<1> HIDE DEF x
<1>3. x \in S
  <2>1. x <= x /\ x \in Int
    BY <1>1
  <2> QED
    BY <1>1, <2>1 DEF Covers
<1>4. ASSUME NEW v \in S PROVE x <= v
  <2>1. v \in Int /\ Covers(values, p, v)
    BY <1>2 DEF Covers
  <2> QED
    BY <1>1, <2>1
<1>5. S \in SUBSET Nat
  BY <1>2
<1> HIDE DEF S
<1>6. Min(S) \in S /\ \A n \in S : Min(S) <= n
  BY <1>3, <1>5, MinOf
<1>7. x <= Min(S) /\ Min(S) <= x /\ Min(S) \in Nat
  BY <1>3, <1>4, <1>5, <1>6
<1>8. x = Min(S)
  BY <1>1, <1>7
<1> QED
  BY <1>8 DEF x, S

-----------------------------------------------------------------------------
(* Busier GPUs *)

\* `higher' is the same node with readings that are nowhere lower.
Busier(values, higher) ==
  /\ Len(higher) = Len(values)
  /\ \A i \in DOMAIN values : values[i] <= higher[i]

LEMMA FewerAtOrBelow ==
  ASSUME NEW values \in Seq(Nat), NEW higher \in Seq(Nat), Busier(values, higher),
         NEW w \in Int
  PROVE  AtOrBelow(higher, w) <= AtOrBelow(values, w)
<1> DEFINE at == {i \in DOMAIN values : values[i] <= w}
           at2 == {i \in DOMAIN higher : higher[i] <= w}
<1>1. /\ DOMAIN values = 1..Len(values) /\ DOMAIN higher = 1..Len(values)
      /\ Len(values) \in Nat
  BY DEF Busier
<1>2. \A i \in DOMAIN values : values[i] \in Nat /\ higher[i] \in Nat
  BY <1>1
<1>3. at2 \in SUBSET at
  BY <1>1, <1>2 DEF Busier
<1>4. at \in SUBSET (1..Len(values)) /\ IsFiniteSet(1..Len(values))
  BY <1>1, FS_Interval
<1> HIDE DEF at, at2
<1>5. IsFiniteSet(at)
  BY <1>4, FS_Subset
<1>6. Cardinality(at2) <= Cardinality(at)
  BY <1>3, <1>5, FS_Subset
<1> QED
  BY <1>6 DEF at, at2, AtOrBelow

LEMMA PercentileMonotone ==
  ASSUME NEW values \in Seq(Nat), NEW higher \in Seq(Nat), Busier(values, higher),
         values # <<>>, NEW p \in {95, 99}
  PROVE  percentile(values, p) <= percentile(higher, p)
<1>1. higher # <<>>
  BY DEF Busier
<1> DEFINE x == percentile(higher, p)
<1>2. /\ x \in Nat
      /\ \A w \in Int : x <= w <=> Covers(higher, p, w)
  BY <1>1, PercentileReached
<1>3. \A w \in Int : percentile(values, p) <= w <=> Covers(values, p, w)
  BY PercentileReached
<1> HIDE DEF x
<1>4. x \in Int /\ x <= x
  BY <1>2
<1>5. 100 * AtOrBelow(higher, x) >= p * Len(values)
  BY <1>2, <1>4 DEF Busier, Covers
<1>6. AtOrBelow(higher, x) <= AtOrBelow(values, x)
  BY <1>4, FewerAtOrBelow
<1>7. /\ AtOrBelow(higher, x) \in Int /\ AtOrBelow(values, x) \in Int
      /\ p * Len(values) \in Int
  BY <1>4, Counts
<1>8. Covers(values, p, x)
  BY <1>5, <1>6, <1>7 DEF Covers
<1>9. percentile(values, p) <= x
  BY <1>3, <1>4, <1>8
<1> QED
  BY <1>9 DEF x

LEMMA ExtremesMonotone ==
  ASSUME NEW values \in Seq(Nat), NEW higher \in Seq(Nat), Busier(values, higher),
         values # <<>>
  PROVE  /\ largest(values) <= largest(higher)
         /\ smallest(values) <= smallest(higher)
<1>1. higher # <<>> /\ DOMAIN higher = DOMAIN values
  BY DEF Busier
<1>2. \A i \in DOMAIN values : /\ values[i] <= higher[i]
                               /\ values[i] \in Nat /\ higher[i] \in Nat
  BY <1>1 DEF Busier
<1>3. /\ largest(values) \in Readings(values)
      /\ \A v \in Readings(values) : smallest(values) <= v
      /\ Readings(values) \in SUBSET Nat /\ smallest(values) \in Readings(values)
  BY Extremes
<1>4. /\ smallest(higher) \in Readings(higher)
      /\ \A v \in Readings(higher) : v <= largest(higher)
      /\ Readings(higher) \in SUBSET Nat /\ largest(higher) \in Readings(higher)
  BY <1>1, Extremes
<1>5. largest(values) <= largest(higher)
  <2>1. PICK i \in DOMAIN values : values[i] = largest(values)
    BY <1>3, ReadingsAre
  <2>2. higher[i] \in Readings(higher)
    BY <1>1, ReadingsAre
  <2>3. values[i] <= higher[i] /\ higher[i] <= largest(higher)
    BY <1>2, <1>4, <2>2
  <2>4. largest(higher) \in Nat /\ values[i] \in Nat /\ higher[i] \in Nat
    BY <1>2, <1>4
  <2> QED
    BY <2>1, <2>3, <2>4
<1>6. smallest(values) <= smallest(higher)
  <2>1. PICK i \in DOMAIN values : higher[i] = smallest(higher)
    BY <1>1, <1>4, ReadingsAre
  <2>2. values[i] \in Readings(values)
    BY ReadingsAre
  <2>3. values[i] <= higher[i] /\ smallest(values) <= values[i]
    BY <1>2, <1>3, <2>2
  <2>4. smallest(values) \in Nat /\ values[i] \in Nat /\ higher[i] \in Nat
    BY <1>2, <1>3
  <2> QED
    BY <2>1, <2>3, <2>4
<1> QED
  BY <1>5, <1>6

LEMMA AggregateMonotone ==
  ASSUME NEW values \in Seq(Nat), NEW higher \in Seq(Nat), Busier(values, higher),
         values # <<>>, NEW method \in Methods
  PROVE  AtMost(aggregate(values, method), aggregate(higher, method))
<1>1. higher # <<>> /\ Len(values) \in Nat /\ Len(higher) = Len(values)
  BY DEF Busier
<1>2. total(values) <= total(higher) /\ total(values) \in Nat /\ total(higher) \in Nat
  <2>1. values \in Seq(Int) /\ higher \in Seq(Int)
    OBVIOUS
  <2> QED
    BY <2>1, TotalMonotone, TotalNat DEF Busier
<1>3. CASE method = "avg"
  <2>1. total(values) * Len(values) <= total(higher) * Len(values)
    BY <1>1, <1>2, ProductMonotone
  <2> QED
    BY <1>1, <1>3, <2>1 DEF aggregate, mean, AtMost
<1>4. CASE method = "sum"
  BY <1>2, <1>4 DEF aggregate, Whole, AtMost
<1>5. ASSUME NEW a \in Nat, NEW b \in Nat, a <= b
      PROVE  AtMost(Whole(a), Whole(b))
  BY <1>5 DEF AtMost, Whole
<1>6. CASE method \in {"max", "min"}
  <2>1. /\ largest(values) \in Nat /\ largest(higher) \in Nat
        /\ smallest(values) \in Nat /\ smallest(higher) \in Nat
    BY <1>1, Extremes
  <2>2. /\ largest(values) <= largest(higher)
        /\ smallest(values) <= smallest(higher)
    BY ExtremesMonotone
  <2> QED
    BY <1>5, <1>6, <2>1, <2>2 DEF aggregate
<1>7. CASE method \in {"p95", "p99"}
  <2>1. \A p \in {95, 99} : /\ percentile(values, p) <= percentile(higher, p)
                            /\ percentile(values, p) \in Nat
                            /\ percentile(higher, p) \in Nat
    BY <1>1, PercentileMonotone, PercentileReached
  <2> QED
    BY <1>5, <1>7, <2>1 DEF aggregate
<1> QED
  BY <1>3, <1>4, <1>6, <1>7 DEF Methods

=============================================================================
