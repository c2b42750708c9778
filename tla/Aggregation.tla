---------------------------- MODULE Aggregation -----------------------------
(***************************************************************************)
(* aggregate and percentile (pkg/scaler/server.go): how the readings of    *)
(* all GPUs of a node become the one number KEDA sees.                     *)
(*                                                                         *)
(* Readings come from NVML as unsigned integers, so no NaN or sign needs   *)
(* care.  A result is a fraction [num, den]; only "avg" has den # 1.       *)
(***************************************************************************)
EXTENDS Integers, Sequences, FiniteSetsExt, SequencesExt

Methods == {"max", "min", "avg", "sum", "p95", "p99"}

Readings(values) == ToSet(values)

Whole(v) == [num |-> v, den |-> 1]

\* How many of the readings are at most v, and how many are less.
AtOrBelow(values, v) == Cardinality({i \in DOMAIN values : values[i] <= v})
Below(values, v) == Cardinality({i \in DOMAIN values : values[i] < v})

\* sort.Float64s on a copy of the slice: the k-th place has the reading that
\* fewer than k readings are below and at least k do not exceed.
sorted(values) ==
  [k \in DOMAIN values |->
     CHOOSE v \in Readings(values) :
       Below(values, v) < k /\ k <= AtOrBelow(values, v)]

\* Mutant of rank: truncation where the code rounds up.
RankTruncated(n, p) == (p * n) \div 100 - 1

(***************************************************************************)
(* int(math.Ceil(p*n)) - 1, with p in percent.  In float64 0.95*n and      *)
(* 0.99*n round up like the exact products for every n a node can have     *)
(* (they do up to n = 3000).                                               *)
(***************************************************************************)
rank(n, p) == (p * n + 99) \div 100 - 1

\* The rank, clamped to the slice, from which an index starting at 0 reads.
percentile(values, p) ==
  LET n == Len(values) IN
  IF rank(n, p) < 0 THEN sorted(values)[1]
  ELSE IF rank(n, p) >= n THEN sorted(values)[n]
  ELSE sorted(values)[rank(n, p) + 1]

\* for _, v := range values { total += v }
total(values) ==
  LET upTo[n \in 0..Len(values)] ==
        IF n = 0 THEN 0 ELSE upTo[n - 1] + values[n]
  IN upTo[Len(values)]

\* Mutant of mean: idle GPUs are not counted.
MeanOfBusy(values) ==
  [num |-> total(values), den |-> Len(SelectSeq(values, LAMBDA v : v > 0))]

mean(values) == [num |-> total(values), den |-> Len(values)]

\* max := values[0]; for _, v := range values[1:] { if v > max { max = v } }
largest(values) ==
  LET upTo[n \in 1..Len(values)] ==
        IF n = 1 THEN values[1]
        ELSE IF values[n] > upTo[n - 1] THEN values[n] ELSE upTo[n - 1]
  IN upTo[Len(values)]

\* The same loop with v < min.
smallest(values) ==
  LET upTo[n \in 1..Len(values)] ==
        IF n = 1 THEN values[1]
        ELSE IF values[n] < upTo[n - 1] THEN values[n] ELSE upTo[n - 1]
  IN upTo[Len(values)]

\* Defined for at least one reading: getMetricValue fails on none, and
\* parseMetadata lets no other method through.
aggregate(values, method) ==
  CASE method = "max" -> Whole(largest(values))
    [] method = "min" -> Whole(smallest(values))
    [] method = "avg" -> mean(values)
    [] method = "sum" -> Whole(total(values))
    [] method = "p95" -> Whole(percentile(values, 95))
    [] method = "p99" -> Whole(percentile(values, 99))

\* a <= b on fractions.
AtMost(a, b) == a.num * b.den <= b.num * a.den
=============================================================================
