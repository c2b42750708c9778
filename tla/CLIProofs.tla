------------------------------ MODULE CLIProofs -----------------------------
(***************************************************************************)
(* Theorems about GpuMetricsCLI, for any set of jobs and lists of any      *)
(* length: what is collected and printed is what the job was given.        *)
(***************************************************************************)
EXTENDS GpuMetricsCLI, WellFoundedInduction, TLAPS

-----------------------------------------------------------------------------
(* The lists *)

\* A set of numbers has a least one.
LEMMA Least ==
  ASSUME NEW S \in SUBSET Nat, S # {}
  PROVE  \E m \in S : \A n \in S : m <= n
<1>1. PICK m \in S : \A n \in S : ~(<<n, m>> \in OpToRel(<, Nat))
  BY NatLessThanWellFounded, WFMin
<1>2. ASSUME NEW n \in S PROVE m <= n
  <2>1. <<n, m>> \in Nat \X Nat /\ ~(<<n, m>> \in OpToRel(<, Nat))
    BY <1>1
  <2>2. ~(n < m)
    BY <2>1 DEF OpToRel
  <2> QED
    BY <2>2
<1> QED
  BY <1>2

LEMMA AppendSet ==
  ASSUME NEW S, NEW s \in Seq(S), NEW e \in S
  PROVE  ToSet(Append(s, e)) = ToSet(s) \cup {e}
<1>1. /\ DOMAIN Append(s, e) = 1..(Len(s) + 1) /\ DOMAIN s = 1..Len(s)
      /\ Len(s) \in Nat
      /\ Append(s, e)[Len(s) + 1] = e
      /\ \A i \in 1..Len(s) : Append(s, e)[i] = s[i]
  OBVIOUS
<1>2. \A i \in 1..(Len(s) + 1) : i \in 1..Len(s) \/ i = Len(s) + 1
  BY <1>1
<1>3. 1..Len(s) \subseteq 1..(Len(s) + 1) /\ Len(s) + 1 \in 1..(Len(s) + 1)
  BY <1>1
<1>4. \A x \in ToSet(Append(s, e)) : x \in ToSet(s) \cup {e}
  BY <1>1, <1>2 DEF ToSet
<1>5. \A x \in ToSet(s) \cup {e} : x \in ToSet(Append(s, e))
  BY <1>1, <1>3 DEF ToSet
<1> QED
  BY <1>4, <1>5

\* The loop of OfKind after n entries, as a function of n.
Loop(list, kind, first, m) ==
  first = [n \in 0..m |->
            IF n = 0 THEN <<>>
            ELSE IF list[n][1] = kind THEN Append(first[n - 1], list[n])
            ELSE first[n - 1]]

LEMMA LoopStep ==
  ASSUME NEW list, NEW kind, NEW first, NEW m \in Nat, Loop(list, kind, first, m),
         NEW n \in 0..m
  PROVE  first[n] = IF n = 0 THEN <<>>
                    ELSE IF list[n][1] = kind THEN Append(first[n - 1], list[n])
                    ELSE first[n - 1]
<1> DEFINE entry(k) == IF k = 0 THEN <<>>
                       ELSE IF list[k][1] = kind THEN Append(first[k - 1], list[k])
                       ELSE first[k - 1]
           loop == [k \in 0..m |-> entry(k)]
<1>1. first = loop
  BY DEF Loop
<1> HIDE DEF entry
<1>2. loop[n] = entry(n)
  OBVIOUS
<1> HIDE DEF loop
<1>3. first[n] = entry(n)
  BY <1>1, <1>2
<1> QED
  BY <1>3 DEF entry

LEMMA LoopExists ==
  ASSUME NEW list, NEW kind, NEW m \in Nat
  PROVE  \E first : Loop(list, kind, first, m)
<1> DEFINE Bad == {n \in Nat : ~ \E first : Loop(list, kind, first, n)}
<1>1. SUFFICES ASSUME Bad # {} PROVE FALSE
  OBVIOUS
<1>2. PICK n \in Bad : \A k \in Bad : n <= k
  BY <1>1, Least
<1>3. n # 0
  <2>1. Loop(list, kind, [k \in 0..0 |-> <<>>], 0)
    BY DEF Loop
  <2> QED
    BY <2>1
<1>4. n \in Nat /\ n - 1 \in Nat /\ n - 1 \notin Bad
  BY <1>2, <1>3
<1>5. PICK first : Loop(list, kind, first, n - 1)
  BY <1>4
<1> DEFINE last == IF list[n][1] = kind THEN Append(first[n - 1], list[n])
                   ELSE first[n - 1]
           next == [k \in 0..n |-> IF k < n THEN first[k] ELSE last]
<1>6. ASSUME NEW k \in 0..n
      PROVE  next[k] = IF k = 0 THEN <<>>
                       ELSE IF list[k][1] = kind THEN Append(next[k - 1], list[k])
                       ELSE next[k - 1]
  <2>1. CASE k = n
    BY <2>1, <1>4, <1>3
  <2>2. CASE k # n
    <3>1. k \in 0..(n - 1) /\ k < n
      BY <2>2, <1>4
    <3>2. k # 0 => k - 1 \in 0..n /\ k - 1 < n
      BY <3>1, <1>4
    <3> QED
      BY <3>1, <3>2, <1>5 DEF Loop
  <2> QED
    BY <2>1, <2>2
<1>7. Loop(list, kind, next, n)
  BY <1>6 DEF Loop
<1> QED
  BY <1>7

LEMMA LoopResult ==
  ASSUME NEW S, NEW list \in Seq(S), NEW kind, NEW first,
         Loop(list, kind, first, Len(list)), NEW m \in 0..Len(list)
  PROVE  /\ first[m] \in Seq(S)
         /\ ToSet(first[m]) = {e \in {list[i] : i \in 1..m} : e[1] = kind}
<1> DEFINE Right(n) == /\ first[n] \in Seq(S)
                       /\ ToSet(first[n]) = {e \in {list[i] : i \in 1..n} : e[1] = kind}
           Bad == {n \in 0..Len(list) : ~ Right(n)}
<1>1. SUFFICES ASSUME Bad # {} PROVE FALSE
  OBVIOUS
<1>2. PICK n \in Bad : \A k \in Bad : n <= k
  <2>1. Bad \in SUBSET Nat
    OBVIOUS
  <2> HIDE DEF Bad
  <2> QED
    BY <1>1, <2>1, Least
<1>3. n # 0
  <2>1. first[0] = <<>>
    BY DEF Loop
  <2>2. Right(0)
    BY <2>1 DEF ToSet
  <2> QED
    BY <2>2
<1>4. n \in 1..Len(list) /\ n - 1 \in 0..Len(list) /\ Right(n - 1)
  <2>1. /\ n \in 1..Len(list) /\ n - 1 \in 0..Len(list)
        /\ ~(n <= n - 1) /\ n - 1 \notin Bad
    <3> HIDE DEF Right
    <3> QED
      BY <1>2, <1>3
  <2> HIDE DEF Right
  <2> QED
    BY <2>1
<1>9. first[n] = IF list[n][1] = kind THEN Append(first[n - 1], list[n])
                 ELSE first[n - 1]
  <2>1. n \in 0..Len(list) /\ n # 0 /\ Len(list) \in Nat
    BY <1>4
  <2> QED
    BY <2>1, LoopStep
<1>10. ~Right(n)
  <2> HIDE DEF Right
  <2> QED
    BY <1>2
<1>5. list[n] \in S
  BY <1>4
<1>6. {list[i] : i \in 1..n} = {list[i] : i \in 1..(n - 1)} \cup {list[n]}
  BY <1>4
<1>7. CASE list[n][1] = kind
  <2>1. first[n] = Append(first[n - 1], list[n])
    BY <1>9, <1>7
  <2>2. first[n] \in Seq(S)
    BY <2>1, <1>4, <1>5
  <2>3. ToSet(first[n]) = ToSet(first[n - 1]) \cup {list[n]}
    BY <2>1, <1>4, <1>5, AppendSet
  <2> QED
    BY <2>2, <2>3, <1>10, <1>4, <1>6, <1>7
<1>8. CASE list[n][1] # kind
  <2>1. first[n] = first[n - 1]
    BY <1>9, <1>8
  <2> QED
    BY <2>1, <1>10, <1>4, <1>6, <1>8
<1> QED
  BY <1>7, <1>8

LEMMA OfKindResult ==
  ASSUME NEW S, NEW list \in Seq(S), NEW kind
  PROVE  /\ OfKind(list, kind) \in Seq(S)
         /\ ToSet(OfKind(list, kind)) = {e \in ToSet(list) : e[1] = kind}
<1> DEFINE first == CHOOSE first : Loop(list, kind, first, Len(list))
<1>1. Loop(list, kind, first, Len(list))
  <2>1. \E f : Loop(list, kind, f, Len(list))
    <3>1. Len(list) \in Nat
      OBVIOUS
    <3> QED
      BY <3>1, LoopExists
  <2> QED
    BY <2>1
<1>2. OfKind(list, kind) = first[Len(list)]
  BY DEF OfKind, Loop
<1>3. ToSet(list) = {list[i] : i \in 1..Len(list)}
  BY DEF ToSet
<1>4. Len(list) \in 0..Len(list)
  OBVIOUS
<1> HIDE DEF first
<1>5. /\ first[Len(list)] \in Seq(S)
      /\ ToSet(first[Len(list)]) = {e \in {list[i] : i \in 1..Len(list)} : e[1] = kind}
  BY <1>1, <1>4, LoopResult
<1> QED
  BY <1>2, <1>3, <1>5

-----------------------------------------------------------------------------
(* The plan of a job *)

Given == Seq(Kinds \X Nat)

LEMMA FirstSetResult ==
  ASSUME NEW j \in Jobs, NEW names \in Seq(Lists)
  PROVE  /\ FirstSet(j, names) \in Given
         /\ names # <<>> /\ j.gpus[names[1]] # <<>> =>
              FirstSet(j, names) = j.gpus[names[1]]
<1> DEFINE given == {i \in DOMAIN names : j.gpus[names[i]] # <<>>}
<1>1. /\ j.gpus \in [Lists -> Given] /\ <<>> \in Given
      /\ DOMAIN names = 1..Len(names) /\ Len(names) \in Nat
      /\ \A i \in DOMAIN names : names[i] \in Lists
  BY GpuMetricsAssumption DEF Given
<1>2. given \subseteq DOMAIN names /\ given \in SUBSET Nat
  BY <1>1
<1>3. names # <<>> /\ j.gpus[names[1]] # <<>> => 1 \in given
  BY <1>1
<1>4. \A n \in given : 1 <= n
  BY <1>1
<1>5. FirstSet(j, names) = IF given = {} THEN <<>> ELSE j.gpus[names[Min(given)]]
  BY DEF FirstSet
<1> HIDE DEF given
<1>6. CASE given = {}
  BY <1>1, <1>3, <1>5, <1>6
<1>7. CASE given # {}
  <2>1. \E m \in given : \A n \in given : m <= n
    BY <1>2, <1>7, Least
  <2>2. Min(given) \in given /\ \A n \in given : Min(given) <= n
    BY <2>1 DEF Min
  <2>3. 1 \in given => Min(given) = 1
    BY <1>2, <1>4, <2>2
  <2> QED
    BY <1>1, <1>2, <1>3, <1>5, <1>7, <2>2, <2>3
<1> QED
  BY <1>6, <1>7

LEMMA GPUsGiven ==
  ASSUME NEW j \in Jobs
  PROVE  /\ GPUs(j) \in Given
         /\ Parse(j) = "slurm" /\ j.gpus["SLURM_STEP_GPUS"] # <<>> =>
              GPUs(j) = j.gpus["SLURM_STEP_GPUS"]
<1> DEFINE names == <<"SLURM_STEP_GPUS", "SLURM_JOB_GPUS", "GPU_DEVICE_ORDINAL",
                      "CUDA_VISIBLE_DEVICES">>
<1>1. names \in Seq(Lists) /\ names # <<>> /\ names[1] = "SLURM_STEP_GPUS"
  BY DEF Lists
<1>2. slurmGPUs(j) = FirstSet(j, names)
  BY DEF slurmGPUs
<1> HIDE DEF names
<1>3. /\ slurmGPUs(j) \in Given
      /\ j.gpus["SLURM_STEP_GPUS"] # <<>> => slurmGPUs(j) = j.gpus["SLURM_STEP_GPUS"]
  BY <1>1, <1>2, FirstSetResult
<1>4. fluxGPUs(j) \in Given /\ <<>> \in Given
  BY GpuMetricsAssumption DEF fluxGPUs, Given, Lists
<1> QED
  BY <1>3, <1>4 DEF GPUs

LEMMA PlanTyped ==
  ASSUME NEW j \in Jobs
  PROVE  Plan(j) \in Seq(Entries) /\ describeDeviceFilter(j) \in Seq(Entries)
<1>1. GPUs(j) \in Seq(Entries)
  <2>1. GPUs(j) \in Given /\ Kinds \X Nat \subseteq Entries
    BY GPUsGiven DEF Entries
  <2> QED
    BY <2>1 DEF Given
<1>2. VisibleDevices(j) \in Seq(Entries) /\ MIGUUIDs(j) \in Seq(Entries)
  BY <1>1, OfKindResult DEF VisibleDevices, MIGUUIDs
<1>3. All \in Entries /\ <<All>> \in Seq(Entries)
  BY DEF All, Entries
<1>4. j.device >= 0 => <<<<"index", j.device>>>> \in Seq(Entries)
  BY GpuMetricsAssumption DEF Entries, Kinds
<1> QED
  BY <1>2, <1>3, <1>4 DEF Plan, describeDeviceFilter

\* In a job step with a list the plan stays within the list.
LEMMA PlanOfStep ==
  ASSUME NEW j \in Jobs, InStep(j)
  PROVE  ToSet(Plan(j)) \subseteq ToSet(j.gpus["SLURM_STEP_GPUS"])
<1> DEFINE list == j.gpus["SLURM_STEP_GPUS"]
<1>1. /\ list \in Given /\ j.device = -1 /\ Parse(j) = "slurm"
      /\ \E e \in ToSet(list) : e[1] \in {"index", "MIG"}
  BY GpuMetricsAssumption DEF InStep, Parse, Detect, Given, Lists
<1>2. list # <<>>
  BY <1>1 DEF ToSet
<1>3. GPUs(j) = list
  BY <1>1, <1>2, GPUsGiven
<1> HIDE DEF list
<1>4. /\ ToSet(MIGUUIDs(j)) = {e \in ToSet(list) : e[1] = "MIG"}
      /\ ToSet(VisibleDevices(j)) = {e \in ToSet(list) : e[1] = "index"}
  BY <1>1, <1>3, OfKindResult DEF MIGUUIDs, VisibleDevices, Given
<1>5. MIGUUIDs(j) # <<>> \/ VisibleDevices(j) # <<>>
  <2>1. ToSet(<<>>) = {}
    BY DEF ToSet
  <2> QED
    BY <1>1, <1>4, <2>1
<1>6. Plan(j) = MIGUUIDs(j) \/ Plan(j) = VisibleDevices(j)
  BY <1>1, <1>5 DEF Plan
<1> QED
  BY <1>4, <1>6 DEF list

-----------------------------------------------------------------------------
(* Rounds *)

\* One entry goes from the front of the plan's rest to the end of the sample.
LEMMA OneMore ==
  ASSUME NEW s \in Seq(Entries), NEW t \in Seq(Entries), t # <<>>
  PROVE  /\ Append(s, Head(t)) \in Seq(Entries) /\ Tail(t) \in Seq(Entries)
         /\ Head(t) \in ToSet(s \o t)
         /\ Append(s, Head(t)) \o Tail(t) = s \o t
         /\ ToSet(Append(s, Head(t))) = ToSet(s) \cup {Head(t)}
<1>1. /\ Append(s, Head(t)) \in Seq(Entries) /\ Tail(t) \in Seq(Entries)
      /\ Head(t) \in Entries
  OBVIOUS
<1>2. Append(s, Head(t)) \o Tail(t) = s \o t
  OBVIOUS
<1>3. Head(t) \in ToSet(s \o t)
  <2>1. (s \o t)[Len(s) + 1] = Head(t) /\ Len(s) + 1 \in DOMAIN (s \o t)
    OBVIOUS
  <2> QED
    BY <2>1 DEF ToSet
<1> QED
  BY <1>1, <1>2, <1>3, AppendSet

LEMMA TypeInit == Init => TypeOK
<1>1. /\ <<>> \in Seq(Entries)
      /\ [sent |-> 0, pending |-> 0] \in [sent : 0..MaxSignals, pending : 0..1]
  BY GpuMetricsAssumption
<1> QED
  BY <1>1 DEF Init, TypeOK, Nothing

LEMMA TypeNext == TypeOK /\ [Next]_vars => TypeOK'
<1> SUFFICES ASSUME TypeOK, [Next]_vars PROVE TypeOK'
  OBVIOUS
<1> USE DEF TypeOK
<1>1. CASE printDryRun
  BY <1>1, PlanTyped DEF printDryRun
<1>2. CASE Start
  BY <1>2 DEF Start
<1>3. CASE BeginRound
  BY <1>3, PlanTyped DEF BeginRound
<1>4. CASE CollectNext
  BY <1>4, OneMore DEF CollectNext
<1>5. CASE CollectFails
  BY <1>5 DEF CollectFails, AfterRound
<1>6. CASE Output
  BY <1>6 DEF Output, AfterRound
<1>7. CASE Ticks \/ TakeTick
  BY <1>7 DEF Ticks, TakeTick
<1>8. CASE TakeSignal
  <2>1. signals' = [signals EXCEPT !.pending = 0]
    BY <1>8 DEF TakeSignal
  <2>2. signals' \in [sent : 0..MaxSignals, pending : 0..1]
    BY <2>1
  <2> QED
    BY <1>8, <2>2 DEF TakeSignal
<1>9. CASE Signal
  <2>1. signals.sent + 1 \in 0..MaxSignals
    BY <1>9, GpuMetricsAssumption DEF Signal
  <2>2. \/ signals' = [sent |-> signals.sent + 1, pending |-> 1]
        \/ signals' = [signals EXCEPT !.sent = signals.sent + 1]
    BY <1>9 DEF Signal
  <2>3. signals' \in [sent : 0..MaxSignals, pending : 0..1]
    BY <2>1, <2>2
  <2> QED
    BY <1>9, <2>3 DEF Signal
<1>10. CASE UNCHANGED vars
  BY <1>10 DEF vars
<1> QED
  BY <1>1, <1>2, <1>3, <1>4, <1>5, <1>6, <1>7, <1>8, <1>9, <1>10 DEF Next, Main

\* Steps that leave the round and what is printed alone.
LEMMA OnPlanStays ==
  ASSUME OnPlan, UNCHANGED <<job, sample, printed>>,
         pc' = "collect" => pc = "collect" /\ todo' = todo
  PROVE  OnPlan'
BY DEF OnPlan

LEMMA OnPlanInit == Init => OnPlan
<1>1. ToSet(<<>>) = {}
  BY DEF ToSet
<1> QED
  BY <1>1 DEF Init, OnPlan, Nothing

LEMMA OnPlanNext == TypeOK /\ OnPlan /\ [Next]_vars => OnPlan'
<1> SUFFICES ASSUME TypeOK, OnPlan, [Next]_vars PROVE OnPlan'
  OBVIOUS
<1>1. CASE printDryRun
  BY <1>1 DEF printDryRun, OnPlan
<1>2. CASE Start
  BY <1>2, OnPlanStays DEF Start
<1>3. CASE BeginRound
  <2>1. <<>> \o Plan(job) = Plan(job)
    BY PlanTyped DEF TypeOK
  <2>2. ToSet(<<>>) = {}
    BY DEF ToSet
  <2> QED
    BY <1>3, <2>1, <2>2 DEF BeginRound, OnPlan
<1>4. CASE CollectNext
  <2>1. /\ sample' \o todo' = Plan(job)
        /\ ToSet(sample') = ToSet(sample) \cup {Head(todo)}
        /\ Head(todo) \in ToSet(Plan(job))
    BY <1>4, OneMore DEF CollectNext, OnPlan, TypeOK
  <2> QED
    BY <1>4, <2>1 DEF CollectNext, OnPlan
<1>5. CASE CollectFails
  BY <1>5, OnPlanStays DEF CollectFails, AfterRound
<1>6. CASE Output
  <2>1. sample = Plan(job)
    <3>1. sample \o <<>> = sample
      BY DEF TypeOK
    <3> QED
      BY <1>6, <3>1 DEF Output, OnPlan
  <2> QED
    BY <1>6, <2>1 DEF Output, AfterRound, OnPlan
<1>7. CASE Ticks \/ TakeTick \/ TakeSignal \/ Signal
  BY <1>7, OnPlanStays DEF Ticks, TakeTick, TakeSignal, Signal
<1>8. CASE UNCHANGED vars
  BY <1>8, OnPlanStays DEF vars
<1> QED
  BY <1>1, <1>2, <1>3, <1>4, <1>5, <1>6, <1>7, <1>8 DEF Next, Main

-----------------------------------------------------------------------------
(* The theorems *)

(***************************************************************************)
(* The command's state is well-formed: sigCh never holds a second signal,  *)
(* and every entry that is planned, collected or printed is one that       *)
(* collect can ask for.                                                    *)
(***************************************************************************)
THEOREM TypeCorrect == Spec => []TypeOK
BY TypeInit, TypeNext, PTL DEF Spec

LEMMA RoundInvariant == Spec => [](TypeOK /\ OnPlan)
BY TypeInit, TypeNext, OnPlanInit, OnPlanNext, PTL DEF Spec

(***************************************************************************)
(* What is printed is the whole selection of the job and nothing else,     *)
(* whatever failed before: a failed round prints nothing, and no entry of  *)
(* an earlier round gets into a later one.                                 *)
(***************************************************************************)
THEOREM WholeSelectionPrinted == Spec => []PrintedAsDescribed
<1>1. TypeOK /\ OnPlan => PrintedAsDescribed
  BY GpuMetricsAssumption DEF TypeOK, OnPlan, PrintedAsDescribed, Plan,
     describeDeviceFilter
<1> QED
  BY <1>1, RoundInvariant, PTL

(***************************************************************************)
(* In a SLURM job step with a list of its own that names an index or a MIG *)
(* instance, nothing outside that list is collected.                       *)
(***************************************************************************)
THEOREM OnlyTheStepsGPUs == Spec => []OnlyAssigned
<1>1. TypeOK /\ OnPlan => OnlyAssigned
  BY PlanOfStep DEF TypeOK, OnPlan, OnlyAssigned
<1> QED
  BY <1>1, RoundInvariant, PTL
=============================================================================
