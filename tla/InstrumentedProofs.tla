------------------------- MODULE InstrumentedProofs -------------------------
(***************************************************************************)
(* Theorem about Instrumented, for any number of goroutines, chips and MIG *)
(* instances: a series shows its own device.                               *)
(***************************************************************************)
EXTENDS Instrumented, TLAPS

\* What a collection returns belongs to the devices it names.
LEMMA MetricsShow ==
  ASSUME Belonging, NEW d \in Devices, NEW i, NEW ok,
         i = d.index \/ (d \in Slices /\ i = 0)
  PROVE  LET m == Metrics(d, i, ok) IN Shows(LabelsOf(m), m.value)
BY DEF Belonging, Metrics, LabelsOf, Shows

LEMMA ListedDevices == Listed \subseteq Devices
BY DEF Listed, Devices

LEMMA CollectedBelongs ==
  ASSUME Belonging, NEW h \in Handlers, NEW all, Collected(h, all),
         \A m \in all : Shows(LabelsOf(m), m.value)
  PROVE  Belonging'
<1>1. \A g \in Handlers : \A m \in pending'[g] : Shows(LabelsOf(m), m.value)
  BY DEF Belonging, Collected
<1> QED
  BY <1>1 DEF Belonging, Collected, OwnSeries, Shows, LabelsOf

LEMMA BelongingInit == Init => Belonging
BY DEF Init, Belonging, OwnSeries

LEMMA BelongingNext == Belonging /\ [Next]_vars => Belonging'
<1> SUFFICES ASSUME Belonging, [Next]_vars PROVE Belonging'
  OBVIOUS
<1>1. ASSUME NEW d \in Devices, Fluctuate(d) PROVE Belonging'
  BY <1>1 DEF Fluctuate, Belonging, Values, OwnSeries, Shows, LabelsOf
<1>2. ASSUME NEW c \in Chips, Repartition(c) PROVE Belonging'
  BY <1>2 DEF Repartition, Belonging, OwnSeries, Shows, LabelsOf
<1>3. ASSUME NEW h \in Handlers, CollectAll(h) PROVE Belonging'
  <2>1. PICK found \in SUBSET Listed : \E ok \in [found -> Calls] :
          Collected(h, {Metrics(d, d.index, ok[d]) : d \in found})
    BY <1>3 DEF CollectAll
  <2>2. PICK ok \in [found -> Calls] :
          Collected(h, {Metrics(d, d.index, ok[d]) : d \in found})
    BY <2>1
  <2>3. \A m \in {Metrics(d, d.index, ok[d]) : d \in found} :
          Shows(LabelsOf(m), m.value)
    BY ListedDevices, MetricsShow
  <2> QED
    BY <2>2, <2>3, CollectedBelongs
<1>4. ASSUME NEW h \in Handlers, NEW c \in Chips, CollectDevice(h, c) PROVE Belonging'
  <2>1. PICK ok \in Calls : Collected(h, {Metrics(c, c.index, ok)})
    BY <1>4 DEF CollectDevice
  <2>2. \A m \in {Metrics(c, c.index, ok)} : Shows(LabelsOf(m), m.value)
    BY MetricsShow DEF Devices
  <2> QED
    BY <2>1, <2>2, CollectedBelongs
<1>5. ASSUME NEW h \in Handlers, NEW d \in Devices, CollectByUUID(h, d) PROVE Belonging'
  <2> DEFINE i == IF d \in Slices THEN 0 ELSE d.index
  <2>1. PICK ok \in Calls : Collected(h, {Metrics(d, i, ok)})
    BY <1>5 DEF CollectByUUID
  <2>2. \A m \in {Metrics(d, i, ok)} : Shows(LabelsOf(m), m.value)
    BY MetricsShow
  <2> QED
    BY <2>1, <2>2, CollectedBelongs
<1>6. ASSUME NEW h \in Handlers, recordGauges(h) PROVE Belonging'
  <2>1. PICK m \in pending[h] :
          /\ gauges' = [gauges EXCEPT ![LabelsOf(m)] = m.value]
          /\ pending' = [pending EXCEPT ![h] = @ \ {m}]
          /\ UNCHANGED <<level, mig>>
    BY <1>6 DEF recordGauges
  <2>2. Shows(LabelsOf(m), m.value)
    BY DEF Belonging
  <2>3. \A l \in Labels : gauges'[l] # None => Shows(l, gauges'[l])
    BY <2>1, <2>2 DEF Belonging, OwnSeries
  <2>4. \A g \in Handlers : \A n \in pending'[g] : Shows(LabelsOf(n), n.value)
    BY <2>1 DEF Belonging
  <2> QED
    BY <2>1, <2>3, <2>4 DEF Belonging, OwnSeries, Shows, LabelsOf
<1>7. CASE UNCHANGED vars
  BY <1>7 DEF vars, Belonging, OwnSeries, Shows, LabelsOf
<1> QED
  BY <1>1, <1>2, <1>3, <1>4, <1>5, <1>6, <1>7 DEF Next

(***************************************************************************)
(* No interleaving of goroutines and no change of the partitioning makes a *)
(* series show the reading of another device.                              *)
(***************************************************************************)
THEOREM SeriesAreOwn == Spec => []OwnSeries
<1>1. Belonging => OwnSeries
  BY DEF Belonging
<1> QED
  BY <1>1, BelongingInit, BelongingNext, PTL DEF Spec
=============================================================================
