---------------------------- MODULE Instrumented ----------------------------
(***************************************************************************)
(* metrics.InstrumentedCollector (pkg/metrics): it passes every collection *)
(* to the collector it wraps and then sets the Prometheus gauges of each   *)
(* device in the result, one after another and under no lock, so that the  *)
(* goroutines of two gRPC requests may set them in any order.              *)
(*                                                                         *)
(* The collection itself, which holds the collector's mutex, is one step   *)
(* here (module GpuCollection has its parts).  The nine gauges of a device *)
(* are set side by side with the same labels; the model has one of them.   *)
(* The counters and the histogram are left out: nothing reads them.        *)
(***************************************************************************)
EXTENDS Integers

CONSTANTS
  Handlers,  \* goroutines that collect at the same time
  Chips,     \* GPUs: [index, uuid, name]
  Slices,    \* MIG instances: [index, uuid, name, chip]; index counts within the
             \* chip
  Calls,     \* which of GetUUID and GetName can succeed together: [uuid, name]
  Loads,     \* Loads[d]: what reading device d can give
  None       \* the empty label; a gauge that was never set

Devices == Chips \cup Slices

ASSUME InstrumentedAssumption ==
  /\ Calls \subseteq [uuid : BOOLEAN, name : BOOLEAN]
  /\ \A s \in Slices : s.chip \in Chips
  /\ \A d, e \in Devices : d.uuid = e.uuid => d = e
  /\ \A d \in Devices : None \notin Loads[d] /\ None \notin {d.uuid, d.name}

VARIABLES
  level,     \* level[d]: what reading device d would give now, a failed read's
             \* 0 included
  mig,       \* the chips in MIG mode
  pending,   \* pending[h]: what handler h has collected and not yet recorded
  gauges     \* gauges[l]: the value of the series with labels l, or None

vars == <<level, mig, pending, gauges>>

Values == UNION {Loads[d] : d \in Devices}

\* The labels gpu_index, gpu_uuid and gpu_name.
Labels == [index : {d.index : d \in Devices} \cup {0},
           uuid : {d.uuid : d \in Devices} \cup {None},
           name : {d.name : d \in Devices} \cup {None}]

\* The devices CollectAll finds.
Listed == (Chips \ mig) \cup {s \in Slices : s.chip \in mig}

Init ==
  /\ level \in [Devices -> Values] /\ \A d \in Devices : level[d] \in Loads[d]
  /\ mig \in SUBSET Chips
  /\ pending = [h \in Handlers |-> {}]
  /\ gauges = [l \in Labels |-> None]

\* The workload moves.
Fluctuate(d) ==
  /\ \E v \in Loads[d] : level' = [level EXCEPT ![d] = v]
  /\ UNCHANGED <<mig, pending, gauges>>

\* An administrator partitions a chip or makes it whole again.
Repartition(c) ==
  /\ mig' = IF c \in mig THEN mig \ {c} ELSE mig \cup {c}
  /\ UNCHANGED <<level, pending, gauges>>

-----------------------------------------------------------------------------

\* The gpu.Metrics of device d under index i; a failed GetUUID or GetName
\* leaves "".
Metrics(d, i, ok) ==
  [index |-> i,
   uuid |-> IF ok.uuid THEN d.uuid ELSE None,
   name |-> IF ok.name THEN d.name ELSE None,
   value |-> level[d]]

\* The wrapped collector has returned `all'.  An error is handed on and an
\* empty result records nothing; neither changes anything.
Collected(h, all) ==
  /\ pending[h] = {}
  /\ pending' = [pending EXCEPT ![h] = all]
  /\ UNCHANGED <<level, mig, gauges>>

\* Every device that could be read: failed ones are left out.
CollectAll(h) ==
  \E found \in SUBSET Listed : \E ok \in [found -> Calls] :
    Collected(h, {Metrics(d, d.index, ok[d]) : d \in found})

\* The chip as a whole, also while it is partitioned.
CollectDevice(h, c) ==
  \E ok \in Calls : Collected(h, {Metrics(c, c.index, ok)})

\* A MIG instance's own index is not known here: it is given 0.
CollectByUUID(h, d) ==
  /\ d \in Chips \cup Listed
  /\ \E ok \in Calls :
       Collected(h, {Metrics(d, IF d \in Slices THEN 0 ELSE d.index, ok)})

\* Mutant of LabelsOf: the UUID is not a label.
LabelsWithoutUUID(m) ==
  [index |-> m.index, uuid |-> CHOOSE u \in {d.uuid : d \in Devices} : TRUE,
   name |-> m.name]

LabelsOf(m) == [index |-> m.index, uuid |-> m.uuid, name |-> m.name]

\* Mutant of recordGauges: a series keeps the first value it was given.
RecordOnce(h) ==
  \E m \in pending[h] :
    /\ gauges' = [gauges EXCEPT ![LabelsOf(m)] = IF @ = None THEN m.value ELSE @]
    /\ pending' = [pending EXCEPT ![h] = @ \ {m}]
    /\ UNCHANGED <<level, mig>>

\* Handler h sets the gauges of one device.
recordGauges(h) ==
  \E m \in pending[h] :
    /\ gauges' = [gauges EXCEPT ![LabelsOf(m)] = m.value]
    /\ pending' = [pending EXCEPT ![h] = @ \ {m}]
    /\ UNCHANGED <<level, mig>>

Next ==
  \/ \E d \in Devices : Fluctuate(d)
  \/ \E c \in Chips : Repartition(c)
  \/ \E h \in Handlers : CollectAll(h) \/ recordGauges(h)
  \/ \E h \in Handlers, c \in Chips : CollectDevice(h, c)
  \/ \E h \in Handlers, d \in Devices : CollectByUUID(h, d)

Spec == Init /\ [][Next]_vars

\* A handler that has collected goes on to record.  Polls collect, and NVML
\* does not refuse a listed device, its UUID or its name for ever.
CollectsNamed(d) ==
  \E h \in Handlers : /\ CollectAll(h)
                      /\ \E m \in pending'[h] : m.uuid = d.uuid /\ m.name = d.name

FairSpec ==
  /\ Spec
  /\ \A h \in Handlers : WF_vars(recordGauges(h))
  /\ \A d \in Devices : SF_vars(CollectsNamed(d))

-----------------------------------------------------------------------------

\* A series with labels l may show the value v.
Shows(l, v) ==
  \E d \in Devices : /\ v \in Loads[d]
                     /\ l.uuid \in {d.uuid, None} /\ l.name \in {d.name, None}
                     /\ l.index = d.index \/ (d \in Slices /\ l.index = 0)

(***************************************************************************)
(* A series that names a device never shows another's reading, although    *)
(* the index of a MIG instance is that of its neighbour on the next chip   *)
(* or of a chip.  Without a UUID (GetUUID failed) it is a reading of a     *)
(* device that can have that index.                                        *)
(***************************************************************************)
OwnSeries == \A l \in Labels : gauges[l] # None => Shows(l, gauges[l])

(***************************************************************************)
(* The inductive invariant behind it: readings belong to their device from *)
(* the source through what a handler has collected into the series.        *)
(***************************************************************************)
Belonging ==
  /\ level \in [Devices -> Values] /\ \A d \in Devices : level[d] \in Loads[d]
  /\ DOMAIN pending = Handlers
  /\ \A h \in Handlers : \A m \in pending[h] : Shows(LabelsOf(m), m.value)
  /\ DOMAIN gauges = Labels
  /\ OwnSeries

(***************************************************************************)
(* The gauges of a device that is listed and whose reading settles settle  *)
(* on it: readings that a slow handler still holds do not stay behind as   *)
(* the last word (the Help texts call the gauges "Current").  Nothing is   *)
(* said of a device that has gone: its series stays as it was.             *)
(***************************************************************************)
GaugesFollow ==
  \A d \in Devices : \A v \in Loads[d] :
    <>[](d \in Listed /\ level[d] = v) =>
      <>[](gauges[[index |-> d.index, uuid |-> d.uuid, name |-> d.name]] = v)
=============================================================================
