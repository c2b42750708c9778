--------------------------- MODULE GpuCollection ----------------------------
(***************************************************************************)
(* getMetricValue on the NVML path: Collector.CollectAll and CollectDevice *)
(* with the MIG loop (pkg/gpu/nvml.go, pkg/gpu/mig.go), then aggregate     *)
(* over what they return (pkg/scaler/server.go); and CollectByUUID, which  *)
(* gpu-metrics calls for the MIG instances of a job.                       *)
(*                                                                         *)
(* A collection is a sequence of NVML calls under the collector's mutex.   *)
(* Each of them may fail, and the workload moves between them.  Of the     *)
(* fields of a gpu.Metrics the model keeps the one the request asks for,   *)
(* which is either read from each MIG instance (utilization; memory is     *)
(* like it, except that a chip in MIG mode has it as well) or read once    *)
(* from the chip and copied (temperature, power, PCIe, NVLink).            *)
(***************************************************************************)
EXTENDS Aggregation

CONSTANTS
  Handlers,   \* goroutines that run getMetricValue or CollectByUUID
  NumGPUs,    \* nvml.DeviceGetCount
  MIG,        \* MIG[g]: compute instances of GPU g, for the MIG-enabled ones
  MaxLoad,    \* bound on readings
  Requests,   \* what is asked for: [gpuIndex, aggregation, chipLevel, uuid]
  Faults,     \* NVML calls that can fail: "count", "handle", "mode",
              \* "instance", "read"
  None

GPUs == 0..(NumGPUs - 1)

ASSUME GpuCollectionAssumption ==
  /\ NumGPUs \in Nat /\ MaxLoad \in Nat
  /\ DOMAIN MIG \subseteq GPUs /\ \A g \in DOMAIN MIG : MIG[g] \in Nat
  /\ \A r \in Requests : /\ r.gpuIndex \in Nat \cup {-1}
                       /\ r.aggregation \in Methods
                       /\ r.chipLevel \in BOOLEAN
                       /\ r.uuid \in {None} \cup (GPUs \X Int)
  /\ None \notin Handlers

VARIABLES
  load,    \* load[p]: what a successful read of place p would return now
  mu,      \* the handler that holds c.mu, or None
  call,    \* call[h]: the getMetricValue call of handler h
  seen,    \* history: loads of the places h is asked for since it took the mutex
  missed,  \* history: places hidden from h by a failed call of their own
  answer   \* answer[h]: the result of h's last call, until the next one starts

vars == <<load, mu, call, seen, missed, answer>>

Chip == -1

\* A place is a GPU as a whole or one of its MIG instances.
Instances(g) == {<<g, i>> : i \in 0..(MIG[g] - 1)}
Units(g) == IF g \in DOMAIN MIG THEN Instances(g) ELSE {<<g, Chip>>}
AllUnits == UNION {Units(g) : g \in GPUs}
Places == AllUnits \cup {<<g, Chip>> : g \in GPUs}

\* Where NVML has the metric that request r asks for.
Measured(r) == IF r.chipLevel THEN {<<g, Chip>> : g \in GPUs} ELSE AllUnits

\* The places whose loads an answer to request r may stand for.
AskedFor(r) ==
  IF r.uuid # None
    THEN {p \in Measured(r) : IF r.chipLevel THEN p[1] = r.uuid[1] ELSE p = r.uuid}
  ELSE IF r.gpuIndex >= 0 THEN Measured(r) \cap {<<r.gpuIndex, Chip>>}
  ELSE Measured(r)

Idle == [pc |-> "idle"]
Failed == [kind |-> "error"]

Init ==
  /\ load \in [Places -> 0..MaxLoad]
  /\ mu = None
  /\ call = [h \in Handlers |-> Idle]
  /\ seen = [h \in Handlers |-> {}]
  /\ missed = [h \in Handlers |-> {}]
  /\ answer = [h \in Handlers |-> Failed]

\* Handler h is collecting the metric that place p has.
Watches(h, p) ==
  mu = h /\ call[h] # Idle /\ p \in AskedFor(call[h].request)

\* The workload moves.
Fluctuate(p, v) ==
  /\ v # load[p]
  /\ load' = [load EXCEPT ![p] = v]
  /\ seen' = [h \in Handlers |-> IF Watches(h, p) THEN seen[h] \cup {v} ELSE seen[h]]
  /\ UNCHANGED <<mu, call, missed, answer>>

-----------------------------------------------------------------------------

\* A request for an NVML metric reaches getMetricValue, or CollectByUUID is
\* called for the place r.uuid (None when the request has no UUID).
getMetricValue(h, r) ==
  /\ call[h] = Idle
  /\ call' = [call EXCEPT ![h] = [pc |-> "lock", request |-> r]]
  /\ answer' = [answer EXCEPT ![h] = Failed]
  /\ UNCHANGED <<load, mu, seen, missed>>

\* c.mu.Lock() of CollectAll, CollectDevice or CollectByUUID.
Lock(h) ==
  /\ call[h].pc = "lock"
  /\ mu = None
  /\ mu' = h
  /\ call' = [call EXCEPT ![h].pc =
                IF call[h].request.uuid # None THEN "uuid"
                ELSE IF call[h].request.gpuIndex >= 0 THEN "device" ELSE "count"]
  /\ seen' = [seen EXCEPT ![h] = {load[p] : p \in AskedFor(call[h].request)}]
  /\ missed' = [missed EXCEPT ![h] = {}]
  /\ UNCHANGED <<load, answer>>

\* The collector returns the metrics `out'; the deferred c.mu.Unlock runs.
Return(h, out) ==
  /\ mu' = None
  /\ call' = [call EXCEPT ![h] =
                [pc |-> "collected", request |-> call[h].request, out |-> out]]
  /\ UNCHANGED <<load, seen, missed, answer>>

\* The collector returns an error, and so does getMetricValue.
Fail(h) ==
  /\ mu' = None
  /\ call' = [call EXCEPT ![h] = Idle]
  /\ answer' = [answer EXCEPT ![h] = Failed]
  /\ UNCHANGED <<load, seen, missed>>

\* An entry of the result; `read' is history: whether NVML gave its value.
Entry(p, v, read) == [place |-> p, value |-> v, read |-> read]

(***************************************************************************)
(* The entries a read of place p may give: the load, or 0 when NVML fails  *)
(* and the field of gpu.Metrics keeps Go's zero value.  A chip in MIG mode *)
(* has no utilization of its own, so that reading it always fails.         *)
(***************************************************************************)
Reads(r, p) ==
  {Entry(p, load[q], TRUE) : q \in {p} \cap Measured(r)}
    \cup (IF p \notin Measured(r) \/ "read" \in Faults
            THEN {Entry(p, 0, FALSE)} ELSE {})

-----------------------------------------------------------------------------
(* CollectDevice *)

CollectDevice(h) ==
  /\ call[h].pc = "device"
  /\ LET g == call[h].request.gpuIndex IN
       \/ g \in GPUs /\ \E e \in Reads(call[h].request, <<g, Chip>>) : Return(h, <<e>>)
       \/ (g \notin GPUs \/ "handle" \in Faults) /\ Fail(h)

-----------------------------------------------------------------------------
(* CollectByUUID *)

\* The chip's values for an instance: its parent may not be found.
FromParent(r, p) ==
  {[e EXCEPT !.place = p] : e \in Reads(r, <<p[1], Chip>>)}
    \cup (IF "handle" \in Faults THEN {Entry(p, 0, FALSE)} ELSE {})

\* An unknown UUID, a handle or, for a chip, an index that NVML refuses: error.
CollectByUUID(h) ==
  LET r == call[h].request IN
  /\ call[h].pc = "uuid"
  /\ \/ r.uuid \in Places
        /\ \E e \in (IF r.chipLevel /\ r.uuid[2] # Chip
                      THEN FromParent(r, r.uuid) ELSE Reads(r, r.uuid)) :
             Return(h, <<e>>)
     \/ (r.uuid \notin Places \/ "handle" \in Faults) /\ Fail(h)

-----------------------------------------------------------------------------
(* CollectAll *)

\* Mutant of DeviceCount: the error path returns without unlocking.
DeviceCountKeepsLock(h) ==
  /\ call[h].pc = "count"
  /\ \/ /\ call' = [call EXCEPT ![h] = [pc |-> "gpu", request |-> @.request,
                                        index |-> 0, out |-> <<>>]]
        /\ UNCHANGED <<load, mu, seen, missed, answer>>
     \/ /\ "count" \in Faults
        /\ call' = [call EXCEPT ![h] = Idle]
        /\ answer' = [answer EXCEPT ![h] = Failed]
        /\ UNCHANGED <<load, mu, seen, missed>>

DeviceCount(h) ==
  /\ call[h].pc = "count"
  /\ \/ /\ call' = [call EXCEPT ![h] = [pc |-> "gpu", request |-> @.request,
                                        index |-> 0, out |-> <<>>]]
        /\ UNCHANGED <<load, mu, seen, missed, answer>>
     \/ "count" \in Faults /\ Fail(h)

\* The loop over the GPUs goes on with the next one.
NextGPU(h, out) ==
  /\ call' = [call EXCEPT ![h] = [pc |-> "gpu", request |-> @.request,
                                  index |-> call[h].index + 1, out |-> out]]
  /\ UNCHANGED <<load, mu, seen, answer>>

\* Mutant of AtGPU: `i <= count' in the loop.
AtGPUOrPast(h) == call[h].pc = "gpu" /\ call[h].index <= NumGPUs

AtGPU(h) == call[h].pc = "gpu" /\ call[h].index < NumGPUs

\* Mutant of SkipGPU: `break' in place of `continue'.
SkipRest(h) ==
  /\ AtGPU(h)
  /\ "handle" \in Faults
  /\ missed' = [missed EXCEPT ![h] = @ \cup Units(call[h].index)]
  /\ call' = [call EXCEPT ![h].index = NumGPUs]
  /\ UNCHANGED <<load, mu, seen, answer>>

\* DeviceGetHandleByIndex fails, here or in collectDevice: a warning.
SkipGPU(h) ==
  /\ AtGPU(h)
  /\ "handle" \in Faults
  /\ missed' = [missed EXCEPT ![h] = @ \cup Units(call[h].index)]
  /\ NextGPU(h, call[h].out)

\* Mutant of ReadGPU: the chip's own entry goes before those of its instances.
ReadEveryGPU(h) ==
  LET g == call[h].index IN
  /\ AtGPU(h)
  /\ \E e \in Reads(call[h].request, <<g, Chip>>) :
       IF g \in DOMAIN MIG
         THEN /\ call' = [call EXCEPT ![h] =
                   [pc |-> "instance", request |-> @.request, index |-> g,
                    inst |-> 0, chip |-> e, out |-> Append(@.out, e)]]
              /\ UNCHANGED <<load, mu, seen, missed, answer>>
         ELSE NextGPU(h, Append(call[h].out, e)) /\ UNCHANGED missed

(***************************************************************************)
(* MIG is off, or GetMigMode fails and isMIGEnabled says so: collectDevice *)
(* gives one entry for the chip.                                           *)
(***************************************************************************)
ReadGPU(h) ==
  LET g == call[h].index IN
  /\ AtGPU(h)
  /\ \/ g \notin DOMAIN MIG /\ UNCHANGED missed
     \/ /\ g \in DOMAIN MIG /\ "mode" \in Faults
        /\ missed' = [missed EXCEPT ![h] = @ \cup Units(g)]
  /\ \E e \in Reads(call[h].request, <<g, Chip>>) : NextGPU(h, Append(call[h].out, e))

\* collectMIGInstances reads the chip, once for all instances.
EnterMIG(h) ==
  LET g == call[h].index IN
  /\ AtGPU(h)
  /\ g \in DOMAIN MIG
  /\ \E e \in Reads(call[h].request, <<g, Chip>>) :
       call' = [call EXCEPT ![h] =
                  [pc |-> "instance", request |-> @.request, index |-> g,
                   inst |-> 0, chip |-> e, out |-> @.out]]
  /\ UNCHANGED <<load, mu, seen, missed, answer>>

AtInstance(h) ==
  /\ call[h].pc = "instance"
  /\ call[h].inst < MIG[call[h].index]

\* collectMIGDevice: an instance adds its entry.
ReadInstance(h) ==
  LET p == <<call[h].index, call[h].inst>> IN
  /\ AtInstance(h)
  /\ \E e \in (IF call[h].request.chipLevel
                  THEN {[call[h].chip EXCEPT !.place = p]}
                  ELSE Reads(call[h].request, p)) :
       call' = [call EXCEPT ![h].inst = @ + 1, ![h].out = Append(@, e)]
  /\ UNCHANGED <<load, mu, seen, missed, answer>>

\* GetMigDeviceHandleByIndex fails: the loop takes it for the end.
BreakMIG(h) ==
  /\ AtInstance(h)
  /\ "instance" \in Faults
  /\ missed' = [missed EXCEPT ![h] = @ \cup {<<call[h].index, call[h].inst>>}]
  /\ NextGPU(h, call[h].out)

\* There is no further instance.
EndMIG(h) ==
  /\ call[h].pc = "instance"
  /\ call[h].inst = MIG[call[h].index]
  /\ NextGPU(h, call[h].out)
  /\ UNCHANGED missed

ReturnAll(h) ==
  /\ call[h].pc = "gpu"
  /\ call[h].index = NumGPUs
  /\ Return(h, call[h].out)

-----------------------------------------------------------------------------
(* getMetricValue, with the collector's result *)

valuesOf(out) == [i \in DOMAIN out |-> out[i].value]

Answer(h, result) ==
  /\ call' = [call EXCEPT ![h] = Idle]
  /\ answer' = [answer EXCEPT ![h] = result]
  /\ UNCHANGED <<load, mu, seen, missed>>

Result(h) ==
  LET out == call[h].out IN
  [kind |-> "value", out |-> out, request |-> call[h].request,
   value |-> IF call[h].request.gpuIndex >= 0 \/ call[h].request.uuid # None
               THEN Whole(out[1].value)
               ELSE aggregate(valuesOf(out), call[h].request.aggregation)]

\* Mutant of NoDevices: aggregate's answer to no readings, 0, is reported.
NoDevicesIsZero(h) ==
  /\ call[h].pc = "collected"
  /\ call[h].out = <<>>
  /\ Answer(h, [kind |-> "value", out |-> <<>>, request |-> call[h].request,
                value |-> Whole(0)])

\* "no GPU devices found".
NoDevices(h) ==
  /\ call[h].pc = "collected"
  /\ call[h].out = <<>>
  /\ Answer(h, Failed)

AnswerValue(h) ==
  /\ call[h].pc = "collected"
  /\ call[h].out # <<>>
  /\ Answer(h, Result(h))

-----------------------------------------------------------------------------

Step(h) ==
  \/ CollectDevice(h) \/ CollectByUUID(h) \/ DeviceCount(h)
  \/ SkipGPU(h) \/ ReadGPU(h)
  \/ EnterMIG(h) \/ ReadInstance(h) \/ BreakMIG(h) \/ EndMIG(h)
  \/ ReturnAll(h) \/ NoDevices(h) \/ AnswerValue(h)

Next ==
  \/ \E p \in Places, v \in 0..MaxLoad : Fluctuate(p, v)
  \/ \E h \in Handlers, r \in Requests : getMetricValue(h, r)
  \/ \E h \in Handlers : Lock(h) \/ Step(h)

Spec == Init /\ [][Next]_vars

\* A goroutine that can run does; Go's mutex starves nobody.
FairSpec == Spec /\ \A h \in Handlers : WF_vars(Step(h)) /\ SF_vars(Lock(h))

-----------------------------------------------------------------------------

EntryType == [place : Places, value : 0..MaxLoad, read : BOOLEAN]
Outs == Seq(EntryType)

Results ==
  {Failed} \cup [kind : {"value"}, out : Outs, request : Requests,
                 value : [num : Nat, den : Nat]]

CallType(c) ==
  \/ c = Idle
  \/ c \in [pc : {"lock", "device", "uuid", "count"}, request : Requests]
  \/ c \in [pc : {"gpu"}, request : Requests, index : 0..NumGPUs, out : Outs]
  \/ /\ c \in [pc : {"instance"}, request : Requests, index : DOMAIN MIG,
               inst : Nat, chip : EntryType, out : Outs]
     /\ c.inst <= MIG[c.index]
  \/ c \in [pc : {"collected"}, request : Requests, out : Outs]

CollectionTypeOK ==
  /\ load \in [Places -> 0..MaxLoad]
  /\ mu \in Handlers \cup {None}
  /\ DOMAIN call = Handlers /\ \A h \in Handlers : CallType(call[h])
  /\ seen \in [Handlers -> SUBSET (0..MaxLoad)]
  /\ missed \in [Handlers -> SUBSET AllUnits]

TypeOK == CollectionTypeOK /\ answer \in [Handlers -> Results]

\* Call c has the result of a CollectAll.
Finished(c) ==
  c.pc = "collected" /\ c.request.gpuIndex = -1 /\ c.request.uuid = None

PlacesOf(out) == {out[i].place : i \in DOMAIN out}

\* The GPUs before n that no failed call hides are in a result with all units.
CompleteBefore(out, lost, n) ==
  \A g \in 0..(n - 1) : Units(g) \cap lost = {} => Units(g) \subseteq PlacesOf(out)

(***************************************************************************)
(* One GPU never hides another: whatever fails on a GPU, the GPUs without  *)
(* a failed call are in the result with all their units.                   *)
(***************************************************************************)
FailuresStayOnTheirGPU ==
  \A h \in Handlers : Finished(call[h]) =>
    CompleteBefore(call[h].out, missed[h], NumGPUs)

\* No two entries of a result stand for the same unit, or one for a part of the
\* other.
Disjoint(out) ==
  \A i, j \in DOMAIN out : i # j =>
    /\ out[i].place # out[j].place
    /\ out[i].place[1] = out[j].place[1] =>
         Chip \notin {out[i].place[2], out[j].place[2]}

(***************************************************************************)
(* Nothing is counted twice: no unit has two entries, and a GPU's instances*)
(* never stand beside an entry for the GPU as a whole.                     *)
(***************************************************************************)
CountedOnce == \A h \in Handlers : Finished(call[h]) => Disjoint(call[h].out)

(***************************************************************************)
(* The inductive invariant behind the two: at every point of the loops the *)
(* result is disjoint and complete for the GPUs and the instances behind   *)
(* that point, and has nothing from beyond it.                             *)
(***************************************************************************)
Behind(out, g, i) ==
  \A k \in DOMAIN out : LET p == out[k].place IN
    p[1] < g \/ (p[1] = g /\ p[2] \in 0..(i - 1))

Gathered(c, lost) ==
  /\ c.pc = "device" => c.request.gpuIndex >= 0
  /\ c.pc = "uuid" => c.request.uuid # None
  /\ c.pc = "gpu" => /\ Disjoint(c.out) /\ Behind(c.out, c.index, 0)
                     /\ CompleteBefore(c.out, lost, c.index)
  /\ c.pc = "instance" =>
       /\ Disjoint(c.out) /\ Behind(c.out, c.index, c.inst)
       /\ CompleteBefore(c.out, lost, c.index)
       /\ \A i \in 0..(c.inst - 1) : <<c.index, i>> \in PlacesOf(c.out)
  /\ Finished(c) => Disjoint(c.out) /\ CompleteBefore(c.out, lost, NumGPUs)

CollectsInOrder == \A h \in Handlers : Gathered(call[h], missed[h])

(***************************************************************************)
(* An answer stands for loads that the devices asked for had: it is never  *)
(* above the largest during the collection (or 0), although the entries    *)
(* were read at different moments, and, when every read succeeded, never   *)
(* below the smallest ("sum" excepted).  Without a reading there is no     *)
(* number: when every call failed KEDA gets an error and never the 0 that  *)
(* aggregate has for an empty slice, which would scale the workload down.  *)
(***************************************************************************)
AnswerSeen(a, s) ==
  /\ a.out # <<>>
  /\ a.request.aggregation # "sum" =>
       /\ AtMost(a.value, Whole(Max(s \cup {0})))
       /\ (\A e \in ToSet(a.out) : e.read) => AtMost(Whole(Min(s)), a.value)

AnswerWasSeen ==
  \A h \in Handlers : answer[h].kind = "value" => AnswerSeen(answer[h], seen[h])

(***************************************************************************)
(* The inductive invariant behind it: a handler that reads holds the mutex,*)
(* so that `seen' has what the devices asked for measure now; what it has  *)
(* read is in `seen' or is the 0 of a failed read; an answer is only there *)
(* while its handler is idle, when `seen' stands still.                    *)
(***************************************************************************)
Reading(c) == c.pc \in {"device", "uuid", "count", "gpu", "instance"}

Stands(e, s) == IF e.read THEN e.value \in s ELSE e.value = 0

FromSeen(c, s) ==
  /\ c.pc = "device" => c.request.uuid = None
  /\ c.pc \in {"count", "gpu", "instance"} =>
       c.request.uuid = None /\ c.request.gpuIndex = -1
  /\ c.pc \in {"gpu", "instance", "collected"} =>
       \A i \in DOMAIN c.out : Stands(c.out[i], s)
  /\ c.pc = "instance" => Stands(c.chip, s)

ReadsUnderLock(h) ==
  Reading(call[h]) =>
    mu = h /\ \A p \in AskedFor(call[h].request) : load[p] \in seen[h]

Answered(a, c, s) == a.kind = "value" => c = Idle /\ AnswerSeen(a, s)

ReadsWereSeen ==
  \A h \in Handlers : /\ FromSeen(call[h], seen[h])
                      /\ ReadsUnderLock(h)
                      /\ Answered(answer[h], call[h], seen[h])

(* Liveness *)

\* Every call returns: no error path keeps the mutex.
EveryCallReturns == \A h \in Handlers : call[h].pc = "lock" ~> call[h].pc = "idle"
=============================================================================
