------------------------- MODULE GpuCollectionProofs ------------------------
(***************************************************************************)
(* Theorems about GpuCollection, for any number of GPUs, MIG instances and *)
(* goroutines, any set of requests and any NVML calls that can fail: what  *)
(* a failed call costs, that nothing is counted twice, and that an answer  *)
(* stands for loads that the devices had.                                  *)
(***************************************************************************)
EXTENDS GpuCollection, AggregationProofs

-----------------------------------------------------------------------------
(* Places and readings *)

LEMMA PlacesOfGPUs ==
  /\ AllUnits \subseteq Places
  /\ \A g \in GPUs : Units(g) \subseteq AllUnits /\ <<g, Chip>> \in Places
  /\ \A g \in DOMAIN MIG : /\ g \in GPUs /\ MIG[g] \in Nat
                           /\ \A i \in 0..(MIG[g] - 1) : <<g, i>> \in AllUnits
<1>1. \A g \in GPUs : Units(g) \subseteq AllUnits /\ <<g, Chip>> \in Places
  BY DEF AllUnits, Places
<1>2. ASSUME NEW g \in DOMAIN MIG
      PROVE  /\ g \in GPUs /\ MIG[g] \in Nat
             /\ \A i \in 0..(MIG[g] - 1) : <<g, i>> \in AllUnits
  <2>1. g \in GPUs /\ MIG[g] \in Nat
    BY GpuCollectionAssumption
  <2> QED
    BY <2>1, <1>1 DEF Units, Instances
<1> QED
  BY <1>1, <1>2 DEF Places

\* A place is a pair: the number of its GPU, and Chip or that of an instance.
LEMMA PlacePairs ==
  ASSUME NEW p \in Places
  PROVE  /\ p = <<p[1], p[2]>>
         /\ p[1] \in GPUs /\ p[1] \in Int /\ p[2] \in Int
         /\ p[2] # Chip => p[1] \in DOMAIN MIG /\ p[2] \in 0..(MIG[p[1]] - 1)
<1>1. CASE \E g \in GPUs : p = <<g, Chip>>
  BY <1>1 DEF Chip, GPUs
<1>2. CASE p \in AllUnits
  <2>1. PICK g \in GPUs : p \in Units(g)
    BY <1>2 DEF AllUnits
  <2>2. CASE g \notin DOMAIN MIG
    BY <2>1, <2>2 DEF Units, Chip, GPUs
  <2>3. CASE g \in DOMAIN MIG
    <3>1. PICK i \in 0..(MIG[g] - 1) : p = <<g, i>>
      BY <2>1, <2>3 DEF Units, Instances
    <3> QED
      BY <3>1, <2>3, PlacesOfGPUs DEF GPUs
  <2> QED
    BY <2>2, <2>3
<1> QED
  BY <1>1, <1>2 DEF Places

LEMMA MeasuredPlaces ==
  ASSUME NEW r
  PROVE  Measured(r) \subseteq Places /\ AskedFor(r) \subseteq Places
BY DEF Measured, AskedFor, Places

LEMMA ReadsTyped ==
  ASSUME CollectionTypeOK, NEW r, NEW p \in Places, NEW e \in Reads(r, p)
  PROVE  e \in EntryType /\ e.place = p
<1>1. load[p] \in 0..MaxLoad /\ 0 \in 0..MaxLoad
  BY GpuCollectionAssumption DEF CollectionTypeOK
<1>2. CASE e = Entry(p, load[p], TRUE)
  BY <1>1, <1>2 DEF Entry, EntryType
<1>3. CASE e = Entry(p, 0, FALSE)
  BY <1>1, <1>3 DEF Entry, EntryType
<1> QED
  BY <1>2, <1>3 DEF Reads

\* The chip's reading, copied for one of its instances.
LEMMA Moved ==
  ASSUME NEW e \in EntryType, NEW p \in Places
  PROVE  [e EXCEPT !.place = p] \in EntryType /\ [e EXCEPT !.place = p].place = p
BY DEF EntryType

-----------------------------------------------------------------------------
(* Results *)

LEMMA AppendOut ==
  ASSUME NEW out \in Outs, NEW e \in EntryType
  PROVE  /\ Append(out, e) \in Outs
         /\ DOMAIN Append(out, e) = 1..(Len(out) + 1)
         /\ DOMAIN out = 1..Len(out) /\ Len(out) \in Nat
         /\ Append(out, e)[Len(out) + 1] = e
         /\ \A i \in DOMAIN out : /\ Append(out, e)[i] = out[i]
                                 /\ out[i] \in EntryType /\ out[i].place \in Places
<1>1. /\ Append(out, e) \in Outs
      /\ DOMAIN Append(out, e) = 1..(Len(out) + 1)
      /\ DOMAIN out = 1..Len(out) /\ Len(out) \in Nat
      /\ Append(out, e)[Len(out) + 1] = e
      /\ \A i \in DOMAIN out : Append(out, e)[i] = out[i] /\ out[i] \in EntryType
  BY DEF Outs
<1>2. \A f \in EntryType : f.place \in Places
  BY DEF EntryType
<1> QED
  BY <1>1, <1>2

LEMMA AppendPlaces ==
  ASSUME NEW out \in Outs, NEW e \in EntryType
  PROVE  PlacesOf(Append(out, e)) = PlacesOf(out) \cup {e.place}
<1>1. ASSUME NEW i \in DOMAIN out
      PROVE  out[i].place \in PlacesOf(Append(out, e))
  <2>1. i \in DOMAIN Append(out, e) /\ Append(out, e)[i] = out[i]
    BY AppendOut
  <2> QED
    BY <2>1 DEF PlacesOf
<1>2. e.place \in PlacesOf(Append(out, e))
  <2>1. Len(out) + 1 \in DOMAIN Append(out, e)
    BY AppendOut
  <2> QED
    BY <2>1, AppendOut DEF PlacesOf
<1>3. ASSUME NEW i \in DOMAIN Append(out, e)
      PROVE  Append(out, e)[i].place \in PlacesOf(out) \cup {e.place}
  <2>1. i \in DOMAIN out \/ i = Len(out) + 1
    BY AppendOut
  <2> QED
    BY <2>1, AppendOut DEF PlacesOf
<1> QED
  BY <1>1, <1>2, <1>3 DEF PlacesOf

\* An entry for a unit at or beyond the point where the loop is keeps the result
\* disjoint: instance i of GPU g or, before any of its instances, the chip itself.
LEMMA AppendDisjoint ==
  ASSUME NEW out \in Outs, NEW e \in EntryType, NEW g \in Int, NEW i \in Nat,
         Disjoint(out), Behind(out, g, i),
         e.place[1] = g, e.place[2] = i \/ (i = 0 /\ e.place[2] = Chip)
  PROVE  Disjoint(Append(out, e))
<1> DEFINE n == Len(out) + 1
           new == Append(out, e)
<1>1. /\ DOMAIN new = 1..n /\ DOMAIN out = 1..(n - 1) /\ n \in Nat
      /\ new[n] = e
      /\ \A k \in DOMAIN out : new[k] = out[k] /\ out[k].place \in Places
  BY AppendOut
<1>2. ASSUME NEW k \in DOMAIN out
      PROVE  /\ out[k].place # e.place
             /\ out[k].place[1] = e.place[1] =>
                  Chip \notin {out[k].place[2], e.place[2]}
  <2>1. out[k].place[1] \in Int /\ out[k].place[2] \in Int
    BY <1>1, PlacePairs
  <2>2. \/ out[k].place[1] < g
        \/ out[k].place[1] = g /\ out[k].place[2] \in 0..(i - 1)
    BY DEF Behind
  <2> QED
    BY <2>1, <2>2 DEF Chip
<1> HIDE DEF n, new
<1>3. ASSUME NEW k \in DOMAIN new, NEW l \in DOMAIN new, k # l
      PROVE  /\ new[k].place # new[l].place
             /\ new[k].place[1] = new[l].place[1] =>
                  Chip \notin {new[k].place[2], new[l].place[2]}
  <2>1. (k \in DOMAIN out /\ l \in DOMAIN out) \/ (k = n /\ l \in DOMAIN out)
          \/ (k \in DOMAIN out /\ l = n)
    BY <1>1, <1>3
  <2>2. CASE k \in DOMAIN out /\ l \in DOMAIN out
    BY <2>2, <1>1, <1>3 DEF Disjoint
  <2>3. CASE k = n /\ l \in DOMAIN out
    BY <2>3, <1>1, <1>2
  <2>4. CASE k \in DOMAIN out /\ l = n
    BY <2>4, <1>1, <1>2
  <2> QED
    BY <2>1, <2>2, <2>3, <2>4
<1> QED
  BY <1>3 DEF Disjoint, new

\* The loop has passed the new entry.
LEMMA AppendBehind ==
  ASSUME NEW out \in Outs, NEW e \in EntryType, NEW g \in Int, NEW i \in Nat,
         NEW g2 \in Int, NEW i2 \in Nat, Behind(out, g, i),
         g < g2 \/ (g = g2 /\ i <= i2),
         e.place[1] < g2 \/ (e.place[1] = g2 /\ e.place[2] \in 0..(i2 - 1))
  PROVE  Behind(Append(out, e), g2, i2)
<1> SUFFICES ASSUME NEW k \in DOMAIN Append(out, e)
             PROVE  LET p == Append(out, e)[k].place IN
                      p[1] < g2 \/ (p[1] = g2 /\ p[2] \in 0..(i2 - 1))
  BY DEF Behind
<1>1. k \in DOMAIN out \/ k = Len(out) + 1
  BY AppendOut
<1>2. CASE k = Len(out) + 1
  BY <1>2, AppendOut
<1>3. CASE k \in DOMAIN out
  <2>1. Append(out, e)[k] = out[k] /\ out[k].place \in Places
    BY <1>3, AppendOut
  <2>2. out[k].place[1] \in Int /\ out[k].place[2] \in Int
    BY <2>1, PlacePairs
  <2>3. out[k].place[1] < g \/ (out[k].place[1] = g /\ out[k].place[2] \in 0..(i - 1))
    BY <1>3 DEF Behind
  <2> QED
    BY <2>1, <2>2, <2>3
<1> QED
  BY <1>1, <1>2, <1>3

LEMMA StillBehind ==
  ASSUME NEW out \in Outs, NEW g \in Int, NEW i \in Nat, NEW g2 \in Int,
         Behind(out, g, i), g < g2
  PROVE  Behind(out, g2, 0)
<1> SUFFICES ASSUME NEW k \in DOMAIN out PROVE out[k].place[1] < g2
  BY DEF Behind
<1>1. out[k].place \in Places
  <2>1. out[k] \in EntryType
    BY DEF Outs
  <2> QED
    BY <2>1 DEF EntryType
<1>2. out[k].place[1] \in Int
  BY <1>1, PlacePairs
<1> QED
  BY <1>2 DEF Behind

\* A GPU whose units are all in the result, or one of which a failed call hides.
LEMMA CompleteThrough ==
  ASSUME NEW out, NEW out2, NEW lost, NEW lost2, NEW g \in Nat,
         CompleteBefore(out, lost, g), lost \subseteq lost2,
         PlacesOf(out) \subseteq PlacesOf(out2),
         Units(g) \cap lost2 = {} => Units(g) \subseteq PlacesOf(out2)
  PROVE  CompleteBefore(out2, lost2, g + 1)
<1> SUFFICES ASSUME NEW f \in 0..g, Units(f) \cap lost2 = {}
             PROVE  Units(f) \subseteq PlacesOf(out2)
  BY DEF CompleteBefore
<1>1. CASE f = g
  BY <1>1
<1>2. CASE f # g
  <2>1. f \in 0..(g - 1) /\ Units(f) \cap lost = {}
    BY <1>2
  <2> QED
    BY <2>1 DEF CompleteBefore
<1> QED
  BY <1>1, <1>2

-----------------------------------------------------------------------------
(* Steps of a collection *)

\* Handler h goes on as call c, with the places `lost' hidden from it; c is such
\* as a collection that goes through the loops in order can be.
Becomes(h, c, lost) ==
  /\ call' = [call EXCEPT ![h] = c]
  /\ missed' = [missed EXCEPT ![h] = lost]
  /\ CallType(c) /\ Gathered(c, lost)
  /\ lost \subseteq AllUnits

Collecting == CollectionTypeOK /\ CollectsInOrder

\* A step of handler h that does so.
Onward(h) ==
  /\ \E c, lost : Becomes(h, c, lost)
  /\ load' = load /\ seen' = seen
  /\ mu' \in {mu, None}

\* A step with which handler h becomes such a call leaves the others what they were.
LEMMA BecomesCollecting ==
  ASSUME Collecting, NEW h \in Handlers, NEW c, NEW lost, Becomes(h, c, lost),
         load' = load, mu' \in Handlers \cup {None},
         seen' \in [Handlers -> SUBSET (0..MaxLoad)]
  PROVE  Collecting'
<1>1. DOMAIN call = Handlers /\ missed \in [Handlers -> SUBSET AllUnits]
  BY DEF Collecting, CollectionTypeOK
<1>2. /\ DOMAIN call' = Handlers
      /\ missed' \in [Handlers -> SUBSET AllUnits]
      /\ call'[h] = c /\ missed'[h] = lost
      /\ \A g \in Handlers \ {h} : call'[g] = call[g] /\ missed'[g] = missed[g]
  BY <1>1 DEF Becomes
<1>3. \A g \in Handlers : CallType(call'[g])
  BY <1>2 DEF Becomes, Collecting, CollectionTypeOK
<1>4. \A g \in Handlers : Gathered(call'[g], missed'[g])
  BY <1>2 DEF Becomes, Collecting, CollectsInOrder
<1>5. CollectionTypeOK'
  BY <1>2, <1>3 DEF Collecting, CollectionTypeOK, CallType
<1>6. CollectsInOrder'
  BY <1>4 DEF CollectsInOrder, Gathered, Finished
<1> QED
  BY <1>5, <1>6 DEF Collecting

\* What Collecting says of a call in each of its states.
LEMMA CallShapes ==
  ASSUME Collecting, NEW h \in Handlers
  PROVE  /\ call[h] # Idle => call[h].request \in Requests
         /\ call[h].pc = "gpu" => /\ call[h] # Idle
                                  /\ call[h].index \in 0..NumGPUs
                                  /\ call[h].out \in Outs
         /\ call[h].pc = "instance" => /\ call[h] # Idle
                                       /\ call[h].index \in DOMAIN MIG
                                       /\ call[h].inst \in 0..MIG[call[h].index]
                                       /\ call[h].chip \in EntryType
                                       /\ call[h].out \in Outs
         /\ call[h].pc = "collected" => call[h] # Idle /\ call[h].out \in Outs
         /\ call[h].pc \in {"lock", "device", "uuid", "count"} => call[h] # Idle
         /\ missed[h] \subseteq AllUnits
         /\ Gathered(call[h], missed[h])
<1>1. CallType(call[h]) /\ missed[h] \subseteq AllUnits
  BY DEF Collecting, CollectionTypeOK
<1>2. Gathered(call[h], missed[h])
  BY DEF Collecting, CollectsInOrder
<1>3. CASE call[h] = Idle
  BY <1>1, <1>2, <1>3 DEF Idle
<1>4. CASE call[h] \in [pc : {"lock", "device", "uuid", "count"}, request : Requests]
  BY <1>1, <1>2, <1>4 DEF Idle
<1>5. CASE call[h] \in [pc : {"gpu"}, request : Requests, index : 0..NumGPUs,
                        out : Outs]
  BY <1>1, <1>2, <1>5 DEF Idle
<1>6. CASE /\ call[h] \in [pc : {"instance"}, request : Requests, index : DOMAIN MIG,
                           inst : Nat, chip : EntryType, out : Outs]
           /\ call[h].inst <= MIG[call[h].index]
  BY <1>1, <1>2, <1>6, PlacesOfGPUs DEF Idle
<1>7. CASE call[h] \in [pc : {"collected"}, request : Requests, out : Outs]
  BY <1>1, <1>2, <1>7 DEF Idle
<1> QED
  BY <1>1, <1>3, <1>4, <1>5, <1>6, <1>7 DEF CallType

\* The states of a call that the steps of getMetricValue lead to.
LEMMA IdleGathered ==
  ASSUME NEW lost
  PROVE  CallType(Idle) /\ Gathered(Idle, lost)
BY DEF CallType, Gathered, Finished, Idle

LEMMA ReturnGathered ==
  ASSUME Collecting, NEW h \in Handlers, NEW out \in Outs, Return(h, out),
         call[h] # Idle,
         LET r == call[h].request IN
           r.gpuIndex = -1 /\ r.uuid = None =>
             Disjoint(out) /\ CompleteBefore(out, missed[h], NumGPUs)
  PROVE  Onward(h)
<1> DEFINE c == [pc |-> "collected", request |-> call[h].request, out |-> out]
<1>1. CallType(c)
  BY CallShapes DEF CallType
<1>2. Gathered(c, missed[h])
  BY DEF Gathered, Finished
<1>3. missed' = [missed EXCEPT ![h] = missed[h]] /\ missed[h] \subseteq AllUnits
  BY CallShapes DEF Return, Collecting, CollectionTypeOK
<1> QED
  BY <1>1, <1>2, <1>3 DEF Return, Becomes, Onward

LEMMA FailGathered ==
  ASSUME Collecting, NEW h \in Handlers, Fail(h)
  PROVE  Onward(h)
<1>1. missed' = [missed EXCEPT ![h] = missed[h]] /\ missed[h] \subseteq AllUnits
  BY CallShapes DEF Fail, Collecting, CollectionTypeOK
<1> QED
  BY <1>1, IdleGathered DEF Fail, Becomes, Onward

LEMMA AnswerGathered ==
  ASSUME Collecting, NEW h \in Handlers, NEW result, Answer(h, result)
  PROVE  Onward(h)
<1>1. missed' = [missed EXCEPT ![h] = missed[h]] /\ missed[h] \subseteq AllUnits
  BY CallShapes DEF Answer, Collecting, CollectionTypeOK
<1> QED
  BY <1>1, IdleGathered DEF Answer, Becomes, Onward

\* The loop goes on with the next GPU.
LEMMA NextGPUGathered ==
  ASSUME Collecting, NEW h \in Handlers, NEW out \in Outs, NEW lost,
         NextGPU(h, out), call[h].pc \in {"gpu", "instance"},
         call[h].index < NumGPUs,
         missed' = [missed EXCEPT ![h] = lost], lost \subseteq AllUnits,
         Disjoint(out), Behind(out, call[h].index + 1, 0),
         CompleteBefore(out, lost, call[h].index + 1)
  PROVE  Onward(h)
<1> DEFINE c == [pc |-> "gpu", request |-> call[h].request,
                 index |-> call[h].index + 1, out |-> out]
<1>1. call[h] # Idle /\ call[h].request \in Requests /\ call[h].index \in 0..NumGPUs
  <2>1. CASE call[h].pc = "gpu"
    BY <2>1, CallShapes
  <2>2. CASE call[h].pc = "instance"
    <3>1. /\ call[h] # Idle /\ call[h].index \in DOMAIN MIG
          /\ call[h].request \in Requests
      BY <2>2, CallShapes
    <3> QED
      BY <3>1, PlacesOfGPUs, GpuCollectionAssumption DEF GPUs
  <2> QED
    BY <2>1, <2>2
<1>2. CallType(c)
  BY <1>1, GpuCollectionAssumption DEF CallType
<1>3. Gathered(c, lost)
  BY DEF Gathered, Finished
<1>4. call' = [call EXCEPT ![h] = c]
  BY DEF NextGPU
<1> QED
  BY <1>2, <1>3, <1>4 DEF NextGPU, Becomes, Onward

LEMMA CollectDeviceGathered ==
  ASSUME Collecting, NEW h \in Handlers, CollectDevice(h)
  PROVE  Onward(h)
<1> DEFINE r == call[h].request
<1>1. call[h].pc = "device" /\ call[h] # Idle /\ r.gpuIndex >= 0
  BY CallShapes DEF CollectDevice, Gathered
<1>2. ASSUME r.gpuIndex \in GPUs, NEW e \in Reads(r, <<r.gpuIndex, Chip>>),
             Return(h, <<e>>)
      PROVE  Onward(h)
  <2>1. e \in EntryType
    BY <1>2, PlacesOfGPUs, ReadsTyped DEF Collecting
  <2>2. <<e>> \in Outs
    BY <2>1 DEF Outs
  <2> QED
    BY <1>1, <1>2, <2>2, ReturnGathered
<1> QED
  BY <1>2, FailGathered DEF CollectDevice

LEMMA CollectByUUIDGathered ==
  ASSUME Collecting, NEW h \in Handlers, CollectByUUID(h)
  PROVE  Onward(h)
<1> DEFINE r == call[h].request
           p == r.uuid
           es == IF r.chipLevel /\ p[2] # Chip THEN FromParent(r, p) ELSE Reads(r, p)
<1>1. call[h].pc = "uuid" /\ call[h] # Idle /\ p # None
  BY CallShapes DEF CollectByUUID, Gathered
<1>2. ASSUME p \in Places, NEW e \in es, Return(h, <<e>>)
      PROVE  Onward(h)
  <2>1. <<p[1], Chip>> \in Places
    BY <1>2, PlacePairs, PlacesOfGPUs
  <2>2. ASSUME NEW f \in Reads(r, <<p[1], Chip>>)
        PROVE  [f EXCEPT !.place = p] \in EntryType
    BY <1>2, <2>1, ReadsTyped, Moved DEF Collecting
  <2>3. Entry(p, 0, FALSE) \in EntryType
    BY <1>2, GpuCollectionAssumption DEF Entry, EntryType
  <2>4. FromParent(r, p) \subseteq EntryType
    BY <2>2, <2>3 DEF FromParent
  <2>5. e \in EntryType
    BY <1>2, <2>4, ReadsTyped DEF Collecting
  <2>6. <<e>> \in Outs
    BY <2>5 DEF Outs
  <2> QED
    BY <1>1, <1>2, <2>6, ReturnGathered
<1> QED
  BY <1>2, FailGathered DEF CollectByUUID

LEMMA MissedStays ==
  ASSUME Collecting, NEW h \in Handlers, UNCHANGED missed
  PROVE  missed' = [missed EXCEPT ![h] = missed[h]]
BY DEF Collecting, CollectionTypeOK

LEMMA DeviceCountGathered ==
  ASSUME Collecting, NEW h \in Handlers, DeviceCount(h)
  PROVE  Onward(h)
<1> DEFINE c == [pc |-> "gpu", request |-> call[h].request, index |-> 0, out |-> <<>>]
<1>1. CASE /\ call' = [call EXCEPT ![h] = c]
           /\ UNCHANGED <<load, mu, seen, missed, answer>>
  <2>1. call[h] # Idle /\ call[h].request \in Requests /\ missed[h] \subseteq AllUnits
    BY CallShapes DEF DeviceCount
  <2>2. CallType(c)
    BY <2>1, GpuCollectionAssumption DEF CallType, Outs
  <2>3. Gathered(c, missed[h])
    BY DEF Gathered, Finished, Disjoint, Behind, CompleteBefore
  <2> QED
    BY <1>1, <2>1, <2>2, <2>3, MissedStays DEF Onward, Becomes
<1> QED
  BY <1>1, FailGathered DEF DeviceCount

\* What is known where the loop over the GPUs reads GPU call[h].index.
LEMMA AtAGPU ==
  ASSUME Collecting, NEW h \in Handlers, AtGPU(h)
  PROVE  LET c == call[h] IN
         /\ c # Idle /\ c.request \in Requests
         /\ c.index \in GPUs /\ c.index \in Nat /\ c.index < NumGPUs
         /\ c.out \in Outs
         /\ Disjoint(c.out) /\ Behind(c.out, c.index, 0)
         /\ CompleteBefore(c.out, missed[h], c.index)
         /\ missed[h] \subseteq AllUnits /\ Units(c.index) \subseteq AllUnits
<1>1. /\ call[h].pc = "gpu" /\ call[h] # Idle /\ call[h].request \in Requests
      /\ call[h].index \in 0..NumGPUs /\ call[h].index < NumGPUs
      /\ call[h].out \in Outs /\ missed[h] \subseteq AllUnits
      /\ Gathered(call[h], missed[h])
  BY CallShapes DEF AtGPU
<1>2. call[h].index \in GPUs /\ call[h].index \in Nat
  BY <1>1, GpuCollectionAssumption DEF GPUs
<1> QED
  BY <1>1, <1>2, PlacesOfGPUs DEF Gathered

LEMMA SkipGPUGathered ==
  ASSUME Collecting, NEW h \in Handlers, SkipGPU(h)
  PROVE  Onward(h)
<1> DEFINE g == call[h].index
           out == call[h].out
           lost == missed[h] \cup Units(g)
<1>1. AtGPU(h) /\ NextGPU(h, out) /\ missed' = [missed EXCEPT ![h] = lost]
  BY DEF SkipGPU
<1>2. Behind(out, g + 1, 0)
  BY <1>1, AtAGPU, StillBehind
<1>3. CompleteBefore(out, lost, g + 1)
  <2>1. Units(g) \cap lost = {} => Units(g) \subseteq PlacesOf(out)
    OBVIOUS
  <2> QED
    BY <1>1, <2>1, AtAGPU, CompleteThrough
<1>4. call[h].pc = "gpu" /\ g < NumGPUs /\ out \in Outs /\ Disjoint(out)
  BY <1>1, AtAGPU DEF AtGPU
<1>5. lost \subseteq AllUnits
  BY <1>1, AtAGPU
<1> HIDE DEF lost
<1> QED
  BY <1>1, <1>2, <1>3, <1>4, <1>5, NextGPUGathered

LEMMA ReadGPUGathered ==
  ASSUME Collecting, NEW h \in Handlers, ReadGPU(h)
  PROVE  Onward(h)
<1> DEFINE g == call[h].index
           out == call[h].out
           lost == IF g \in DOMAIN MIG THEN missed[h] \cup Units(g) ELSE missed[h]
<1>1. AtGPU(h) /\ missed' = [missed EXCEPT ![h] = lost]
  BY MissedStays DEF ReadGPU
<1>2. PICK e \in Reads(call[h].request, <<g, Chip>>) : NextGPU(h, Append(out, e))
  BY DEF ReadGPU
<1>3. e \in EntryType /\ e.place = <<g, Chip>>
  BY <1>1, AtAGPU, PlacesOfGPUs, ReadsTyped DEF Collecting
<1> HIDE DEF lost
<1>4. /\ g \in Int /\ g + 1 \in Int /\ 0 \in Nat /\ g < g + 1
      /\ out \in Outs /\ Disjoint(out) /\ Behind(out, g, 0)
      /\ e.place[1] = g /\ e.place[2] = Chip
  BY <1>1, <1>3, AtAGPU
<1>5. /\ Append(out, e) \in Outs
      /\ PlacesOf(Append(out, e)) = PlacesOf(out) \cup {e.place}
  <2> HIDE DEF g, out
  <2>1. Append(out, e) \in Outs
    BY <1>3, <1>4, AppendOut
  <2> QED
    BY <2>1, <1>3, <1>4, AppendPlaces
<1>6. Disjoint(Append(out, e))
  <2> HIDE DEF g, out
  <2> QED
    BY <1>3, <1>4, AppendDisjoint
<1>7. Behind(Append(out, e), g + 1, 0)
  <2> HIDE DEF g, out
  <2> QED
    BY <1>3, <1>4, AppendBehind
<1>8. /\ lost \subseteq AllUnits /\ missed[h] \subseteq lost
      /\ Units(g) \cap lost = {} => Units(g) \subseteq PlacesOf(Append(out, e))
  BY <1>1, <1>3, <1>5, AtAGPU DEF lost, Units
<1>9. CompleteBefore(Append(out, e), lost, g + 1)
  BY <1>1, <1>5, <1>8, AtAGPU, CompleteThrough
<1> QED
  BY <1>1, <1>2, <1>5, <1>6, <1>7, <1>8, <1>9, AtAGPU, NextGPUGathered DEF AtGPU

LEMMA EnterMIGGathered ==
  ASSUME Collecting, NEW h \in Handlers, EnterMIG(h)
  PROVE  Onward(h)
<1> DEFINE g == call[h].index
<1>1. AtGPU(h) /\ g \in DOMAIN MIG /\ UNCHANGED <<load, mu, seen, missed, answer>>
  BY DEF EnterMIG
<1>2. PICK e \in Reads(call[h].request, <<g, Chip>>) :
        call' = [call EXCEPT ![h] =
                  [pc |-> "instance", request |-> call[h].request, index |-> g,
                   inst |-> 0, chip |-> e, out |-> call[h].out]]
  BY DEF EnterMIG
<1> DEFINE c == [pc |-> "instance", request |-> call[h].request, index |-> g,
                 inst |-> 0, chip |-> e, out |-> call[h].out]
<1>3. e \in EntryType
  BY <1>1, AtAGPU, PlacesOfGPUs, ReadsTyped DEF Collecting
<1>4. CallType(c)
  <2>1. MIG[g] \in Nat /\ 0 <= MIG[g]
    BY <1>1, PlacesOfGPUs
  <2> QED
    BY <1>1, <1>3, <2>1, AtAGPU DEF CallType
<1>5. Gathered(c, missed[h])
  BY <1>1, AtAGPU DEF Gathered, Finished
<1> QED
  BY <1>1, <1>2, <1>4, <1>5, AtAGPU, MissedStays DEF Onward, Becomes

\* What is known in the loop over the instances of a GPU.
LEMMA AmongInstances ==
  ASSUME Collecting, NEW h \in Handlers, call[h].pc = "instance"
  PROVE  LET c == call[h] IN
         /\ c # Idle /\ c.request \in Requests
         /\ c.index \in DOMAIN MIG /\ c.index \in Nat /\ c.index < NumGPUs
         /\ c.inst \in Nat /\ c.inst \in 0..MIG[c.index] /\ MIG[c.index] \in Nat
         /\ c.chip \in EntryType /\ c.out \in Outs
         /\ Disjoint(c.out) /\ Behind(c.out, c.index, c.inst)
         /\ CompleteBefore(c.out, missed[h], c.index)
         /\ \A i \in 0..(c.inst - 1) : <<c.index, i>> \in PlacesOf(c.out)
         /\ missed[h] \subseteq AllUnits
         /\ Units(c.index) = {<<c.index, i>> : i \in 0..(MIG[c.index] - 1)}
<1>1. /\ call[h] # Idle /\ call[h].request \in Requests
      /\ call[h].index \in DOMAIN MIG /\ call[h].inst \in 0..MIG[call[h].index]
      /\ call[h].chip \in EntryType /\ call[h].out \in Outs
      /\ missed[h] \subseteq AllUnits
      /\ Gathered(call[h], missed[h])
  BY CallShapes
<1>2. /\ call[h].index \in GPUs /\ MIG[call[h].index] \in Nat
      /\ call[h].index \in Nat /\ call[h].index < NumGPUs
  BY <1>1, PlacesOfGPUs, GpuCollectionAssumption DEF GPUs
<1>3. call[h].inst \in Nat
  BY <1>1, <1>2
<1>4. /\ Disjoint(call[h].out) /\ Behind(call[h].out, call[h].index, call[h].inst)
      /\ CompleteBefore(call[h].out, missed[h], call[h].index)
      /\ \A i \in 0..(call[h].inst - 1) : <<call[h].index, i>> \in PlacesOf(call[h].out)
  BY <1>1 DEF Gathered
<1>5. Units(call[h].index) = {<<call[h].index, i>> : i \in 0..(MIG[call[h].index] - 1)}
  BY <1>1 DEF Units, Instances
<1> QED
  BY <1>1, <1>2, <1>3, <1>4, <1>5

LEMMA InstanceChanged ==
  ASSUME NEW c \in [pc : {"instance"}, request : Requests, index : DOMAIN MIG,
                    inst : Nat, chip : EntryType, out : Outs],
         NEW i, NEW out
  PROVE  [c EXCEPT !.inst = i, !.out = out] =
           [pc |-> "instance", request |-> c.request, index |-> c.index,
            inst |-> i, chip |-> c.chip, out |-> out]
<1> DEFINE d == [pc |-> "instance", request |-> c.request, index |-> c.index,
                 inst |-> i, chip |-> c.chip, out |-> c.out]
<1>1. [c EXCEPT !.inst = i, !.out = out] = [[c EXCEPT !.inst = i] EXCEPT !.out = out]
  OBVIOUS
<1>2. [c EXCEPT !.inst = i] = d
  OBVIOUS
<1>3. [d EXCEPT !.out = out] =
        [pc |-> "instance", request |-> c.request, index |-> c.index,
         inst |-> i, chip |-> c.chip, out |-> out]
  OBVIOUS
<1> HIDE DEF d
<1> QED
  BY <1>1, <1>2, <1>3

\* The step of collectMIGDevice: one entry more, for the next instance.
LEMMA InstanceRead ==
  ASSUME Collecting, NEW h \in Handlers, ReadInstance(h)
  PROVE  LET b == call[h]
             p == <<b.index, b.inst>>
         IN \E e \in (IF b.request.chipLevel THEN {[b.chip EXCEPT !.place = p]}
                      ELSE Reads(b.request, p)) :
              call' = [call EXCEPT ![h] =
                         [pc |-> "instance", request |-> b.request,
                          index |-> b.index, inst |-> b.inst + 1,
                          chip |-> b.chip, out |-> Append(b.out, e)]]
<1> DEFINE b == call[h]
           p == <<b.index, b.inst>>
           es == IF b.request.chipLevel THEN {[b.chip EXCEPT !.place = p]}
                 ELSE Reads(b.request, p)
<1>1. PICK e \in es : call' = [call EXCEPT ![h].inst = @ + 1, ![h].out = Append(@, e)]
  BY DEF ReadInstance
<1>2. b \in [pc : {"instance"}, request : Requests, index : DOMAIN MIG,
             inst : Nat, chip : EntryType, out : Outs]
  BY DEF ReadInstance, AtInstance, Collecting, CollectionTypeOK, CallType, Idle
<1>3. call' = [call EXCEPT ![h] = [b EXCEPT !.inst = @ + 1, !.out = Append(@, e)]]
  BY <1>1
<1>4. call' = [call EXCEPT ![h] =
                 [b EXCEPT !.inst = b.inst + 1, !.out = Append(b.out, e)]]
  BY <1>3
<1> DEFINE new == Append(b.out, e)
           i == b.inst + 1
<1>5. [b EXCEPT !.inst = i, !.out = new] =
        [pc |-> "instance", request |-> b.request, index |-> b.index,
         inst |-> i, chip |-> b.chip, out |-> new]
  <2> HIDE DEF b, i, new
  <2> QED
    BY <1>2, InstanceChanged
<1> QED
  BY <1>1, <1>4, <1>5

LEMMA ReadInstanceGathered ==
  ASSUME Collecting, NEW h \in Handlers, ReadInstance(h)
  PROVE  Onward(h)
<1> DEFINE g == call[h].index
           i == call[h].inst
           out == call[h].out
           p == <<g, i>>
           es == IF call[h].request.chipLevel
                   THEN {[call[h].chip EXCEPT !.place = p]}
                   ELSE Reads(call[h].request, p)
<1>1. /\ call[h].pc = "instance" /\ i < MIG[g]
      /\ UNCHANGED <<load, mu, seen, missed, answer>>
  BY DEF ReadInstance, AtInstance
<1>2. PICK e \in es :
        call' = [call EXCEPT ![h] =
                   [pc |-> "instance", request |-> call[h].request, index |-> g,
                    inst |-> i + 1, chip |-> call[h].chip, out |-> Append(out, e)]]
  BY InstanceRead
<1> DEFINE new == Append(out, e)
           c == [pc |-> "instance", request |-> call[h].request, index |-> g,
                 inst |-> i + 1, chip |-> call[h].chip, out |-> new]
<1>3. /\ g \in DOMAIN MIG /\ g \in Int /\ i \in Nat /\ MIG[g] \in Nat
      /\ out \in Outs /\ Disjoint(out) /\ Behind(out, g, i)
      /\ call[h].chip \in EntryType
  BY <1>1, AmongInstances
<1>4. p \in Places /\ p[1] = g /\ p[2] = i
  BY <1>1, <1>3, PlacesOfGPUs
<1>5. e \in EntryType /\ e.place = p
  <2> HIDE DEF p
  <2>1. CASE call[h].request.chipLevel
    BY <1>2, <1>3, <1>4, <2>1, Moved
  <2>2. CASE ~call[h].request.chipLevel
    <3>1. e \in Reads(call[h].request, p)
      BY <1>2, <2>2
    <3> QED
      BY <3>1, <1>4, ReadsTyped DEF Collecting
  <2> QED
    BY <2>1, <2>2
<1>6. new \in Outs /\ PlacesOf(new) = PlacesOf(out) \cup {p}
  <2> HIDE DEF out, p
  <2>1. new \in Outs
    BY <1>3, <1>5, AppendOut
  <2> QED
    BY <2>1, <1>3, <1>5, AppendPlaces
<1>7. Disjoint(new) /\ Behind(new, g, i + 1)
  <2>1. /\ e.place[1] = g /\ e.place[2] = i /\ e.place[2] \in 0..((i + 1) - 1)
        /\ i + 1 \in Nat /\ i <= i + 1
    BY <1>3, <1>4, <1>5
  <2> HIDE DEF g, i, out, p
  <2>2. Disjoint(new)
    BY <1>3, <1>5, <2>1, AppendDisjoint
  <2> QED
    BY <2>2, <1>3, <1>5, <2>1, AppendBehind
<1>8. CompleteBefore(new, missed[h], g)
  BY <1>1, <1>6, AmongInstances DEF CompleteBefore
<1>9. ASSUME NEW j \in 0..((i + 1) - 1) PROVE <<g, j>> \in PlacesOf(new)
  <2>1. CASE j = i
    BY <2>1, <1>6
  <2>2. CASE j # i
    BY <2>2, <1>1, <1>3, <1>6, AmongInstances
  <2> QED
    BY <2>1, <2>2
<1>10. CallType(c)
  <2>1. i + 1 \in Nat /\ i + 1 <= MIG[g] /\ call[h].request \in Requests
    BY <1>1, <1>3, AmongInstances
  <2> HIDE DEF new, out, g, i
  <2> QED
    BY <2>1, <1>3, <1>6 DEF CallType
<1>11. Gathered(c, missed[h])
  <2> HIDE DEF new
  <2> QED
    BY <1>7, <1>8, <1>9 DEF Gathered, Finished
<1>12. call' = [call EXCEPT ![h] = c]
  BY <1>2
<1>13. missed[h] \subseteq AllUnits /\ missed' = [missed EXCEPT ![h] = missed[h]]
  BY <1>1, AmongInstances, MissedStays
<1> HIDE DEF c
<1> QED
  BY <1>1, <1>10, <1>11, <1>12, <1>13 DEF Onward, Becomes

LEMMA BreakMIGGathered ==
  ASSUME Collecting, NEW h \in Handlers, BreakMIG(h)
  PROVE  Onward(h)
<1> DEFINE g == call[h].index
           out == call[h].out
           p == <<g, call[h].inst>>
           lost == missed[h] \cup {p}
<1>1. /\ call[h].pc = "instance" /\ call[h].inst < MIG[g]
      /\ NextGPU(h, out) /\ missed' = [missed EXCEPT ![h] = lost]
  BY DEF BreakMIG, AtInstance
<1>2. /\ g \in DOMAIN MIG /\ g \in Nat /\ g < NumGPUs /\ out \in Outs /\ Disjoint(out)
      /\ call[h].inst \in 0..(MIG[g] - 1) /\ missed[h] \subseteq AllUnits
  BY <1>1, AmongInstances
<1>3. p \in Units(g) /\ p \in AllUnits
  BY <1>1, <1>2, AmongInstances, PlacesOfGPUs
<1>4. Behind(out, g + 1, 0)
  BY <1>1, <1>2, AmongInstances, StillBehind
<1>5. CompleteBefore(out, lost, g + 1)
  <2>1. Units(g) \cap lost = {} => Units(g) \subseteq PlacesOf(out)
    BY <1>3
  <2> QED
    BY <1>1, <1>2, <2>1, AmongInstances, CompleteThrough
<1>6. lost \subseteq AllUnits
  BY <1>2, <1>3
<1> HIDE DEF lost
<1> QED
  BY <1>1, <1>2, <1>4, <1>5, <1>6, NextGPUGathered

LEMMA EndMIGGathered ==
  ASSUME Collecting, NEW h \in Handlers, EndMIG(h)
  PROVE  Onward(h)
<1> DEFINE g == call[h].index
           out == call[h].out
<1>1. /\ call[h].pc = "instance" /\ call[h].inst = MIG[g]
      /\ NextGPU(h, out) /\ missed' = [missed EXCEPT ![h] = missed[h]]
  BY MissedStays DEF EndMIG
<1>2. /\ g \in Nat /\ g < NumGPUs /\ out \in Outs /\ Disjoint(out)
      /\ missed[h] \subseteq AllUnits
  BY <1>1, AmongInstances
<1>3. Behind(out, g + 1, 0)
  BY <1>1, <1>2, AmongInstances, StillBehind
<1>4. CompleteBefore(out, missed[h], g + 1)
  <2>1. Units(g) \subseteq PlacesOf(out)
    BY <1>1, AmongInstances
  <2> QED
    BY <1>1, <1>2, <2>1, AmongInstances, CompleteThrough
<1> QED
  BY <1>1, <1>2, <1>3, <1>4, NextGPUGathered

LEMMA ReturnAllGathered ==
  ASSUME Collecting, NEW h \in Handlers, ReturnAll(h)
  PROVE  Onward(h)
<1>1. /\ call[h].pc = "gpu" /\ call[h].index = NumGPUs
      /\ Return(h, call[h].out)
  BY DEF ReturnAll
<1>2. call[h] # Idle /\ call[h].out \in Outs /\ Gathered(call[h], missed[h])
  BY <1>1, CallShapes
<1>3. Disjoint(call[h].out) /\ CompleteBefore(call[h].out, missed[h], NumGPUs)
  BY <1>1, <1>2 DEF Gathered
<1> QED
  BY <1>1, <1>2, <1>3, ReturnGathered

LEMMA StepGathered ==
  ASSUME Collecting, NEW h \in Handlers, Step(h)
  PROVE  Onward(h)
<1>1. CASE NoDevices(h) \/ AnswerValue(h)
  BY <1>1, AnswerGathered DEF NoDevices, AnswerValue
<1> QED
  BY <1>1, CollectDeviceGathered, CollectByUUIDGathered, DeviceCountGathered,
     SkipGPUGathered, ReadGPUGathered, EnterMIGGathered, ReadInstanceGathered,
     BreakMIGGathered, EndMIGGathered, ReturnAllGathered DEF Step

-----------------------------------------------------------------------------
(* Calls and locks *)

LEMMA CallGathered ==
  ASSUME Collecting, NEW h \in Handlers, NEW r \in Requests, getMetricValue(h, r)
  PROVE  Onward(h)
<1> DEFINE c == [pc |-> "lock", request |-> r]
<1>1. CallType(c) /\ Gathered(c, missed[h])
  BY DEF CallType, Gathered, Finished
<1>2. missed[h] \subseteq AllUnits /\ missed' = [missed EXCEPT ![h] = missed[h]]
  BY CallShapes, MissedStays DEF getMetricValue
<1> QED
  BY <1>1, <1>2 DEF getMetricValue, Onward, Becomes

LEMMA LockCollecting ==
  ASSUME Collecting, NEW h \in Handlers, Lock(h)
  PROVE  Collecting'
<1> DEFINE r == call[h].request
           next == IF r.uuid # None THEN "uuid"
                   ELSE IF r.gpuIndex >= 0 THEN "device" ELSE "count"
           c == [pc |-> next, request |-> r]
<1>1. call[h].pc = "lock" /\ call[h] # Idle /\ r \in Requests
  BY CallShapes DEF Lock
<1>2. call' = [call EXCEPT ![h] = c]
  <2>1. call[h] \in [pc : {"lock", "device", "uuid", "count"}, request : Requests]
    BY <1>1 DEF Collecting, CollectionTypeOK, CallType, Idle
  <2>2. [call[h] EXCEPT !.pc = next] = c
    BY <2>1
  <2>3. call' = [call EXCEPT ![h] = [call[h] EXCEPT !.pc = next]]
    BY DEF Lock
  <2> QED
    BY <2>2, <2>3
<1>3. CallType(c) /\ Gathered(c, {})
  BY <1>1 DEF CallType, Gathered, Finished
<1>4. seen' \in [Handlers -> SUBSET (0..MaxLoad)]
  <2>1. {load[p] : p \in AskedFor(r)} \subseteq 0..MaxLoad
    BY MeasuredPlaces DEF Collecting, CollectionTypeOK
  <2> QED
    BY <2>1 DEF Lock, Collecting, CollectionTypeOK
<1>5. load' = load /\ mu' = h /\ missed' = [missed EXCEPT ![h] = {}]
  BY DEF Lock
<1> HIDE DEF c
<1>6. Becomes(h, c, {})
  BY <1>2, <1>3, <1>5 DEF Becomes
<1> QED
  BY <1>4, <1>5, <1>6, BecomesCollecting

LEMMA OnwardCollecting ==
  ASSUME Collecting, NEW h \in Handlers, Onward(h)
  PROVE  Collecting'
<1>1. PICK c, lost : Becomes(h, c, lost)
  BY DEF Onward
<1>2. /\ load' = load /\ mu' \in Handlers \cup {None}
      /\ seen' \in [Handlers -> SUBSET (0..MaxLoad)]
  BY DEF Onward, Collecting, CollectionTypeOK
<1> QED
  BY <1>1, <1>2, BecomesCollecting

LEMMA CollectingInit == Init => Collecting
<1> SUFFICES ASSUME Init PROVE Collecting
  OBVIOUS
<1>1. CollectionTypeOK
  BY IdleGathered DEF Init, CollectionTypeOK
<1>2. CollectsInOrder
  BY IdleGathered DEF Init, CollectsInOrder
<1> QED
  BY <1>1, <1>2 DEF Collecting

LEMMA CollectingNext == Collecting /\ [Next]_vars => Collecting'
<1> SUFFICES ASSUME Collecting, [Next]_vars PROVE Collecting'
  OBVIOUS
<1>1. ASSUME NEW p \in Places, NEW v \in 0..MaxLoad, Fluctuate(p, v)
      PROVE  Collecting'
  <2>1. /\ load' \in [Places -> 0..MaxLoad]
        /\ seen' \in [Handlers -> SUBSET (0..MaxLoad)]
    BY <1>1 DEF Fluctuate, Collecting, CollectionTypeOK
  <2> QED
    BY <1>1, <2>1 DEF Fluctuate, Collecting, CollectionTypeOK, CollectsInOrder,
       CallType, Gathered, Finished
<1>2. ASSUME NEW h \in Handlers, NEW r \in Requests, getMetricValue(h, r)
      PROVE  Collecting'
  BY <1>2, CallGathered, OnwardCollecting
<1>3. ASSUME NEW h \in Handlers, Step(h) PROVE Collecting'
  BY <1>3, StepGathered, OnwardCollecting
<1>4. CASE UNCHANGED vars
  BY <1>4 DEF vars, Collecting, CollectionTypeOK, CollectsInOrder, CallType,
     Gathered, Finished
<1> QED
  BY <1>1, <1>2, <1>3, <1>4, LockCollecting DEF Next

-----------------------------------------------------------------------------
(* The theorems *)

LEMMA CollectingInvariant == Spec => []Collecting
BY CollectingInit, CollectingNext, PTL DEF Spec

(***************************************************************************)
(* A failed call costs no more than the places it is about: every other    *)
(* GPU is in the result of CollectAll with all its units.                  *)
(***************************************************************************)
THEOREM OneGPUNeverHidesAnother == Spec => []FailuresStayOnTheirGPU
<1>1. Collecting => FailuresStayOnTheirGPU
  BY DEF Collecting, CollectsInOrder, Gathered, FailuresStayOnTheirGPU
<1> QED
  BY <1>1, CollectingInvariant, PTL

(***************************************************************************)
(* The result of CollectAll has no unit twice, and no GPU beside one of    *)
(* its own instances.                                                      *)
(***************************************************************************)
THEOREM NothingCountedTwice == Spec => []CountedOnce
<1>1. Collecting => CountedOnce
  BY DEF Collecting, CollectsInOrder, Gathered, CountedOnce
<1> QED
  BY <1>1, CollectingInvariant, PTL

-----------------------------------------------------------------------------
(* What a handler has read *)

Sighted == Collecting /\ ReadsWereSeen /\ answer \in [Handlers -> Results]

LEMMA InSight ==
  ASSUME Sighted, NEW h \in Handlers
  PROVE  /\ Collecting
         /\ FromSeen(call[h], seen[h])
         /\ Reading(call[h]) =>
              /\ mu = h /\ call[h] # Idle
              /\ \A p \in AskedFor(call[h].request) : load[p] \in seen[h]
         /\ call[h] # Idle => answer[h].kind # "value"
         /\ answer[h].kind = "value" => AnswerSeen(answer[h], seen[h])
         /\ seen[h] \subseteq 0..MaxLoad
<1>1. FromSeen(call[h], seen[h]) /\ ReadsUnderLock(h)
        /\ Answered(answer[h], call[h], seen[h])
  BY DEF Sighted, ReadsWereSeen
<1>2. Reading(call[h]) => call[h] # Idle
  BY DEF Reading, Idle
<1>3. Collecting /\ seen[h] \subseteq 0..MaxLoad
  BY DEF Sighted, Collecting, CollectionTypeOK
<1> QED
  BY <1>1, <1>2, <1>3 DEF ReadsUnderLock, Answered

\* A read of a place asked for gives what is in `seen', or the 0 of a failed read.
LEMMA ReadStands ==
  ASSUME Sighted, NEW h \in Handlers, Reading(call[h]), NEW p,
         p \in Measured(call[h].request) => p \in AskedFor(call[h].request),
         NEW e \in Reads(call[h].request, p)
  PROVE  Stands(e, seen[h])
<1>1. CASE p \in Measured(call[h].request) /\ e = Entry(p, load[p], TRUE)
  <2>1. load[p] \in seen[h]
    BY <1>1, InSight
  <2> QED
    BY <1>1, <2>1 DEF Entry, Stands
<1>2. CASE e = Entry(p, 0, FALSE)
  BY <1>2 DEF Entry, Stands
<1> QED
  BY <1>1, <1>2 DEF Reads

\* A request for all GPUs asks for every place that has the metric.
LEMMA AllAskedFor ==
  ASSUME Sighted, NEW h \in Handlers, call[h].pc \in {"count", "gpu", "instance"}
  PROVE  AskedFor(call[h].request) = Measured(call[h].request)
BY InSight DEF FromSeen, AskedFor

\* Handler h becomes call c with answer a, as what it has seen allows.
Advances(h, c, a) ==
  /\ call' = [call EXCEPT ![h] = c]
  /\ answer' = [answer EXCEPT ![h] = a]
  /\ load' = load /\ seen' = seen
  /\ a \in Results
  /\ FromSeen(c, seen[h]) /\ Answered(a, c, seen[h])
  /\ Reading(c) => Reading(call[h]) /\ c.request = call[h].request /\ mu' = mu
  /\ mu' = mu \/ (mu' = None /\ mu = h)

LEMMA AnswerStays ==
  ASSUME Sighted, NEW h \in Handlers, call[h] # Idle, UNCHANGED answer, NEW c
  PROVE  /\ answer' = [answer EXCEPT ![h] = answer[h]] /\ answer[h] \in Results
         /\ Answered(answer[h], c, seen[h])
BY InSight DEF Sighted, Answered

LEMMA NoAnswer ==
  ASSUME NEW c, NEW s
  PROVE  Failed \in Results /\ FromSeen(Idle, s) /\ Answered(Failed, c, s)
           /\ ~Reading(Idle)
BY DEF Failed, Results, FromSeen, Idle, Answered, Reading

LEMMA ReturnAdvances ==
  ASSUME Sighted, NEW h \in Handlers, NEW out, Return(h, out), Reading(call[h]),
         \A i \in DOMAIN out : Stands(out[i], seen[h])
  PROVE  \E c, a : Advances(h, c, a)
<1> DEFINE c == [pc |-> "collected", request |-> call[h].request, out |-> out]
<1>1. FromSeen(c, seen[h]) /\ ~Reading(c)
  BY DEF FromSeen, Reading
<1> HIDE DEF c
<1> QED
  BY <1>1, InSight, AnswerStays DEF Return, Advances, c

LEMMA FailAdvances ==
  ASSUME Sighted, NEW h \in Handlers, Fail(h), Reading(call[h])
  PROVE  \E c, a : Advances(h, c, a)
BY InSight, NoAnswer DEF Fail, Advances

LEMMA NextGPUAdvances ==
  ASSUME Sighted, NEW h \in Handlers, NEW out, NextGPU(h, out),
         call[h].pc \in {"gpu", "instance"},
         \A i \in DOMAIN out : Stands(out[i], seen[h])
  PROVE  \E c, a : Advances(h, c, a)
<1> DEFINE c == [pc |-> "gpu", request |-> call[h].request,
                 index |-> call[h].index + 1, out |-> out]
<1>1. FromSeen(c, seen[h])
  BY InSight DEF FromSeen
<1>2. Reading(call[h]) /\ c.request = call[h].request
  BY DEF Reading
<1>3. call' = [call EXCEPT ![h] = c] /\ UNCHANGED <<load, mu, seen, answer>>
  BY DEF NextGPU
<1> HIDE DEF c
<1> QED
  BY <1>1, <1>2, <1>3, InSight, AnswerStays DEF Advances

\* One more entry that stands for what was seen.
LEMMA AppendStands ==
  ASSUME NEW out \in Outs, NEW e \in EntryType, NEW s, Stands(e, s),
         \A i \in DOMAIN out : Stands(out[i], s)
  PROVE  \A i \in DOMAIN Append(out, e) : Stands(Append(out, e)[i], s)
<1> TAKE i \in DOMAIN Append(out, e)
<1>1. i \in DOMAIN out \/ i = Len(out) + 1
  BY AppendOut
<1> QED
  BY <1>1, AppendOut

LEMMA CollectDeviceAdvances ==
  ASSUME Sighted, NEW h \in Handlers, CollectDevice(h)
  PROVE  \E c, a : Advances(h, c, a)
<1> DEFINE r == call[h].request
           p == <<r.gpuIndex, Chip>>
<1>1. call[h].pc = "device" /\ Reading(call[h]) /\ r.gpuIndex >= 0 /\ r.uuid = None
  BY InSight, CallShapes DEF CollectDevice, Reading, FromSeen, Gathered
<1>2. ASSUME NEW e \in Reads(r, p), Return(h, <<e>>)
      PROVE  \E c, a : Advances(h, c, a)
  <2>1. p \in Measured(r) => p \in AskedFor(r)
    BY <1>1 DEF AskedFor
  <2> HIDE DEF p
  <2>2. Stands(e, seen[h])
    BY <1>1, <1>2, <2>1, ReadStands
  <2>3. \A i \in DOMAIN <<e>> : Stands(<<e>>[i], seen[h])
    BY <2>2
  <2> QED
    BY <1>1, <1>2, <2>3, ReturnAdvances
<1> QED
  BY <1>1, <1>2, FailAdvances DEF CollectDevice

LEMMA CollectByUUIDAdvances ==
  ASSUME Sighted, NEW h \in Handlers, CollectByUUID(h)
  PROVE  \E c, a : Advances(h, c, a)
<1> DEFINE r == call[h].request
           p == r.uuid
           parent == <<p[1], Chip>>
<1>1. call[h].pc = "uuid" /\ Reading(call[h]) /\ p # None
  BY InSight, CallShapes DEF CollectByUUID, Reading, Gathered
<1>2. ASSUME NEW e, Stands(e, seen[h]), Return(h, <<e>>)
      PROVE  \E c, a : Advances(h, c, a)
  <2>1. \A i \in DOMAIN <<e>> : Stands(<<e>>[i], seen[h])
    BY <1>2
  <2> QED
    BY <1>1, <1>2, <2>1, ReturnAdvances
<1>3. ASSUME p \in Places, r.chipLevel, NEW e \in FromParent(r, p)
      PROVE  Stands(e, seen[h])
  <2>1. CASE e = Entry(p, 0, FALSE)
    BY <2>1 DEF Entry, Stands
  <2>2. ASSUME NEW f \in Reads(r, parent), e = [f EXCEPT !.place = p]
        PROVE  Stands(e, seen[h])
    <3>1. parent \in Measured(r) => parent \in AskedFor(r)
      BY <1>1, <1>3 DEF AskedFor
    <3>2. parent \in Places
      BY <1>3, PlacePairs, PlacesOfGPUs
    <3> HIDE DEF parent
    <3>3. Stands(f, seen[h])
      BY <1>1, <2>2, <3>1, ReadStands
    <3>4. f \in EntryType
      BY <2>2, <3>2, ReadsTyped DEF Sighted, Collecting
    <3>5. e.read = f.read /\ e.value = f.value
      BY <2>2, <3>4 DEF EntryType
    <3> QED
      BY <3>3, <3>5 DEF Stands
  <2> QED
    BY <1>3, <2>1, <2>2 DEF FromParent
<1>4. ASSUME p \in Places, NEW e \in Reads(r, p), ~(r.chipLevel /\ p[2] # Chip)
      PROVE  Stands(e, seen[h])
  <2>1. p \in Measured(r) => p \in AskedFor(r)
    BY <1>1 DEF AskedFor
  <2> QED
    BY <1>1, <1>4, <2>1, ReadStands
<1> QED
  BY <1>1, <1>2, <1>3, <1>4, FailAdvances DEF CollectByUUID

LEMMA DeviceCountAdvances ==
  ASSUME Sighted, NEW h \in Handlers, DeviceCount(h)
  PROVE  \E c, a : Advances(h, c, a)
<1> DEFINE c == [pc |-> "gpu", request |-> call[h].request, index |-> 0, out |-> <<>>]
<1>1. call[h].pc = "count" /\ Reading(call[h])
  BY DEF DeviceCount, Reading
<1>2. CASE /\ call' = [call EXCEPT ![h] = c]
           /\ UNCHANGED <<load, mu, seen, missed, answer>>
  <2>1. FromSeen(c, seen[h]) /\ c.request = call[h].request
    BY <1>1, InSight DEF FromSeen
  <2> HIDE DEF c
  <2> QED
    BY <1>1, <1>2, <2>1, InSight, AnswerStays DEF Advances
<1> QED
  BY <1>1, <1>2, FailAdvances DEF DeviceCount

\* What the handler has read where the loop reads GPU call[h].index.
LEMMA AtAGPUInSight ==
  ASSUME Sighted, NEW h \in Handlers, AtGPU(h)
  PROVE  /\ call[h].pc = "gpu" /\ Reading(call[h]) /\ call[h].out \in Outs
         /\ \A i \in DOMAIN call[h].out : Stands(call[h].out[i], seen[h])
         /\ \A e \in Reads(call[h].request, <<call[h].index, Chip>>) :
              e \in EntryType /\ Stands(e, seen[h])
<1> DEFINE p == <<call[h].index, Chip>>
<1>1. call[h].pc = "gpu" /\ Reading(call[h])
  BY DEF AtGPU, Reading
<1>2. \A i \in DOMAIN call[h].out : Stands(call[h].out[i], seen[h])
  BY <1>1, InSight DEF FromSeen
<1>3. call[h].out \in Outs /\ p \in Places
  BY InSight, AtAGPU, PlacesOfGPUs
<1>4. p \in Measured(call[h].request) => p \in AskedFor(call[h].request)
  BY <1>1, AllAskedFor
<1> HIDE DEF p
<1>5. \A e \in Reads(call[h].request, p) : e \in EntryType /\ Stands(e, seen[h])
  BY <1>1, <1>3, <1>4, ReadStands, ReadsTyped DEF Sighted, Collecting
<1> QED
  BY <1>1, <1>2, <1>3, <1>5 DEF p

LEMMA SkipGPUAdvances ==
  ASSUME Sighted, NEW h \in Handlers, SkipGPU(h)
  PROVE  \E c, a : Advances(h, c, a)
BY AtAGPUInSight, NextGPUAdvances DEF SkipGPU

LEMMA ReadGPUAdvances ==
  ASSUME Sighted, NEW h \in Handlers, ReadGPU(h)
  PROVE  \E c, a : Advances(h, c, a)
<1> DEFINE out == call[h].out
<1>1. PICK e \in Reads(call[h].request, <<call[h].index, Chip>>) :
        NextGPU(h, Append(out, e))
  BY DEF ReadGPU
<1>2. /\ call[h].pc = "gpu" /\ out \in Outs /\ e \in EntryType /\ Stands(e, seen[h])
      /\ \A i \in DOMAIN out : Stands(out[i], seen[h])
  BY AtAGPUInSight DEF ReadGPU
<1>3. \A i \in DOMAIN Append(out, e) : Stands(Append(out, e)[i], seen[h])
  <2> HIDE DEF out
  <2> QED
    BY <1>2, AppendStands
<1> QED
  BY <1>1, <1>2, <1>3, NextGPUAdvances

LEMMA EnterMIGAdvances ==
  ASSUME Sighted, NEW h \in Handlers, EnterMIG(h)
  PROVE  \E c, a : Advances(h, c, a)
<1>1. PICK e \in Reads(call[h].request, <<call[h].index, Chip>>) :
        call' = [call EXCEPT ![h] =
                  [pc |-> "instance", request |-> call[h].request,
                   index |-> call[h].index, inst |-> 0, chip |-> e,
                   out |-> call[h].out]]
  BY DEF EnterMIG
<1> DEFINE c == [pc |-> "instance", request |-> call[h].request,
                 index |-> call[h].index, inst |-> 0, chip |-> e,
                 out |-> call[h].out]
<1>2. AtGPU(h) /\ UNCHANGED <<load, mu, seen, answer>>
  BY DEF EnterMIG
<1>3. /\ call[h].pc = "gpu" /\ Reading(call[h]) /\ Stands(e, seen[h])
      /\ \A i \in DOMAIN call[h].out : Stands(call[h].out[i], seen[h])
  BY <1>2, AtAGPUInSight
<1>4. FromSeen(c, seen[h]) /\ c.request = call[h].request
  BY <1>3, InSight DEF FromSeen
<1> HIDE DEF c
<1> QED
  BY <1>1, <1>2, <1>3, <1>4, InSight, AnswerStays DEF Advances, c

LEMMA InstancesInSight ==
  ASSUME Sighted, NEW h \in Handlers, call[h].pc = "instance"
  PROVE  /\ Reading(call[h]) /\ call[h].out \in Outs
         /\ call[h].chip \in EntryType /\ Stands(call[h].chip, seen[h])
         /\ \A i \in DOMAIN call[h].out : Stands(call[h].out[i], seen[h])
BY InSight, AmongInstances DEF Reading, FromSeen

LEMMA ReadInstanceAdvances ==
  ASSUME Sighted, NEW h \in Handlers, ReadInstance(h)
  PROVE  \E c, a : Advances(h, c, a)
<1> DEFINE b == call[h]
           r == b.request
           p == <<b.index, b.inst>>
<1>1. PICK e \in (IF r.chipLevel THEN {[b.chip EXCEPT !.place = p]} ELSE Reads(r, p)) :
        call' = [call EXCEPT ![h] =
                   [pc |-> "instance", request |-> r, index |-> b.index,
                    inst |-> b.inst + 1, chip |-> b.chip, out |-> Append(b.out, e)]]
  BY InstanceRead, InSight
<1> DEFINE c == [pc |-> "instance", request |-> r, index |-> b.index,
                 inst |-> b.inst + 1, chip |-> b.chip, out |-> Append(b.out, e)]
<1>2. /\ b.pc = "instance" /\ UNCHANGED <<load, mu, seen, answer>>
      /\ b.inst \in 0..(MIG[b.index] - 1) /\ b.index \in DOMAIN MIG
  BY InSight, AmongInstances DEF ReadInstance, AtInstance
<1>3. p \in Places
  BY <1>2, PlacesOfGPUs
<1>4. Stands(e, seen[h]) /\ e \in EntryType
  <2>1. CASE r.chipLevel
    <3>1. e = [b.chip EXCEPT !.place = p]
      BY <1>1, <2>1
    <3>2. e \in EntryType
      BY <1>2, <1>3, <3>1, InstancesInSight, Moved
    <3>3. e.read = b.chip.read /\ e.value = b.chip.value
      BY <1>2, <3>1, InstancesInSight DEF EntryType
    <3> QED
      BY <1>2, <3>2, <3>3, InstancesInSight DEF Stands
  <2>2. CASE ~r.chipLevel
    <3>1. e \in Reads(r, p)
      BY <1>1, <2>2
    <3>2. p \in Measured(r) => p \in AskedFor(r)
      BY <1>2, AllAskedFor
    <3> HIDE DEF p
    <3> QED
      BY <1>2, <1>3, <3>1, <3>2, InstancesInSight, ReadStands, ReadsTyped
      DEF Sighted, Collecting
  <2> QED
    BY <2>1, <2>2
<1>5. \A i \in DOMAIN Append(b.out, e) : Stands(Append(b.out, e)[i], seen[h])
  BY <1>2, <1>4, InstancesInSight, AppendStands
<1>6. FromSeen(c, seen[h]) /\ c.request = call[h].request
  BY <1>2, <1>5, InSight, InstancesInSight DEF FromSeen
<1> HIDE DEF c
<1> QED
  BY <1>1, <1>2, <1>6, InSight, AnswerStays, InstancesInSight DEF Advances, c

LEMMA LeaveMIGAdvances ==
  ASSUME Sighted, NEW h \in Handlers, BreakMIG(h) \/ EndMIG(h)
  PROVE  \E c, a : Advances(h, c, a)
<1>1. call[h].pc = "instance" /\ NextGPU(h, call[h].out)
  BY DEF BreakMIG, EndMIG, AtInstance
<1> QED
  BY <1>1, InstancesInSight, NextGPUAdvances

LEMMA ReturnAllAdvances ==
  ASSUME Sighted, NEW h \in Handlers, ReturnAll(h)
  PROVE  \E c, a : Advances(h, c, a)
<1>1. call[h].pc = "gpu" /\ Return(h, call[h].out) /\ Reading(call[h])
  BY DEF ReturnAll, Reading
<1>2. \A i \in DOMAIN call[h].out : Stands(call[h].out[i], seen[h])
  BY <1>1, InSight DEF FromSeen
<1> QED
  BY <1>1, <1>2, ReturnAdvances

\* What getMetricValue makes of a non-empty result stands for what was seen.
LEMMA ValueSeen ==
  ASSUME Sighted, NEW h \in Handlers, call[h].pc = "collected", call[h].out # <<>>
  PROVE  Result(h) \in Results /\ AnswerSeen(Result(h), seen[h])
<1> DEFINE out == call[h].out
           r == call[h].request
           s == seen[h]
           values == valuesOf(out)
           hi == Max(s \cup {0})
           single == r.gpuIndex >= 0 \/ r.uuid # None
           v == IF single THEN Whole(out[1].value)
                ELSE aggregate(values, r.aggregation)
<1>1. /\ out \in Outs /\ out # <<>> /\ r \in Requests
      /\ s \subseteq 0..MaxLoad
      /\ \A i \in DOMAIN out : Stands(out[i], s)
      /\ r.aggregation \in Methods
  BY InSight, CallShapes, GpuCollectionAssumption DEF FromSeen
<1>2. /\ \A i \in DOMAIN out : out[i] \in EntryType
      /\ Len(out) \in Nat /\ Len(out) > 0 /\ DOMAIN out = 1..Len(out)
  BY <1>1 DEF Outs
<1>3. \A i \in DOMAIN out : out[i].value \in 0..MaxLoad /\ out[i].value \in Nat
                              /\ out[i].read \in BOOLEAN
  BY <1>2, GpuCollectionAssumption DEF EntryType
<1>4. hi \in Nat /\ \A n \in s \cup {0} : n <= hi
  <2>1. s \cup {0} \in SUBSET Nat /\ \A n \in s \cup {0} : n <= MaxLoad
    BY <1>1, GpuCollectionAssumption
  <2>2. MaxLoad \in Nat
    BY GpuCollectionAssumption
  <2> HIDE DEF s
  <2> QED
    BY <2>1, <2>2, MaxOf
<1>5. \A i \in DOMAIN out : 0 <= out[i].value /\ out[i].value <= hi
  <2> HIDE DEF hi, s, out
  <2> QED
    BY <1>1, <1>3, <1>4 DEF Stands
<1>6. /\ values \in Seq(Nat) /\ values # <<>>
      /\ DOMAIN values = DOMAIN out
      /\ \A i \in DOMAIN out : values[i] = out[i].value
  <2> HIDE DEF out
  <2>1. values = [i \in 1..Len(out) |-> out[i].value]
    BY <1>2 DEF valuesOf
  <2>2. \A i \in 1..Len(out) : out[i].value \in Nat
    BY <1>2, <1>3
  <2> HIDE DEF values
  <2>3. values \in Seq(Nat) /\ DOMAIN values = 1..Len(out)
    BY <1>2, <2>1, <2>2
  <2>4. values # <<>>
    BY <1>2, <2>3
  <2> QED
    BY <1>2, <2>1, <2>3, <2>4
<1>7. \A e \in ToSet(out) : \E i \in DOMAIN out : e = out[i]
  BY DEF ToSet
<1>8. \A i \in DOMAIN out : out[i] \in ToSet(out)
  BY DEF ToSet
<1>9. ASSUME \A e \in ToSet(out) : e.read
      PROVE  /\ Min(s) \in Nat
             /\ \A i \in DOMAIN out : Min(s) <= out[i].value
  <2>1. \A i \in DOMAIN out : out[i].value \in s
    BY <1>1, <1>8, <1>9 DEF Stands
  <2>2. s \in SUBSET Nat /\ s # {}
    BY <1>1, <1>2, <2>1, GpuCollectionAssumption
  <2> HIDE DEF s
  <2>3. Min(s) \in s /\ \A n \in s : Min(s) <= n
    BY <2>2, MinOf
  <2> QED
    BY <2>1, <2>2, <2>3
<1>10. v \in [num : Nat, den : Nat]
  <2>1. CASE single
    BY <1>2, <1>3, <2>1 DEF Whole
  <2>2. CASE ~single
    <3> HIDE DEF values, single, r
    <3> QED
      BY <1>1, <1>6, <2>2, AggregateType
  <2> QED
    BY <2>1, <2>2
<1>11. ASSUME NEW lo \in Nat, \A i \in DOMAIN out : lo <= out[i].value,
              r.aggregation # "sum"
       PROVE  AtMost(Whole(lo), v) /\ AtMost(v, Whole(hi))
  <2>1. CASE single
    <3>1. /\ v = Whole(out[1].value) /\ out[1].value \in Nat
          /\ lo <= out[1].value /\ out[1].value <= hi
      <4>1. 1 \in DOMAIN out
        BY <1>2
      <4> HIDE DEF hi, out
      <4> QED
        BY <4>1, <1>3, <1>5, <1>11, <2>1
    <3> HIDE DEF v, hi, out
    <3> QED
      BY <1>4, <3>1 DEF Whole, AtMost
  <2>2. CASE ~single
    <3>1. v = aggregate(values, r.aggregation) /\ r.aggregation \in Methods \ {"sum"}
      BY <1>1, <1>11, <2>2
    <3>2. \A i \in DOMAIN values : lo <= values[i] /\ values[i] <= hi
      BY <1>5, <1>6, <1>11
    <3> HIDE DEF v, hi, out, values, r
    <3> QED
      BY <1>4, <1>6, <3>1, <3>2, AggregateBetween
  <2> QED
    BY <2>1, <2>2
<1>12. Result(h) = [kind |-> "value", out |-> out, request |-> r, value |-> v]
  BY DEF Result
<1> HIDE DEF out, r, s, v, hi, values, single
<1>13. Result(h) \in Results
  BY <1>1, <1>10, <1>12 DEF Results
<1>14. ASSUME r.aggregation # "sum" PROVE AtMost(v, Whole(hi))
  <2>1. 0 \in Nat /\ \A i \in DOMAIN out : 0 <= out[i].value
    BY <1>5
  <2> QED
    BY <1>11, <1>14, <2>1
<1>15. ASSUME r.aggregation # "sum", \A e \in ToSet(out) : e.read
       PROVE  AtMost(Whole(Min(s)), v)
  BY <1>9, <1>11, <1>15
<1>16. AnswerSeen(Result(h), s)
  BY <1>1, <1>12, <1>14, <1>15 DEF AnswerSeen, hi
<1> QED
  BY <1>13, <1>16 DEF s

LEMMA AnswersAdvance ==
  ASSUME Sighted, NEW h \in Handlers, NoDevices(h) \/ AnswerValue(h)
  PROVE  \E c, a : Advances(h, c, a)
<1>1. CASE NoDevices(h)
  BY <1>1, NoAnswer DEF NoDevices, Answer, Advances
<1>2. CASE AnswerValue(h)
  <2>1. Answer(h, Result(h)) /\ call[h].pc = "collected" /\ call[h].out # <<>>
    BY <1>2 DEF AnswerValue
  <2>2. Result(h) \in Results /\ Answered(Result(h), Idle, seen[h])
    BY <2>1, ValueSeen DEF Answered
  <2> QED
    BY <2>1, <2>2, NoAnswer DEF Answer, Advances
<1> QED
  BY <1>1, <1>2

LEMMA CallAdvances ==
  ASSUME Sighted, NEW h \in Handlers, NEW r \in Requests, getMetricValue(h, r)
  PROVE  \E c, a : Advances(h, c, a)
<1> DEFINE c == [pc |-> "lock", request |-> r]
<1>1. FromSeen(c, seen[h]) /\ ~Reading(c)
  BY DEF FromSeen, Reading
<1> HIDE DEF c
<1> QED
  BY <1>1, NoAnswer DEF getMetricValue, Advances, c

LEMMA StepAdvances ==
  ASSUME Sighted, NEW h \in Handlers, Step(h)
  PROVE  \E c, a : Advances(h, c, a)
BY CollectDeviceAdvances, CollectByUUIDAdvances, DeviceCountAdvances, SkipGPUAdvances,
   ReadGPUAdvances, EnterMIGAdvances, ReadInstanceAdvances, LeaveMIGAdvances,
   ReturnAllAdvances, AnswersAdvance DEF Step

\* What ReadsWereSeen says of handler g in the next state.
SightedNext(g) ==
  /\ FromSeen(call'[g], seen'[g])
  /\ Reading(call'[g]) =>
       mu' = g /\ \A p \in AskedFor(call'[g].request) : load'[p] \in seen'[g]
  /\ Answered(answer'[g], call'[g], seen'[g])

LEMMA SightedPrimed ==
  ASSUME \A g \in Handlers : SightedNext(g)
  PROVE  ReadsWereSeen'
BY DEF SightedNext, ReadsWereSeen, ReadsUnderLock, FromSeen, Answered, Reading,
   Stands, AnswerSeen, AtMost, Whole, Idle, AskedFor, Measured

\* A handler that goes on leaves the others in sight.
LEMMA AdvancesSighted ==
  ASSUME Sighted, NEW h \in Handlers, Collecting', \E c, a : Advances(h, c, a)
  PROVE  Sighted'
<1>1. PICK c, a : Advances(h, c, a)
  OBVIOUS
<1>2. /\ DOMAIN call = Handlers /\ answer \in [Handlers -> Results]
      /\ call' = [call EXCEPT ![h] = c] /\ answer' = [answer EXCEPT ![h] = a]
      /\ a \in Results /\ load' = load /\ seen' = seen
  BY <1>1 DEF Sighted, Collecting, CollectionTypeOK, Advances
<1>3. /\ call'[h] = c /\ answer'[h] = a
      /\ \A g \in Handlers \ {h} : call'[g] = call[g] /\ answer'[g] = answer[g]
  BY <1>2
<1>4. SightedNext(h)
  <2>1. ASSUME Reading(c)
        PROVE  mu' = h /\ \A p \in AskedFor(c.request) : load'[p] \in seen'[h]
    <3>1. Reading(call[h]) /\ c.request = call[h].request /\ mu' = mu
      BY <1>1, <2>1 DEF Advances
    <3> QED
      BY <3>1, <1>2, InSight
  <2> QED
    BY <1>1, <1>2, <1>3, <2>1 DEF SightedNext, Advances
<1>5. ASSUME NEW g \in Handlers, g # h PROVE SightedNext(g)
  <2>1. call'[g] = call[g] /\ answer'[g] = answer[g]
    BY <1>3, <1>5
  <2>2. Reading(call[g]) => mu = g /\ mu' = g
    BY <1>1, <1>5, InSight DEF Advances
  <2>3. FromSeen(call[g], seen[g]) /\ Answered(answer[g], call[g], seen[g])
    BY DEF Sighted, ReadsWereSeen
  <2> QED
    BY <1>2, <2>1, <2>2, <2>3, InSight DEF SightedNext
<1>6. ReadsWereSeen'
  BY <1>4, <1>5, SightedPrimed
<1>7. (answer \in [Handlers -> Results])'
  BY <1>2 DEF Results, Failed, Outs, EntryType
<1> QED
  BY <1>6, <1>7 DEF Sighted

LEMMA LockSighted ==
  ASSUME Sighted, NEW h \in Handlers, Lock(h), Collecting'
  PROVE  Sighted'
<1> DEFINE r == call[h].request
           next == IF r.uuid # None THEN "uuid"
                   ELSE IF r.gpuIndex >= 0 THEN "device" ELSE "count"
<1>1. call[h].pc = "lock" /\ call[h] # Idle /\ r \in Requests /\ mu = None
  BY InSight, CallShapes DEF Lock
<1>2. /\ DOMAIN call = Handlers /\ DOMAIN seen = Handlers
      /\ call' = [call EXCEPT ![h].pc = next] /\ mu' = h
      /\ seen' = [seen EXCEPT ![h] = {load[p] : p \in AskedFor(r)}]
      /\ load' = load /\ answer' = answer
  BY DEF Lock, Sighted, Collecting, CollectionTypeOK
<1>3. call'[h].pc = next /\ call'[h].request = r
  <2>1. call[h] \in [pc : {"lock", "device", "uuid", "count"}, request : Requests]
    BY <1>1 DEF Sighted, Collecting, CollectionTypeOK, CallType, Idle
  <2> QED
    BY <1>2, <2>1
<1>4. seen'[h] = {load[p] : p \in AskedFor(r)}
  BY <1>2
<1>5. SightedNext(h)
  <2>1. r.gpuIndex \in Nat \cup {-1}
    BY <1>1, GpuCollectionAssumption
  <2>2. FromSeen(call'[h], seen'[h])
    BY <1>3, <2>1 DEF FromSeen
  <2>3. Answered(answer'[h], call'[h], seen'[h])
    BY <1>1, <1>2, InSight DEF Answered
  <2>4. \A p \in AskedFor(r) : load'[p] \in seen'[h]
    BY <1>2, <1>4
  <2> HIDE DEF r, next
  <2> QED
    BY <1>2, <1>3, <2>2, <2>3, <2>4 DEF SightedNext
<1>6. ASSUME NEW g \in Handlers, g # h PROVE SightedNext(g)
  <2>1. call'[g] = call[g] /\ seen'[g] = seen[g]
    BY <1>2, <1>6
  <2>2. ~Reading(call[g])
    BY <1>1, InSight, GpuCollectionAssumption
  <2>3. FromSeen(call[g], seen[g]) /\ Answered(answer[g], call[g], seen[g])
    BY DEF Sighted, ReadsWereSeen
  <2> QED
    BY <1>2, <2>1, <2>2, <2>3 DEF SightedNext
<1>7. ReadsWereSeen'
  BY <1>5, <1>6, SightedPrimed
<1>8. (answer \in [Handlers -> Results])'
  BY <1>2 DEF Sighted, Results, Failed, Outs, EntryType
<1> QED
  BY <1>7, <1>8 DEF Sighted

\* The workload moves: `seen' of the handler that reads the place grows with it.
LEMMA FluctuateSighted ==
  ASSUME Sighted, NEW p \in Places, NEW v \in 0..MaxLoad, Fluctuate(p, v), Collecting'
  PROVE  Sighted'
<1>1. /\ load' = [load EXCEPT ![p] = v] /\ DOMAIN load = Places
      /\ seen' = [h \in Handlers |->
                    IF Watches(h, p) THEN seen[h] \cup {v} ELSE seen[h]]
      /\ mu' = mu /\ call' = call /\ answer' = answer
  BY DEF Fluctuate, Sighted, Collecting, CollectionTypeOK
<1>2. ASSUME NEW h \in Handlers PROVE SightedNext(h)
  <2>1. FromSeen(call[h], seen[h]) /\ Answered(answer[h], call[h], seen[h])
    BY DEF Sighted, ReadsWereSeen
  <2>2. seen[h] \subseteq seen'[h]
    BY <1>1
  <2>3. FromSeen(call[h], seen'[h])
    BY <2>1, <2>2 DEF FromSeen, Stands
  <2>4. Answered(answer[h], call[h], seen'[h])
    <3>1. CASE Watches(h, p)
      BY <3>1, InSight DEF Watches, Answered
    <3>2. CASE ~Watches(h, p)
      BY <1>1, <2>1, <3>2
    <3> QED
      BY <3>1, <3>2
  <2>5. ASSUME Reading(call[h]), NEW q \in AskedFor(call[h].request)
        PROVE  mu = h /\ load'[q] \in seen'[h]
    <3>1. mu = h /\ call[h] # Idle /\ load[q] \in seen[h] /\ q \in Places
      BY <2>5, InSight, MeasuredPlaces
    <3>2. CASE q = p
      <4>1. Watches(h, p)
        BY <2>5, <3>1, <3>2 DEF Watches
      <4> QED
        BY <1>1, <3>1, <3>2, <4>1
    <3>3. CASE q # p
      BY <1>1, <2>2, <3>1, <3>3
    <3> QED
      BY <3>2, <3>3
  <2>6. Reading(call[h]) => mu = h
    BY InSight
  <2> QED
    BY <1>1, <2>3, <2>4, <2>5, <2>6 DEF SightedNext
<1>3. ReadsWereSeen'
  BY <1>2, SightedPrimed
<1>4. (answer \in [Handlers -> Results])'
  BY <1>1 DEF Sighted, Results, Failed, Outs, EntryType
<1> QED
  BY <1>3, <1>4 DEF Sighted

LEMMA SightedInit == Init => Sighted
<1> SUFFICES ASSUME Init PROVE Sighted
  OBVIOUS
<1>1. Collecting
  BY CollectingInit
<1>2. \A h \in Handlers : /\ call[h] = Idle /\ answer[h] = Failed
                          /\ FromSeen(Idle, seen[h]) /\ ~Reading(Idle)
                          /\ Answered(Failed, Idle, seen[h])
  BY NoAnswer DEF Init
<1>3. ReadsWereSeen
  BY <1>2 DEF ReadsWereSeen, ReadsUnderLock
<1>4. answer \in [Handlers -> Results]
  BY NoAnswer DEF Init
<1> QED
  BY <1>1, <1>3, <1>4 DEF Sighted

LEMMA SightedNextStep == Sighted /\ [Next]_vars => Sighted'
<1> SUFFICES ASSUME Sighted, [Next]_vars PROVE Sighted'
  OBVIOUS
<1>1. Collecting'
  BY CollectingNext DEF Sighted
<1>2. CASE UNCHANGED vars
  <2>1. /\ call' = call /\ seen' = seen /\ answer' = answer
        /\ load' = load /\ mu' = mu
    BY <1>2 DEF vars
  <2>2. \A h \in Handlers : SightedNext(h)
    BY <2>1 DEF Sighted, ReadsWereSeen, ReadsUnderLock, SightedNext
  <2>3. (answer \in [Handlers -> Results])'
    BY <2>1 DEF Sighted, Results, Failed, Outs, EntryType
  <2> QED
    BY <1>1, <2>2, <2>3, SightedPrimed DEF Sighted
<1>3. ASSUME NEW h \in Handlers, NEW r \in Requests, getMetricValue(h, r)
      PROVE  Sighted'
  BY <1>1, <1>3, CallAdvances, AdvancesSighted
<1>4. ASSUME NEW h \in Handlers, Step(h) PROVE Sighted'
  BY <1>1, <1>4, StepAdvances, AdvancesSighted
<1> QED
  BY <1>1, <1>2, <1>3, <1>4, FluctuateSighted, LockSighted DEF Next

LEMMA SightedInvariant == Spec => []Sighted
BY SightedInit, SightedNextStep, PTL DEF Spec

(***************************************************************************)
(* Every reachable state has its types whatever fails: the index of the    *)
(* loop never passes the number of GPUs, that of the inner loop never the  *)
(* number of instances, every value is one that a place may have, and what *)
(* aggregate makes of any number of readings is a fraction of naturals.    *)
(***************************************************************************)
THEOREM TypeCorrect == Spec => []TypeOK
<1>1. Sighted => TypeOK
  BY DEF Sighted, Collecting, TypeOK
<1> QED
  BY <1>1, SightedInvariant, PTL

(***************************************************************************)
(* getMetricValue never answers with more than the devices asked for had   *)
(* during the collection or, if every read succeeded, with less ("sum"     *)
(* excepted), however the workload moved between the reads; and it never   *)
(* makes a number of no reading at all.                                    *)
(***************************************************************************)
THEOREM AnswersWereSeen == Spec => []AnswerWasSeen
<1>1. Sighted => AnswerWasSeen
  BY DEF Sighted, ReadsWereSeen, Answered, AnswerWasSeen
<1> QED
  BY <1>1, SightedInvariant, PTL
=============================================================================
