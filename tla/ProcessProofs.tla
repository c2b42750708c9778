--------------------------- MODULE ProcessProofs ----------------------------
(***************************************************************************)
(* Theorems about ScalerProcess, for any number of calls, streams and      *)
(* signals: its type, and that no handler outlives the collector.          *)
(***************************************************************************)
EXTENDS ScalerProcess, TLAPS

SignalCounts == [sent : 0..MaxSignals, buffered : 0..1]

LEMMA NoSignals == [sent |-> 0, buffered |-> 0] \in SignalCounts
BY ProcessAssumption DEF SignalCounts

LEMMA TypeInit == Init => TypeOK
BY NoSignals DEF Init, TypeOK, SignalCounts

\* The end of the process, and what its start leaves behind.
LEMMA ExitType ==
  ASSUME TypeOK, UNCHANGED host, Exit
  PROVE  TypeOK'
BY DEF TypeOK, Exit

LEMMA MainType ==
  ASSUME TypeOK, UNCHANGED host, MainStep
  PROVE  TypeOK'
<1>1. CASE InitCollector
  BY <1>1, ExitType DEF InitCollector, TypeOK
<1>2. CASE CountDevices
  BY <1>2, ExitType DEF CountDevices, TypeOK
<1>3. CASE FirstCollect
  BY <1>3 DEF FirstCollect, Answering, TypeOK
<1>4. CASE Listen
  BY <1>4, ExitType DEF Listen, TypeOK
<1>5. CASE NewHealthServer \/ StartChecker \/ NotifySignals
  BY <1>5 DEF NewHealthServer, StartChecker, NotifySignals, TypeOK
<1>6. CASE Serve
  BY <1>6, ExitType DEF Serve, TypeOK
<1>7. CASE ServeReturns
  BY <1>7 DEF ServeReturns, TypeOK
<1>8. CASE CloseCollector
  BY <1>8 DEF CloseCollector, TypeOK
<1>9. CASE MainReturns
  BY <1>9, ExitType DEF MainReturns
<1> QED
  BY <1>1, <1>2, <1>3, <1>4, <1>5, <1>6, <1>7, <1>8, <1>9 DEF MainStep

LEMMA RpcType ==
  ASSUME TypeOK, UNCHANGED host, NEW r \in Rpcs,
         Open(r) \/ StreamTick(r) \/ Collect(r) \/ StreamEnds(r)
  PROVE  TypeOK'
<1>1. rpc' \in [Rpcs -> {"none", "select", "collect"}]
  BY DEF TypeOK, Open, StreamTick, Collect, StreamEnds
<1>2. collected' \in BOOLEAN
  BY DEF TypeOK, Open, StreamTick, Collect, StreamEnds, Answering
<1> QED
  BY <1>1, <1>2 DEF TypeOK, Open, StreamTick, Collect, StreamEnds

LEMMA TypeNext == TypeOK /\ [Next]_vars => TypeOK'
<1> SUFFICES ASSUME TypeOK, [Next]_vars PROVE TypeOK'
  OBVIOUS
<1>1. CASE UNCHANGED vars
  BY <1>1 DEF vars, changing, process, TypeOK
<1>2. CASE Next
  <2>1. UNCHANGED host
    BY <1>2 DEF Next
  <2>2. CASE NVMLChanges
    BY <2>1, <2>2 DEF NVMLChanges, process, TypeOK
  <2>3. CASE HTTPServerFails \/ Killed
    BY <2>1, <2>3, ExitType DEF HTTPServerFails, Killed
  <2>4. CASE Boot
    BY <2>1, <2>4, NoSignals DEF Boot, TypeOK, SignalCounts
  <2>5. CASE Signal
    <3>1. CASE Exit
      BY <2>1, <3>1, ExitType
    <3>2. CASE ~Exit
      <4>1. signals' \in SignalCounts
        BY <2>5, <3>2, ProcessAssumption DEF Signal, TypeOK, SignalCounts
      <4> QED
        BY <2>1, <2>5, <3>2, <4>1 DEF Signal, TypeOK, SignalCounts
    <3> QED
      BY <3>1, <3>2
  <2>6. CASE MainStep
    BY <2>1, <2>6, MainType
  <2>7. CASE HandlerStep
    <3>1. signals' \in SignalCounts
      BY <2>7 DEF HandlerStep, ReceiveSignal, CancelChecker, BeginStop, Drained,
                  TypeOK, SignalCounts
    <3>2. /\ handler' \in {"cancel", "stop", "drain", "done"}
          /\ UNCHANGED <<nvml, main, opened, ready, collected, status, checker, rpc>>
      BY <2>7 DEF HandlerStep, ReceiveSignal, CancelChecker, BeginStop, Drained
    <3>3. cancelled' \in BOOLEAN
      BY <2>7 DEF HandlerStep, ReceiveSignal, CancelChecker, BeginStop, Drained, TypeOK
    <3> QED
      BY <2>1, <3>1, <3>2, <3>3 DEF TypeOK, SignalCounts
  <2>8. CASE CheckStep \/ CheckerTick \/ CheckerStops
    BY <2>1, <2>8 DEF CheckStep, CheckNVML, Publish, CheckerTick, CheckerStops, TypeOK
  <2>9. ASSUME NEW r \in Rpcs, Open(r) \/ StreamTick(r) \/ Collect(r) \/ StreamEnds(r)
        PROVE  TypeOK'
    BY <2>1, <2>9, RpcType
  <2> QED
    BY <1>2, <2>2, <2>3, <2>4, <2>5, <2>6, <2>7, <2>8, <2>9 DEF Next
<1> QED
  BY <1>1, <1>2

(***************************************************************************)
(* Type correctness of every reachable state, over restarts.               *)
(***************************************************************************)
THEOREM TypeCorrect == Spec => []TypeOK
BY TypeInit, TypeNext, PTL DEF Spec

-----------------------------------------------------------------------------

LEMMA OpenInit == Init => ServedWhileOpen
BY DEF Init, ServedWhileOpen

LEMMA ExitOpen ==
  ASSUME Exit
  PROVE  ServedWhileOpen'
BY DEF Exit, ServedWhileOpen

LEMMA MainOpen ==
  ASSUME TypeOK, ServedWhileOpen, MainStep
  PROVE  ServedWhileOpen'
<1>1. CASE InitCollector
  BY <1>1, ExitOpen DEF InitCollector, ServedWhileOpen
<1>2. CASE CountDevices \/ Listen \/ Serve \/ MainReturns
  BY <1>2, ExitOpen DEF CountDevices, Listen, Serve, MainReturns, ServedWhileOpen
<1>3. CASE FirstCollect \/ NewHealthServer \/ StartChecker \/ NotifySignals
  BY <1>3 DEF FirstCollect, NewHealthServer, StartChecker, NotifySignals,
              ServedWhileOpen
<1>4. CASE ServeReturns
  BY <1>4 DEF ServeReturns, ServedWhileOpen
<1>5. CASE CloseCollector
  BY <1>5 DEF CloseCollector, ServedWhileOpen
<1> QED
  BY <1>1, <1>2, <1>3, <1>4, <1>5 DEF MainStep

LEMMA OpenNext == TypeOK /\ ServedWhileOpen /\ [Next]_vars => ServedWhileOpen'
<1> SUFFICES ASSUME TypeOK, ServedWhileOpen, [Next]_vars PROVE ServedWhileOpen'
  OBVIOUS
<1>1. CASE NVMLChanges
  BY <1>1 DEF NVMLChanges, process, ServedWhileOpen
<1>2. CASE HTTPServerFails \/ Killed
  BY <1>2, ExitOpen DEF HTTPServerFails, Killed
<1>3. CASE Boot
  BY <1>3 DEF Boot, ServedWhileOpen
<1>4. CASE Signal
  BY <1>4, ExitOpen DEF Signal, ServedWhileOpen
<1>5. CASE MainStep
  BY <1>5, MainOpen
<1>6. CASE HandlerStep
  BY <1>6 DEF HandlerStep, ReceiveSignal, CancelChecker, BeginStop, Drained,
              ServedWhileOpen
<1>7. CASE CheckStep \/ CheckerTick \/ CheckerStops
  BY <1>7 DEF CheckStep, CheckNVML, Publish, CheckerTick, CheckerStops, ServedWhileOpen
<1>8. ASSUME NEW r \in Rpcs, Open(r) PROVE ServedWhileOpen'
  BY <1>8 DEF Open, Accepting, TypeOK, ServedWhileOpen
<1>9. ASSUME NEW r \in Rpcs, StreamTick(r) \/ Collect(r) \/ StreamEnds(r)
      PROVE  ServedWhileOpen'
  BY <1>9 DEF StreamTick, Collect, StreamEnds, TypeOK, ServedWhileOpen
<1>10. CASE UNCHANGED vars
  BY <1>10 DEF vars, changing, process, ServedWhileOpen
<1> QED
  BY <1>1, <1>2, <1>3, <1>4, <1>5, <1>6, <1>7, <1>8, <1>9, <1>10 DEF Next

(***************************************************************************)
(* No gRPC handler is left when the collector is closed, whatever signals, *)
(* failures and ends of start-up there are and however long streams last.  *)
(***************************************************************************)
THEOREM NoneAfterClose == Spec => []NoCallAfterClose
<1>1. ServedWhileOpen => NoCallAfterClose
  BY DEF ServedWhileOpen, NoCallAfterClose
<1> QED
  BY <1>1, TypeInit, TypeNext, OpenInit, OpenNext, PTL DEF Spec
=============================================================================
