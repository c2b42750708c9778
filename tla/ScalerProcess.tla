--------------------------- MODULE ScalerProcess ----------------------------
(***************************************************************************)
(* The keda-gpu-scaler process from start to exit                          *)
(* (cmd/keda-gpu-scaler/main.go) with the goroutines it starts: the health *)
(* checker (pkg/healthcheck), the signal handler and the gRPC handlers,    *)
(* and the readiness flag of pkg/probes.                                   *)
(*                                                                         *)
(* grpc-go and net/http are external: Serve, GracefulStop and the health   *)
(* server's status map are modelled by what main.go gets from them.        *)
(***************************************************************************)
EXTENDS Naturals

CONSTANTS
  Calls,       \* unary gRPC calls that can be open at once
  Streams,     \* StreamIsActive streams that can be open at once
  MaxSignals   \* bound on the signals sent to one process

ASSUME ProcessAssumption == MaxSignals \in Nat

VARIABLES
  host,       \* what the process starts on: [mock, inRange, devices], that is
              \* --mock-gpus > 0, --mock-gpu-utilization from 0 to 100, and the
              \* vendors whose device file exists
  nvml,       \* "up" or "down": whether NVML calls succeed now
  main,       \* where the main goroutine is
  opened,     \* the collector is initialised and not closed
  ready,      \* probeState.ready
  collected,  \* history: a CollectAll of this process has succeeded
  status,     \* serving status of "" in the gRPC health server
  checker,    \* the goroutine running Checker.Run
  cancelled,  \* checkerCtx is done
  handler,    \* the goroutine of the signal handler
  signals,    \* [sent, buffered]: signals so far, and those in sigCh
  rpc         \* rpc[r]: the gRPC handler of call or stream r

process == <<main, opened, ready, collected, status, checker, cancelled,
             handler, signals, rpc>>
changing == <<nvml, process>>
vars == <<host, changing>>

Rpcs == Calls \cup Streams
Vendors == {"nvidia", "amd"}
Hosts == [mock : BOOLEAN, inRange : BOOLEAN, devices : SUBSET Vendors]

Init ==
  /\ host \in Hosts
  /\ nvml \in {"up", "down"}
  /\ main = "init"
  /\ opened = FALSE
  /\ ready = FALSE
  /\ collected = FALSE
  /\ status = "none"
  /\ checker = "off"
  /\ cancelled = FALSE
  /\ handler = "off"
  /\ signals = [sent |-> 0, buffered |-> 0]
  /\ rpc = [r \in Rpcs |-> "none"]

\* The driver fails or recovers.
NVMLChanges ==
  /\ nvml' = IF nvml = "up" THEN "down" ELSE "up"
  /\ UNCHANGED process

-----------------------------------------------------------------------------
(* The process ends: every goroutine is gone with it. *)

Alive == main # "exited"

Exit ==
  /\ main' = "exited"
  /\ checker' = "off"
  /\ handler' = "off"
  /\ rpc' = [r \in Rpcs |-> "none"]
  /\ UNCHANGED <<nvml, opened, ready, collected, status, cancelled, signals>>

\* The kubelet starts the container again.
Boot ==
  /\ main = "exited"
  /\ main' = "init"
  /\ opened' = FALSE
  /\ ready' = FALSE
  /\ collected' = FALSE
  /\ status' = "none"
  /\ cancelled' = FALSE
  /\ signals' = [sent |-> 0, buffered |-> 0]
  /\ UNCHANGED <<nvml, checker, handler, rpc>>

\* The probe or the metrics HTTP server cannot listen: logger.Fatal.
HTTPServerFails ==
  /\ Alive
  /\ Exit

\* The grace period is over and the kubelet sends SIGKILL.
Killed ==
  /\ Alive
  /\ signals.sent > 0
  /\ Exit

-----------------------------------------------------------------------------
(* main *)

\* Synthetic devices never fail, NVML does while the driver is down.
Answering == host.mock \/ nvml = "up"

\* A host with device files of both vendors is an NVIDIA host.
detectVendor ==
  IF "nvidia" \in host.devices THEN "nvidia"
  ELSE IF "amd" \in host.devices THEN "amd" ELSE ""

\* There is a collector for NVIDIA only, and nvml.Init may fail.
NewCollectorForVendor(v) == v = "nvidia" /\ nvml = "up"

\* "no supported GPU device found"
NewDetectedCollector ==
  detectVendor # "" /\ NewCollectorForVendor(detectVendor)

\* --mock-gpu-utilization is looked at only with --mock-gpus.
CollectorMade == IF host.mock THEN host.inRange ELSE NewDetectedCollector

\* The synthetic GPUs of --mock-gpus, or the detected collector, or logger.Fatal.
InitCollector ==
  /\ main = "init"
  /\ \/ /\ CollectorMade
        /\ main' = "count"
        /\ opened' = TRUE
        /\ UNCHANGED <<nvml, ready, collected, status, checker, cancelled,
                       handler, signals, rpc>>
     \/ ~CollectorMade /\ Exit

\* metricsCollector.DeviceCount, or logger.Fatal.
CountDevices ==
  /\ main = "count"
  /\ \/ /\ Answering
        /\ main' = "collect"
        /\ UNCHANGED <<nvml, opened, ready, collected, status, checker,
                       cancelled, handler, signals, rpc>>
     \/ ~Answering /\ Exit

\* The first CollectAll: a failure is logged, a success makes /readyz 200.
FirstCollect ==
  /\ main = "collect"
  /\ main' = "listen"
  /\ ready' = Answering
  /\ collected' = Answering
  /\ UNCHANGED <<nvml, opened, status, checker, cancelled, handler, signals, rpc>>

\* net.Listen, or logger.Fatal.
Listen ==
  /\ main = "listen"
  /\ \/ /\ main' = "health"
        /\ UNCHANGED <<nvml, opened, ready, collected, status, checker, cancelled,
                       handler, signals, rpc>>
     \/ Exit

\* health.NewServer, whose map starts with SERVING for "".
NewHealthServer ==
  /\ main = "health"
  /\ main' = "checker"
  /\ status' = "SERVING"
  /\ UNCHANGED <<nvml, opened, ready, collected, checker, cancelled, handler,
                 signals, rpc>>

\* go checker.Run(checkerCtx)
StartChecker ==
  /\ main = "checker"
  /\ main' = "notify"
  /\ checker' = "check"
  /\ UNCHANGED <<nvml, opened, ready, collected, status, cancelled, handler,
                 signals, rpc>>

\* signal.Notify and the goroutine that waits on sigCh.
NotifySignals ==
  /\ main = "notify"
  /\ main' = "serve"
  /\ handler' = "wait"
  /\ UNCHANGED <<nvml, opened, ready, collected, status, checker, cancelled,
                 signals, rpc>>

\* grpcServer.Serve fails at once when GracefulStop has already run: Fatal.
Serve ==
  /\ main = "serve"
  /\ \/ /\ handler \in {"wait", "cancel", "stop"}
        /\ main' = "serving"
        /\ UNCHANGED <<nvml, opened, ready, collected, status, checker,
                       cancelled, handler, signals, rpc>>
     \/ handler \in {"drain", "done"} /\ Exit

\* Serve returns nil once GracefulStop is done; the deferred calls run.
ServeReturns ==
  /\ main = "serving"
  /\ handler = "done"
  /\ main' = "close"
  /\ cancelled' = TRUE
  /\ UNCHANGED <<nvml, opened, ready, collected, status, checker, handler,
                 signals, rpc>>

\* metricsCollector.Close; main returns afterwards.
CloseCollector ==
  /\ main = "close"
  /\ main' = "return"
  /\ opened' = FALSE
  /\ UNCHANGED <<nvml, ready, collected, status, checker, cancelled, handler,
                 signals, rpc>>

MainReturns == main = "return" /\ Exit

-----------------------------------------------------------------------------
(* The signal handler *)

\* Mutant of Signal: every signal is kept for the handler.
SignalQueued ==
  /\ Alive
  /\ signals.sent < MaxSignals
  /\ \/ handler = "off" /\ Exit
     \/ /\ handler # "off"
        /\ signals' = [sent |-> signals.sent + 1, buffered |-> signals.buffered + 1]
        /\ UNCHANGED <<nvml, main, opened, ready, collected, status, checker,
                       cancelled, handler, rpc>>

(***************************************************************************)
(* SIGTERM.  Before signal.Notify it ends the process; afterwards it goes  *)
(* into sigCh, which holds one, and is dropped when that is taken.         *)
(***************************************************************************)
Signal ==
  /\ Alive
  /\ signals.sent < MaxSignals
  /\ \/ handler = "off" /\ Exit
     \/ /\ handler # "off"
        /\ signals' = [sent |-> signals.sent + 1, buffered |-> 1]
        /\ UNCHANGED <<nvml, main, opened, ready, collected, status, checker,
                       cancelled, handler, rpc>>

ReceiveSignal ==
  /\ handler = "wait"
  /\ signals.buffered = 1
  /\ handler' = "cancel"
  /\ signals' = [signals EXCEPT !.buffered = 0]
  /\ UNCHANGED <<nvml, main, opened, ready, collected, status, checker,
                 cancelled, rpc>>

CancelChecker ==
  /\ handler = "cancel"
  /\ handler' = "stop"
  /\ cancelled' = TRUE
  /\ UNCHANGED <<nvml, main, opened, ready, collected, status, checker,
                 signals, rpc>>

\* GracefulStop closes the listener and sends GOAWAY: no new calls.
BeginStop ==
  /\ handler = "stop"
  /\ handler' = "drain"
  /\ UNCHANGED <<nvml, main, opened, ready, collected, status, checker,
                 cancelled, signals, rpc>>

\* Mutant of Drained: Stop in place of GracefulStop.
DrainedAtOnce ==
  /\ handler = "drain"
  /\ handler' = "done"
  /\ UNCHANGED <<nvml, main, opened, ready, collected, status, checker,
                 cancelled, signals, rpc>>

\* It returns when every open call and stream has ended.
Drained ==
  /\ handler = "drain"
  /\ \A r \in Rpcs : rpc[r] = "none"
  /\ handler' = "done"
  /\ UNCHANGED <<nvml, main, opened, ready, collected, status, checker,
                 cancelled, signals, rpc>>

-----------------------------------------------------------------------------
(* Checker.Run *)

\* Check calls DeviceCount; the answer is not published yet.
CheckNVML ==
  /\ checker = "check"
  /\ checker' = IF Answering /\ opened THEN "healthy" ELSE "unhealthy"
  /\ UNCHANGED <<nvml, main, opened, ready, collected, status, cancelled,
                 handler, signals, rpc>>

\* Mutant of Publish: the loop over the ticker is missing.
PublishOnce ==
  /\ checker \in {"healthy", "unhealthy"}
  /\ status' = IF checker = "healthy" THEN "SERVING" ELSE "NOT_SERVING"
  /\ checker' = "off"
  /\ UNCHANGED <<nvml, main, opened, ready, collected, cancelled, handler,
                 signals, rpc>>

\* SetServingStatus.
Publish ==
  /\ checker \in {"healthy", "unhealthy"}
  /\ status' = IF checker = "healthy" THEN "SERVING" ELSE "NOT_SERVING"
  /\ checker' = "select"
  /\ UNCHANGED <<nvml, main, opened, ready, collected, cancelled, handler,
                 signals, rpc>>

\* The ticker fires.  When ctx is done as well, select may still take it.
CheckerTick ==
  /\ checker = "select"
  /\ checker' = "check"
  /\ UNCHANGED <<nvml, main, opened, ready, collected, status, cancelled,
                 handler, signals, rpc>>

CheckerStops ==
  /\ checker = "select"
  /\ cancelled
  /\ checker' = "off"
  /\ UNCHANGED <<nvml, main, opened, ready, collected, status, cancelled,
                 handler, signals, rpc>>

-----------------------------------------------------------------------------
(* gRPC handlers *)

Accepting == main = "serving" /\ handler \in {"wait", "cancel", "stop"}

\* KEDA opens a call, or a stream that then waits for its ticker.
Open(r) ==
  /\ Accepting
  /\ rpc[r] = "none"
  /\ rpc' = [rpc EXCEPT ![r] = IF r \in Calls THEN "collect" ELSE "select"]
  /\ UNCHANGED <<nvml, main, opened, ready, collected, status, checker,
                 cancelled, handler, signals>>

\* A stream's ticker fires.
StreamTick(r) ==
  /\ r \in Streams
  /\ rpc[r] = "select"
  /\ rpc' = [rpc EXCEPT ![r] = "collect"]
  /\ UNCHANGED <<nvml, main, opened, ready, collected, status, checker,
                 cancelled, handler, signals>>

(***************************************************************************)
(* The handler collects.  A call returns the value or the error; a stream  *)
(* sends the value, skips the error, and waits again.                      *)
(***************************************************************************)
Collect(r) ==
  /\ rpc[r] = "collect"
  /\ collected' = (collected \/ Answering)
  /\ rpc' = [rpc EXCEPT ![r] = IF r \in Calls THEN "none" ELSE "select"]
  /\ UNCHANGED <<nvml, main, opened, ready, status, checker, cancelled,
                 handler, signals>>

\* Mutant of StreamEnds: the loop has no case for stream.Context().Done().
StreamEndsOnSend(r) ==
  /\ r \in Streams
  /\ rpc[r] = "collect"
  /\ rpc' = [rpc EXCEPT ![r] = "none"]
  /\ UNCHANGED <<nvml, main, opened, ready, collected, status, checker,
                 cancelled, handler, signals>>

\* The client has gone: ctx is done, or Send fails after a tick.
StreamEnds(r) ==
  /\ r \in Streams
  /\ rpc[r] \in {"select", "collect"}
  /\ rpc' = [rpc EXCEPT ![r] = "none"]
  /\ UNCHANGED <<nvml, main, opened, ready, collected, status, checker,
                 cancelled, handler, signals>>

-----------------------------------------------------------------------------

MainStep ==
  \/ InitCollector \/ CountDevices \/ FirstCollect \/ Listen
  \/ NewHealthServer \/ StartChecker \/ NotifySignals
  \/ Serve \/ ServeReturns \/ CloseCollector \/ MainReturns

HandlerStep == ReceiveSignal \/ CancelChecker \/ BeginStop \/ Drained

CheckStep == CheckNVML \/ Publish

Next ==
  /\ \/ NVMLChanges \/ HTTPServerFails \/ Killed \/ Boot \/ Signal
     \/ MainStep \/ HandlerStep
     \/ CheckStep \/ CheckerTick \/ CheckerStops
     \/ \E r \in Rpcs : Open(r) \/ StreamTick(r) \/ Collect(r) \/ StreamEnds(r)
  /\ UNCHANGED host

Spec == Init /\ [][Next]_vars

(***************************************************************************)
(* Fairness: goroutines that can run do, tickers fire, the kubelet starts  *)
(* the container again, and a client closes a stream in the end.           *)
(***************************************************************************)
GoroutineFairness ==
  /\ WF_changing(MainStep) /\ WF_changing(HandlerStep)
  /\ WF_changing(CheckStep) /\ WF_changing(CheckerTick)
  /\ \A r \in Rpcs : WF_changing(Collect(r))
  /\ WF_changing(Boot)

ClientFairness == \A r \in Streams : SF_changing(StreamEnds(r))

FairSpec == Spec /\ GoroutineFairness /\ ClientFairness

-----------------------------------------------------------------------------
(* Safety *)

TypeOK ==
  /\ host \in Hosts
  /\ nvml \in {"up", "down"}
  /\ main \in {"init", "count", "collect", "listen", "health", "checker", "notify",
              "serve", "serving", "close", "return", "exited"}
  /\ opened \in BOOLEAN /\ ready \in BOOLEAN /\ collected \in BOOLEAN
  /\ status \in {"none", "SERVING", "NOT_SERVING"}
  /\ checker \in {"off", "check", "healthy", "unhealthy", "select"}
  /\ cancelled \in BOOLEAN
  /\ handler \in {"off", "wait", "cancel", "stop", "drain", "done"}
  /\ signals \in [sent : 0..MaxSignals, buffered : 0..1]
  /\ rpc \in [Rpcs -> {"none", "select", "collect"}]

(***************************************************************************)
(* No gRPC handler reads NVML after nvml.Shutdown: the deferred Close runs *)
(* only after GracefulStop has waited for every call and stream.           *)
(***************************************************************************)
NoCallAfterClose == \A r \in Rpcs : rpc[r] # "none" => opened

(***************************************************************************)
(* The inductive invariant behind it: the collector is open from           *)
(* InitCollector to Close, and while a call or a stream is open, Serve has *)
(* not returned and GracefulStop is still waiting for it.                  *)
(***************************************************************************)
ServedWhileOpen ==
  /\ main \in {"count", "collect", "listen", "health", "checker", "notify", "serve",
              "serving", "close"}
       => opened
  /\ \A r \in Rpcs : rpc[r] # "none" =>
       main = "serving" /\ handler \in {"wait", "cancel", "stop", "drain"}

(***************************************************************************)
(* README.md and docs/configuration.md: "/readyz returns 200 after NVML    *)
(* initializes and the first metrics collection succeeds".                 *)
(***************************************************************************)
ReadyOnceCollected == collected => ready

(* Liveness *)

(***************************************************************************)
(* The health status follows NVML: it settles on SERVING when NVML stays   *)
(* up and on NOT_SERVING when it stays down, whatever a check in flight    *)
(* had seen (README.md, gRPC health check), and on SERVING with synthetic  *)
(* GPUs, whatever the driver does.                                         *)
(***************************************************************************)
HealthFollowsNVML ==
  /\ <>[](Alive /\ signals.sent = 0 /\ (host.mock \/ nvml = "up")) =>
       <>[](status = "SERVING")
  /\ <>[](Alive /\ signals.sent = 0 /\ ~host.mock /\ nvml = "down") =>
       <>[](status = "NOT_SERVING")

(***************************************************************************)
(* A signal ends the process, at whatever point of start-up, service or    *)
(* shutdown it comes, provided that clients close their streams.           *)
(***************************************************************************)
ShutsDown == signals.sent > 0 ~> main = "exited"
=============================================================================
