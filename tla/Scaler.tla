------------------------------- MODULE Scaler -------------------------------
(***************************************************************************)
(* The gRPC service of pkg/scaler/server.go as KEDA meets it: GetMetrics   *)
(* with its cooldown (module Cooldown) together with the two ways of       *)
(* asking whether a workload is active, IsActive and StreamIsActive, and   *)
(* with the end of the process, which takes every call, every stream and   *)
(* the cooldown map with it.                                               *)
(*                                                                         *)
(* GetMetrics answers with the value the cooldown holds, IsActive and the  *)
(* streams with the raw reading: the two answers may differ for a while.   *)
(* A trigger has two more fields here, `threshold' for activationThreshold *)
(* and `interval' for pollIntervalSeconds.                                 *)
(***************************************************************************)
EXTENDS Cooldown

CONSTANTS
  Askers,       \* goroutines that can serve IsActive at the same time
  Streams,      \* goroutines that can serve StreamIsActive at the same time
  MaxRestarts   \* bound on the restarts of the process

ASSUME ScalerAssumption ==
  /\ MaxRestarts \in Nat
  /\ \A t \in Triggers : t.threshold \in Nat /\ t.interval \in Int

VARIABLES
  ask,       \* ask[a]: the IsActive call asker a is running
  stream,    \* stream[s]: the StreamIsActive call stream s is running
  active,    \* active[g]: the activity KEDA was last told for gate g, or None
  restarts,  \* how often the process was restarted
  early      \* history: falls of a key reported before the cooldown was over,
             \* since the process started

cooldownVars == <<level, call, cooldowns, reported, sinceFall>>
activity == <<ask, stream, active>>
scalerVars == <<cooldownVars, activity, restarts, early>>

Closed == [pc |-> "closed"]

(***************************************************************************)
(* What an activity answer is about: a series and its threshold.           *)
(***************************************************************************)
Gate(t) == [key |-> newCooldownKey(t), threshold |-> t.threshold]
Gates == {Gate(t) : t \in Triggers}

AskStates == {Idle} \cup [pc : {"collected"}, gate : Gates, result : BOOLEAN]

\* A stream waits in its select or sends an answer.  `tick' is the ticker's
\* channel, which holds one tick; `gone' says that the stream's context is done.
OpenStreams ==
  [pc : {"select"}, trigger : Triggers, tick : BOOLEAN, gone : BOOLEAN]
    \cup [pc : {"sending"}, trigger : Triggers, tick : BOOLEAN, gone : BOOLEAN,
          result : BOOLEAN]

\* Mutant of Above: a value at the threshold counts as activity.
AtThreshold(v, threshold) == AtLeast(v, threshold)

\* value > cfg.activationThreshold on float64
Above(v, threshold) == v # NaN /\ v > threshold

-----------------------------------------------------------------------------

ScalerInit ==
  /\ Init
  /\ ask = [a \in Askers |-> Idle]
  /\ stream = [s \in Streams |-> Closed]
  /\ active = [g \in Gates |-> None]
  /\ restarts = 0
  /\ early = [k \in Keys |-> 0]

-----------------------------------------------------------------------------
(* IsActive *)

\* KEDA asks and getMetricValue reads the source, at any time before the
\* answer.  A call whose reading fails returns the error and changes nothing.
IsActive(a, t) ==
  /\ ask[a] = Idle
  /\ ask' = [ask EXCEPT ![a] = [pc |-> "collected", gate |-> Gate(t),
                                result |-> Above(level[t.source], t.threshold)]]
  /\ UNCHANGED <<cooldownVars, stream, active, restarts, early>>

\* The answer is the raw reading's: applyCooldown is not called.
IsActiveAnswers(a) ==
  /\ ask[a].pc = "collected"
  /\ active' = [active EXCEPT ![ask[a].gate] = ask[a].result]
  /\ ask' = [ask EXCEPT ![a] = Idle]
  /\ UNCHANGED <<cooldownVars, stream, restarts, early>>

-----------------------------------------------------------------------------
(* The process *)

\* The process dies with everything it remembers and the pod is started anew;
\* what KEDA was told stays told.
Restart ==
  /\ restarts < MaxRestarts
  /\ restarts' = restarts + 1
  /\ call' = [h \in Handlers |-> Idle]
  /\ cooldowns' = [k \in {} |-> None]
  /\ ask' = [a \in Askers |-> Idle]
  /\ stream' = [s \in Streams |-> Closed]
  /\ early' = [k \in Keys |-> 0]
  /\ UNCHANGED <<level, history, active>>

-----------------------------------------------------------------------------
(* StreamIsActive *)

\* time.NewTicker takes the interval.
StreamIsActive(s, t) ==
  /\ stream[s] = Closed
  /\ t.interval > 0
  /\ stream' = [stream EXCEPT ![s] = [pc |-> "select", trigger |-> t,
                                      tick |-> FALSE, gone |-> FALSE]]
  /\ UNCHANGED <<cooldownVars, ask, active, restarts, early>>

\* time.NewTicker panics; nothing recovers, so the process ends.
TickerPanics(s, t) ==
  /\ stream[s] = Closed
  /\ t.interval <= 0
  /\ Restart

\* The ticker fires; a tick that finds the channel full is dropped.
StreamTick(s) ==
  /\ stream[s] # Closed
  /\ ~stream[s].tick
  /\ stream' = [stream EXCEPT ![s].tick = TRUE]
  /\ UNCHANGED <<cooldownVars, ask, active, restarts, early>>

\* KEDA cancels the stream, or the connection is lost.
Cancel(s) ==
  /\ stream[s] # Closed
  /\ ~stream[s].gone
  /\ stream' = [stream EXCEPT ![s].gone = TRUE]
  /\ UNCHANGED <<cooldownVars, ask, active, restarts, early>>

\* Mutant of StreamDone: Done is looked at only when no tick is waiting, and
\* the ticker fires again while the metric is read.
DoneWhenQuiet(s) ==
  /\ stream[s].pc = "select"
  /\ stream[s].gone /\ ~stream[s].tick
  /\ stream' = [stream EXCEPT ![s] = Closed]
  /\ UNCHANGED <<cooldownVars, ask, active, restarts, early>>

\* The select takes Done; with a tick ready as well it may take either.
StreamDone(s) ==
  /\ stream[s].pc = "select"
  /\ stream[s].gone
  /\ stream' = [stream EXCEPT ![s] = Closed]
  /\ UNCHANGED <<cooldownVars, ask, active, restarts, early>>

\* The select takes the tick and the source is read, at any time before Send.
TakeTick(s) ==
  /\ stream[s].pc = "select"
  /\ stream[s].tick
  /\ LET t == stream[s].trigger IN
       stream' = [stream EXCEPT ![s] =
                    [pc |-> "sending", trigger |-> t, tick |-> FALSE, gone |-> @.gone,
                     result |-> Above(level[t.source], t.threshold)]]
  /\ UNCHANGED <<cooldownVars, ask, active, restarts, early>>

\* The reading fails: it is logged and the stream waits for the next tick.
TickWasted(s) ==
  /\ stream[s].pc = "select"
  /\ stream[s].tick
  /\ stream' = [stream EXCEPT ![s].tick = FALSE]
  /\ UNCHANGED <<cooldownVars, ask, active, restarts, early>>

\* What the stream's goroutine goes on with after its answer.
Selecting(st) ==
  [pc |-> "select", trigger |-> st.trigger, tick |-> st.tick, gone |-> st.gone]

StreamSends(s) ==
  /\ stream[s].pc = "sending"
  /\ ~stream[s].gone
  /\ active' = [active EXCEPT ![Gate(stream[s].trigger)] = stream[s].result]
  /\ stream' = [stream EXCEPT ![s] = Selecting(@)]
  /\ UNCHANGED <<cooldownVars, ask, restarts, early>>

\* The client is gone: Send returns an error, which ends the stream, or has
\* put the message in a buffer nobody reads.
SendsToNobody(s) ==
  /\ stream[s].pc = "sending"
  /\ stream[s].gone
  /\ stream' \in {[stream EXCEPT ![s] = Closed],
                  [stream EXCEPT ![s] = Selecting(@)]}
  /\ UNCHANGED <<cooldownVars, ask, active, restarts, early>>

StreamStep(s) ==
  \/ StreamTick(s)
  \/ Cancel(s)
  \/ StreamDone(s)
  \/ TakeTick(s)
  \/ TickWasted(s)
  \/ StreamSends(s)
  \/ SendsToNobody(s)

-----------------------------------------------------------------------------
(* GetMetrics, with what KEDA sees of it *)

\* Handler h reports a fall of its key before the cooldown was over.
FallsEarly(h) ==
  LET k == newCooldownKey(call[h].trigger) IN
    /\ reported[k] # None /\ sinceFall[k] # None
    /\ ~AtLeast(reported'[k], reported[k])
    /\ sinceFall[k] < call[h].trigger.cooldown

\* GetMetrics answers.
GetMetricsAnswers(h) ==
  /\ applyCooldown(h)
  /\ early' = IF FallsEarly(h)
                THEN [early EXCEPT ![newCooldownKey(call[h].trigger)] = @ + 1]
                ELSE early
  /\ UNCHANGED <<activity, restarts>>

ScalerNext ==
  \/ /\ \/ \E s \in Sources : Fluctuate(s)
        \/ \E h \in Handlers, t \in Triggers : GetMetrics(h, t)
        \/ \E h \in Handlers : getMetricValue(h) \/ CollectFails(h)
        \/ Tick
     /\ UNCHANGED <<activity, restarts, early>>
  \/ \E h \in Handlers : GetMetricsAnswers(h)
  \/ \E a \in Askers, t \in Triggers : IsActive(a, t)
  \/ \E a \in Askers : IsActiveAnswers(a)
  \/ \E s \in Streams, t \in Triggers : StreamIsActive(s, t) \/ TickerPanics(s, t)
  \/ \E s \in Streams : StreamStep(s)
  \/ Restart

ScalerSpec == ScalerInit /\ [][ScalerNext]_scalerVars

(***************************************************************************)
(* Fairness: time passes, goroutines that can go on do, KEDA keeps polling *)
(* every series and every gate (through whatever version of the trigger it *)
(* has at the time) and a source does not fail for ever.  A select with    *)
(* several channels ready picks one at random, so Done is taken in the end *)
(* however many ticks compete with it.                                     *)
(***************************************************************************)
Polls(k) ==
  /\ \E h \in Handlers, t \in Triggers : newCooldownKey(t) = k /\ GetMetrics(h, t)
  /\ UNCHANGED <<activity, restarts, early>>

Reads(k) ==
  /\ \E h \in Handlers : /\ call[h].pc = "collecting"
                         /\ newCooldownKey(call[h].trigger) = k
                         /\ getMetricValue(h)
  /\ UNCHANGED <<activity, restarts, early>>

Asks(g) == \E a \in Askers, t \in Triggers : Gate(t) = g /\ IsActive(a, t)

ScalerFairness ==
  /\ WF_scalerVars(Tick /\ UNCHANGED <<activity, restarts, early>>)
  /\ \A h \in Handlers : WF_scalerVars(GetMetricsAnswers(h))
  /\ \A a \in Askers : WF_scalerVars(IsActiveAnswers(a))
  /\ \A k \in Keys : SF_scalerVars(Polls(k)) /\ SF_scalerVars(Reads(k))
  /\ \A g \in Gates : SF_scalerVars(Asks(g))
  /\ \A s \in Streams :
       /\ WF_scalerVars(TakeTick(s) \/ TickWasted(s) \/ StreamDone(s))
       /\ SF_scalerVars(StreamDone(s))
       /\ WF_scalerVars(StreamSends(s) \/ SendsToNobody(s))

FairScaler == ScalerSpec /\ ScalerFairness

-----------------------------------------------------------------------------

ScalerTypeOK ==
  /\ TypeOK
  /\ ask \in [Askers -> AskStates]
  /\ stream \in [Streams -> {Closed} \cup OpenStreams]
  /\ active \in [Gates -> BOOLEAN \cup {None}]
  /\ restarts \in 0..MaxRestarts
  /\ early \in [Keys -> Nat]

(***************************************************************************)
(* What a restart costs.  The cooldown map is in memory only, so a new     *)
(* process knows of no fall that was reported before.  It may report at    *)
(* most two falls of a series before the cooldown is over: its first       *)
(* answer, which starts no window (applyCooldown: "has never been seen     *)
(* before, so no cooldown is active yet"), and the first fall after that.  *)
(* A process that was never restarted reports none.                        *)
(***************************************************************************)
EarlyFallsPerLife ==
  \A k \in Keys : early[k] <= (IF restarts = 0 THEN 0 ELSE 2)

(***************************************************************************)
(* A value is held back only while a fall was reported less than the       *)
(* caller's cooldown ago, also across restarts and when windows differ:    *)
(* held falls do not prolong the window, and neither do rises.  It is the  *)
(* other half of applyCooldown's "a falling value is reported only if".    *)
(***************************************************************************)
HeldOnlyInWindow ==
  [][\A h \in Handlers :
       LET k == KeyOf(h) IN
         /\ call[h].pc = "collected" /\ call'[h] = Idle
         /\ restarts' = restarts
         /\ reported'[k] # call[h].value
         => sinceFall[k] # None /\ sinceFall[k] < call[h].trigger.cooldown]_scalerVars

(***************************************************************************)
(* The inductive invariant behind the two: what the map of this process    *)
(* still knows of the answers.  The baseline is always the last answer,    *)
(* but a window that an earlier process started is forgotten, so that a    *)
(* series without a window in the map may have been reported falling once, *)
(* as the first answer, and one with a window twice.                       *)
(***************************************************************************)
SeriesRemembered(k) ==
  IF k \in DOMAIN cooldowns
    THEN /\ Cools(k)
         /\ cooldowns[k].lastValue = reported[k]
         /\ IF cooldowns[k].lastScaleDownAt = None
              THEN early[k] <= 1
              ELSE /\ cooldowns[k].lastScaleDownAt = sinceFall[k]
                   /\ early[k] <= 2
    ELSE early[k] = 0

RemembersSinceRestart ==
  /\ \A k \in Keys : SeriesRemembered(k)
  /\ restarts = 0 => Remembers /\ \A k \in Keys : early[k] = 0

(***************************************************************************)
(* IsActive and the streams answer with the raw reading and GetMetrics     *)
(* with the held one, each from goroutines that may be slow: once the      *)
(* metric settles, the activity KEDA was last told and the value KEDA was  *)
(* last told agree with it and with each other for ever, so a workload is  *)
(* not kept inactive with a metric above its activationThreshold.          *)
(***************************************************************************)
ActivityFollows ==
  \A g \in Gates : \A v \in Readings[g.key.source] \ {NaN} :
    <>[](level[g.key.source] = v) =>
      <>[](active[g] = (v > g.threshold) /\ reported[g.key] = v)

(***************************************************************************)
(* A stream whose client has gone ends, however its ticks, readings and    *)
(* sends fall: StreamIsActive leaks no goroutine.                          *)
(***************************************************************************)
StreamEnds ==
  \A s \in Streams :
    (stream[s] # Closed /\ stream[s].gone) ~> (stream[s] = Closed)
=============================================================================
