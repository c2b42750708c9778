------------------------------ MODULE Cooldown ------------------------------
(***************************************************************************)
(* GPUExternalScaler.GetMetrics and applyCooldown (pkg/scaler/server.go):  *)
(* the scaler answers KEDA with the metric it has just read, except that a *)
(* fall is held back while a cooldown window is running.                   *)
(*                                                                         *)
(* Each gRPC request runs in a goroutine of its own, a handler here.  The  *)
(* metric is read before s.mu is taken, so other handlers may answer       *)
(* between a handler's reading and its own answer.  The section under s.mu *)
(* is one step.                                                            *)
(*                                                                         *)
(* Time is kept as ages: the code compares now.Sub(lastScaleDownAt) with   *)
(* the cooldown and uses neither instant otherwise, so the model keeps     *)
(* that difference, counted up to MaxAge, and Tick lets a second pass.     *)
(***************************************************************************)
EXTENDS Integers

CONSTANTS
  Handlers,  \* goroutines that can serve GetMetrics at the same time
  Triggers,  \* ScaledObject triggers KEDA may send: [object, source, cooldown]
  Readings,  \* Readings[s]: what source s can read
  NaN,       \* the float64 that is not a number
  None,      \* Go's zero time.Time; also "nothing reported yet"
  MaxAge     \* bound on ages, at least the longest cooldown

(***************************************************************************)
(* A trigger is the metadata of one request.  `source' stands for the      *)
(* fields that decide what is measured (metricName, metricType,            *)
(* aggregation, gpuIndex and the two endpoints), `object' for namespace    *)
(* and name, and `cooldown' for cooldownSeconds as a Duration.  An edited  *)
(* ScaledObject sends a different trigger from then on.                    *)
(***************************************************************************)
Sources == {t.source : t \in Triggers}

\* Mutant of newCooldownKey: what is measured is left out of the key.
KeyWithoutSource(t) ==
  [object |-> t.object, source |-> CHOOSE s \in Sources : TRUE]

newCooldownKey(t) == [object |-> t.object, source |-> t.source]

Keys == {newCooldownKey(t) : t \in Triggers}

ASSUME CooldownAssumption ==
  /\ MaxAge \in Nat
  /\ \A t \in Triggers : t.cooldown \in 0..MaxAge
  /\ \A s \in Sources : Readings[s] \subseteq Nat \cup {NaN}
  /\ NaN \notin Nat
  /\ None \notin Nat
  /\ None # NaN

VARIABLES
  level,      \* level[s]: what source s would read now
  call,       \* call[h]: the GetMetrics call handler h is running
  cooldowns,  \* s.cooldowns: cooldownKey -> cooldownState, a Go map
  reported,   \* history: the value last reported for each key, or None
  sinceFall   \* history: age of the last fall reported for each key, or None

vars == <<level, call, cooldowns, reported, sinceFall>>
history == <<reported, sinceFall>>

Values == UNION {Readings[s] : s \in Sources}
Ages == 0..MaxAge \cup {None}
Idle == [pc |-> "idle"]

\* The hypotheses under which the answers are rate limited: no series is asked
\* for with a cooldown by one trigger and without one by another (an edit that
\* switches the cooldown off or on), and no source reads NaN.
SteadyCooling ==
  \A t, u \in Triggers :
    newCooldownKey(t) = newCooldownKey(u) => (t.cooldown > 0 <=> u.cooldown > 0)
Numeric == \A s \in Sources : Readings[s] \subseteq Nat

Calls ==
  {Idle}
    \cup [pc : {"collecting"}, trigger : Triggers]
    \cup [pc : {"collected"}, trigger : Triggers, value : Values]

cooldownState == [lastValue : Values, lastScaleDownAt : Ages]

\* a >= b on float64: false as soon as one side is not a number.
AtLeast(a, b) == a # NaN /\ b # NaN /\ a >= b

\* The age of something that happened `age` ago, one second later.
Older(age) == IF age \in 0..(MaxAge - 1) THEN age + 1 ELSE age

-----------------------------------------------------------------------------

Init ==
  /\ level \in [Sources -> Values]
  /\ \A s \in Sources : level[s] \in Readings[s]
  /\ call = [h \in Handlers |-> Idle]
  /\ cooldowns = [k \in {} |-> None]
  /\ reported = [k \in Keys |-> None]
  /\ sinceFall = [k \in Keys |-> None]

\* The workload moves the metric.
Fluctuate(s) ==
  /\ \E v \in Readings[s] : level' = [level EXCEPT ![s] = v]
  /\ UNCHANGED <<call, cooldowns, history>>

\* KEDA calls GetMetrics for trigger t; parseMetadata has accepted it.
GetMetrics(h, t) ==
  /\ call[h] = Idle
  /\ call' = [call EXCEPT ![h] = [pc |-> "collecting", trigger |-> t]]
  /\ UNCHANGED <<level, cooldowns, history>>

\* getMetricValue reads the source, outside s.mu.
getMetricValue(h) ==
  /\ call[h].pc = "collecting"
  /\ LET t == call[h].trigger IN
       call' = [call EXCEPT ![h] =
                  [pc |-> "collected", trigger |-> t, value |-> level[t.source]]]
  /\ UNCHANGED <<level, cooldowns, history>>

\* Mutant of CollectFails: the error is dropped and Go's zero value is used.
CollectErrorIgnored(h) ==
  /\ call[h].pc = "collecting"
  /\ call' = [call EXCEPT ![h] = [pc |-> "collected",
                                 trigger |-> call[h].trigger, value |-> 0]]
  /\ UNCHANGED <<level, cooldowns, history>>

\* getMetricValue fails: GetMetrics returns the error, applyCooldown is not run.
CollectFails(h) ==
  /\ call[h].pc = "collecting"
  /\ call' = [call EXCEPT ![h] = Idle]
  /\ UNCHANGED <<level, cooldowns, history>>

(***************************************************************************)
(* applyCooldown returns v and GetMetrics reports it for key k.  The way   *)
(* of the answer to KEDA belongs to the step, so `reported' has the order  *)
(* in which s.mu decided the answers; two answers that overtake each other *)
(* after the unlock are not told apart.                                    *)
(***************************************************************************)
Report(h, k, v) ==
  /\ call' = [call EXCEPT ![h] = Idle]
  /\ reported' = [reported EXCEPT ![k] = v]
  /\ sinceFall' = IF reported[k] \in {None, v} \/ AtLeast(v, reported[k])
                    THEN sinceFall
                    ELSE [sinceFall EXCEPT ![k] = 0]
  /\ UNCHANGED level

\* cooldown <= 0: the value goes out as it is, the map is not looked at.
NoCooldown(t, k, v, h) ==
  /\ t.cooldown = 0
  /\ Report(h, k, v)
  /\ UNCHANGED cooldowns

\* The series has never been seen.
FirstSeen(t, k, v, h) ==
  /\ t.cooldown > 0
  /\ k \notin DOMAIN cooldowns
  /\ Report(h, k, v)
  /\ cooldowns' = [x \in DOMAIN cooldowns \cup {k} |->
                     IF x = k
                       THEN [lastValue |-> v, lastScaleDownAt |-> None]
                       ELSE cooldowns[x]]

\* Mutant of Rising: the baseline is not raised.
RisingForgotten(t, k, v, h) ==
  /\ t.cooldown > 0
  /\ k \in DOMAIN cooldowns
  /\ AtLeast(v, cooldowns[k].lastValue)
  /\ Report(h, k, v)
  /\ UNCHANGED cooldowns

\* Mutant of Rising: a rise replaces the whole state, the window is lost.
RisingResets(t, k, v, h) ==
  /\ t.cooldown > 0
  /\ k \in DOMAIN cooldowns
  /\ AtLeast(v, cooldowns[k].lastValue)
  /\ Report(h, k, v)
  /\ cooldowns' = [cooldowns EXCEPT ![k] =
                     [lastValue |-> v, lastScaleDownAt |-> None]]

\* Rising: report at once and raise the baseline.
Rising(t, k, v, h) ==
  /\ t.cooldown > 0
  /\ k \in DOMAIN cooldowns
  /\ AtLeast(v, cooldowns[k].lastValue)
  /\ Report(h, k, v)
  /\ cooldowns' = [cooldowns EXCEPT ![k].lastValue = v]

\* A scale-down was let through less than `cooldown' ago.
InCooldown(t, k) ==
  /\ cooldowns[k].lastScaleDownAt # None
  /\ cooldowns[k].lastScaleDownAt < t.cooldown

\* Mutant of Suppressed: the window is looked at before the direction.
SuppressedFirst(t, k, v, h) ==
  /\ t.cooldown > 0
  /\ k \in DOMAIN cooldowns
  /\ InCooldown(t, k)
  /\ Report(h, k, cooldowns[k].lastValue)
  /\ UNCHANGED cooldowns

\* Mutant of Suppressed: every suppressed fall restarts the window.
SuppressedRestarts(t, k, v, h) ==
  /\ t.cooldown > 0
  /\ k \in DOMAIN cooldowns
  /\ ~AtLeast(v, cooldowns[k].lastValue)
  /\ InCooldown(t, k)
  /\ Report(h, k, cooldowns[k].lastValue)
  /\ cooldowns' = [cooldowns EXCEPT ![k].lastScaleDownAt = 0]

\* Falling within the window: repeat the previous value.
Suppressed(t, k, v, h) ==
  /\ t.cooldown > 0
  /\ k \in DOMAIN cooldowns
  /\ ~AtLeast(v, cooldowns[k].lastValue)
  /\ InCooldown(t, k)
  /\ Report(h, k, cooldowns[k].lastValue)
  /\ UNCHANGED cooldowns

\* Mutant of ScaleDown: the window is not started.
ScaleDownUntimed(t, k, v, h) ==
  /\ t.cooldown > 0
  /\ k \in DOMAIN cooldowns
  /\ ~AtLeast(v, cooldowns[k].lastValue)
  /\ ~InCooldown(t, k)
  /\ Report(h, k, v)
  /\ cooldowns' = [cooldowns EXCEPT ![k].lastValue = v]

\* Falling outside the window: let it through and start a new window.
ScaleDown(t, k, v, h) ==
  /\ t.cooldown > 0
  /\ k \in DOMAIN cooldowns
  /\ ~AtLeast(v, cooldowns[k].lastValue)
  /\ ~InCooldown(t, k)
  /\ Report(h, k, v)
  /\ cooldowns' = [cooldowns EXCEPT ![k] =
                     [lastValue |-> v, lastScaleDownAt |-> 0]]

applyCooldown(h) ==
  /\ call[h].pc = "collected"
  /\ LET t == call[h].trigger
         k == newCooldownKey(t)
         v == call[h].value
     IN \/ NoCooldown(t, k, v, h)
        \/ FirstSeen(t, k, v, h)
        \/ Rising(t, k, v, h)
        \/ Suppressed(t, k, v, h)
        \/ ScaleDown(t, k, v, h)

\* A second passes.
Tick ==
  /\ cooldowns' = [k \in DOMAIN cooldowns |->
                     [cooldowns[k] EXCEPT !.lastScaleDownAt = Older(@)]]
  /\ sinceFall' = [k \in Keys |-> Older(sinceFall[k])]
  /\ UNCHANGED <<level, call, reported>>

Next ==
  \/ \E s \in Sources : Fluctuate(s)
  \/ \E h \in Handlers, t \in Triggers : GetMetrics(h, t)
  \/ \E h \in Handlers : getMetricValue(h) \/ CollectFails(h) \/ applyCooldown(h)
  \/ Tick

Spec == Init /\ [][Next]_vars

(***************************************************************************)
(* Fairness: time passes, a handler that can go on does, KEDA keeps        *)
(* polling every trigger and a source does not fail for ever.              *)
(***************************************************************************)
Fairness ==
  /\ WF_vars(Tick)
  /\ \A h \in Handlers : WF_vars(applyCooldown(h))
  /\ \A t \in Triggers : SF_vars(\E h \in Handlers : GetMetrics(h, t))
  /\ \A t \in Triggers : SF_vars(\E h \in Handlers : /\ call[h].pc = "collecting"
                                                     /\ call[h].trigger = t
                                                     /\ getMetricValue(h))

FairSpec == Spec /\ Fairness

-----------------------------------------------------------------------------
(* Safety *)

TypeOK ==
  /\ level \in [Sources -> Values]
  /\ call \in [Handlers -> Calls]
  /\ DOMAIN cooldowns \subseteq Keys
  /\ cooldowns \in [DOMAIN cooldowns -> cooldownState]
  /\ reported \in [Keys -> Values \cup {None}]
  /\ sinceFall \in [Keys -> Ages]

\* Handler h answers KEDA in this step (and did not fail).
Answers(h) == call[h].pc = "collected" /\ call'[h] = Idle
KeyOf(h) == newCooldownKey(call[h].trigger)

(***************************************************************************)
(* A series reports only what its own source measured: triggers of one     *)
(* ScaledObject that measure different things never share a baseline       *)
(* (the reason the doc comment of cooldownKey gives for its fields).       *)
(***************************************************************************)
OwnReadings ==
  \A k \in Keys : reported[k] \in Readings[k.source] \cup {None}

(***************************************************************************)
(* When the answer is not what was measured it is higher: holding a value  *)
(* back never makes the HPA shrink.  applyCooldown: "otherwise the         *)
(* previous, higher value is repeated".                                    *)
(***************************************************************************)
HeldIsHigher ==
  [][\A h \in Handlers :
       Answers(h) => LET v == reported'[KeyOf(h)] IN
                       v = call[h].value \/ AtLeast(v, call[h].value)]_vars

(***************************************************************************)
(* A measurement that is at least the value last reported is reported as   *)
(* it is, whatever other handlers did in between.  applyCooldown: "A       *)
(* rising value is always reported immediately".                           *)
(***************************************************************************)
RisesImmediately ==
  [][\A h \in Handlers :
       /\ Answers(h)
       /\ reported[KeyOf(h)] = None \/ AtLeast(call[h].value, reported[KeyOf(h)])
       => reported'[KeyOf(h)] = call[h].value]_vars

(***************************************************************************)
(* Two falls reported for a series are at least the cooldown of the call   *)
(* that reports the second apart, also when a rise lies between them and   *)
(* when calls with different windows alternate.  applyCooldown: "reported  *)
(* only if no scale-down has been reported within the last cooldown        *)
(* window".                                                                *)
(***************************************************************************)
FallsSpaced ==
  [][\A h \in Handlers :
       LET k == KeyOf(h) IN
         /\ Answers(h)
         /\ reported[k] # None /\ sinceFall[k] # None
         /\ ~AtLeast(reported'[k], reported[k])
         => sinceFall[k] >= call[h].trigger.cooldown]_vars

(***************************************************************************)
(* The baseline is the value last reported for the series.  cooldownState: *)
(* "tracks the most recently reported value for one metric series".        *)
(***************************************************************************)
BaselineIsReported ==
  \A k \in DOMAIN cooldowns : cooldowns[k].lastValue = reported[k]

(***************************************************************************)
(* The answers of a series fall at most once per cooldown window: the      *)
(* handlers, the map and the mutex implement the rate limit that           *)
(* RateLimitedReports states over the answers alone.                       *)
(***************************************************************************)
WindowsOf(k) == {t.cooldown : t \in {u \in Triggers : newCooldownKey(u) = k}}

Promise == INSTANCE RateLimitedReports
             WITH Windows <- [k \in Keys |-> WindowsOf(k)]

RateLimited == Promise!Spec

(***************************************************************************)
(* The inductive invariant behind the rate limit: of a series that has a   *)
(* cooldown under every trigger, the map remembers exactly what the        *)
(* answers show, and of the others it has nothing.                         *)
(***************************************************************************)
Cools(k) == \E t \in Triggers : newCooldownKey(t) = k /\ t.cooldown > 0

Remembers ==
  \A k \in Keys :
    IF k \in DOMAIN cooldowns
      THEN /\ Cools(k)
           /\ cooldowns[k].lastValue = reported[k]
           /\ cooldowns[k].lastScaleDownAt = sinceFall[k]
      ELSE Cools(k) => reported[k] = None /\ sinceFall[k] = None

(***************************************************************************)
(* The inductive invariant behind OwnReadings: a reading keeps to its      *)
(* source from the environment through the handler into the map.           *)
(***************************************************************************)
Sourced ==
  /\ \A s \in Sources : level[s] \in Readings[s]
  /\ \A h \in Handlers : call[h].pc = "collected" =>
       call[h].value \in Readings[call[h].trigger.source]
  /\ \A k \in DOMAIN cooldowns : cooldowns[k].lastValue \in Readings[k.source]
  /\ OwnReadings

(* Liveness *)

(***************************************************************************)
(* A held value is given up in the end: once the metric settles, the       *)
(* answers settle on it, even when handlers still hold older readings.     *)
(***************************************************************************)
Settles ==
  \A k \in Keys : \A v \in Readings[k.source] :
    <>[](level[k.source] = v) => <>[](reported[k] = v)
=============================================================================
