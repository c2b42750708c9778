---------------------------- MODULE ScalerProofs ----------------------------
(***************************************************************************)
(* Theorems about Cooldown, for every set of handlers, triggers and        *)
(* readings, and then about Scaler, for any number of gates, streams and   *)
(* restarts as well.  What the first part shows of a step of the cooldown  *)
(* is used in the second as it is: every step of the service but a restart *)
(* is one of Cooldown's, or leaves its variables alone.                    *)
(***************************************************************************)
EXTENDS Scaler, TLAPS

-----------------------------------------------------------------------------
(* The cooldown *)

\* One second later an age is still an age, and a real age stays one.
LEMMA OlderType ==
  ASSUME NEW age \in Ages
  PROVE  Older(age) \in Ages
BY CooldownAssumption DEF Older, Ages

LEMMA KeyInKeys ==
  ASSUME NEW t \in Triggers
  PROVE  /\ newCooldownKey(t) \in Keys
         /\ newCooldownKey(t).source = t.source
         /\ t.source \in Sources
BY DEF Keys, newCooldownKey, Sources

(***************************************************************************)
(* Type correctness of every reachable state.                              *)
(***************************************************************************)
LEMMA TypeInit == Init => TypeOK
BY DEF Init, TypeOK, Calls, Idle, Ages, cooldownState

LEMMA ReportType ==
  ASSUME TypeOK, NEW h \in Handlers, NEW k \in Keys, NEW v \in Values,
         Report(h, k, v)
  PROVE  /\ level' \in [Sources -> Values]
         /\ call' \in [Handlers -> Calls]
         /\ reported' \in [Keys -> Values \cup {None}]
         /\ sinceFall' \in [Keys -> Ages]
BY CooldownAssumption DEF TypeOK, Report, Calls, Ages

LEMMA TypeNext == TypeOK /\ [Next]_vars => TypeOK'
<1> SUFFICES ASSUME TypeOK, [Next]_vars PROVE TypeOK'
  OBVIOUS
<1>1. ASSUME NEW s \in Sources, Fluctuate(s) PROVE TypeOK'
  BY <1>1 DEF TypeOK, Fluctuate, history, Values
<1>2. ASSUME NEW h \in Handlers, NEW t \in Triggers, GetMetrics(h, t) PROVE TypeOK'
  BY <1>2 DEF TypeOK, GetMetrics, history, Calls
<1>3. ASSUME NEW h \in Handlers, getMetricValue(h) PROVE TypeOK'
  <2>1. call[h].trigger \in Triggers
    BY <1>3 DEF TypeOK, getMetricValue, Calls, Idle
  <2>2. level[call[h].trigger.source] \in Values
    BY <2>1, KeyInKeys DEF TypeOK
  <2> QED
    BY <1>3, <2>1, <2>2 DEF TypeOK, getMetricValue, history, Calls
<1>4. ASSUME NEW h \in Handlers, CollectFails(h) PROVE TypeOK'
  BY <1>4 DEF TypeOK, CollectFails, history, Calls
<1>5. ASSUME NEW h \in Handlers, applyCooldown(h) PROVE TypeOK'
  <2> DEFINE t == call[h].trigger
             k == newCooldownKey(t)
             v == call[h].value
  <2>1. t \in Triggers /\ v \in Values
    BY <1>5 DEF TypeOK, applyCooldown, Calls, Idle
  <2>2. k \in Keys
    BY <2>1, KeyInKeys
  <2> HIDE DEF t, k, v
  <2>3. CASE NoCooldown(t, k, v, h)
    BY <2>1, <2>2, <2>3, ReportType DEF NoCooldown, TypeOK
  <2>4. CASE FirstSeen(t, k, v, h)
    BY <2>1, <2>2, <2>4, ReportType DEF FirstSeen, TypeOK, cooldownState, Ages
  <2>5. CASE Rising(t, k, v, h)
    BY <2>1, <2>2, <2>5, ReportType DEF Rising, TypeOK, cooldownState
  <2>6. CASE Suppressed(t, k, v, h)
    <3>1. cooldowns[k].lastValue \in Values
      BY <2>6 DEF Suppressed, TypeOK, cooldownState
    <3> QED
      BY <2>1, <2>2, <2>6, <3>1, ReportType DEF Suppressed, TypeOK
  <2>7. CASE ScaleDown(t, k, v, h)
    <3>1. 0 \in Ages
      BY CooldownAssumption DEF Ages
    <3> QED
      BY <2>1, <2>2, <2>7, <3>1, ReportType DEF ScaleDown, TypeOK, cooldownState
  <2> QED
    BY <1>5, <2>3, <2>4, <2>5, <2>6, <2>7 DEF applyCooldown, t, k, v
<1>6. CASE Tick
  <2>1. ASSUME NEW k \in DOMAIN cooldowns
        PROVE  cooldowns'[k] \in cooldownState
    BY <1>6, <2>1, OlderType DEF Tick, TypeOK, cooldownState
  <2> QED
    BY <1>6, <2>1, OlderType DEF Tick, TypeOK
<1>7. CASE UNCHANGED vars
  BY <1>7 DEF TypeOK, vars, history
<1> QED
  BY <1>1, <1>2, <1>3, <1>4, <1>5, <1>6, <1>7 DEF Next

(***************************************************************************)
(* The state of GetMetrics is well-typed for any handlers and triggers:    *)
(* the map has entries for series only, and an age never passes its bound. *)
(***************************************************************************)
THEOREM TypeCorrect == Spec => []TypeOK
BY TypeInit, TypeNext, PTL DEF Spec

-----------------------------------------------------------------------------
(***************************************************************************)
(* OwnReadings, for every set of triggers, windows and readings.           *)
(***************************************************************************)
LEMMA SourcedInit == Init => Sourced
BY DEF Init, Sourced, OwnReadings, Idle

LEMMA SourcedNext == TypeOK /\ Sourced /\ [Next]_vars => Sourced'
<1> SUFFICES ASSUME TypeOK, Sourced, [Next]_vars PROVE Sourced'
  OBVIOUS
<1>1. ASSUME NEW s \in Sources, Fluctuate(s) PROVE Sourced'
  BY <1>1 DEF TypeOK, Sourced, OwnReadings, Fluctuate, history
<1>2. ASSUME NEW h \in Handlers, NEW t \in Triggers, GetMetrics(h, t) PROVE Sourced'
  BY <1>2 DEF TypeOK, Sourced, OwnReadings, GetMetrics, history
<1>3. ASSUME NEW h \in Handlers, getMetricValue(h) PROVE Sourced'
  <2>1. call[h].trigger \in Triggers
    BY <1>3 DEF TypeOK, getMetricValue, Calls, Idle
  <2>2. level[call[h].trigger.source] \in Readings[call[h].trigger.source]
    BY <2>1, KeyInKeys DEF Sourced
  <2> QED
    BY <1>3, <2>1, <2>2 DEF TypeOK, Sourced, OwnReadings, getMetricValue, history
<1>4. ASSUME NEW h \in Handlers, CollectFails(h) PROVE Sourced'
  BY <1>4 DEF TypeOK, Sourced, OwnReadings, CollectFails, history, Idle
<1>5. ASSUME NEW h \in Handlers, applyCooldown(h) PROVE Sourced'
  <2> DEFINE t == call[h].trigger
             k == newCooldownKey(t)
             v == call[h].value
  <2>1. t \in Triggers /\ k \in Keys
    BY <1>5, KeyInKeys DEF TypeOK, applyCooldown, Calls, Idle
  <2>2. v \in Readings[k.source]
    BY <1>5, <2>1, KeyInKeys DEF Sourced, applyCooldown
  <2> HIDE DEF t, k, v
  \* Reporting a reading of k's source keeps everything but the map.
  <2>3. ASSUME NEW r \in Readings[k.source], Report(h, k, r)
        PROVE  /\ \A s \in Sources : level'[s] \in Readings[s]
               /\ \A g \in Handlers : call'[g].pc = "collected" =>
                    call'[g].value \in Readings[call'[g].trigger.source]
               /\ OwnReadings'
    BY <2>1, <2>3 DEF TypeOK, Sourced, OwnReadings, Report, Idle
  <2>4. CASE NoCooldown(t, k, v, h)
    BY <2>2, <2>3, <2>4 DEF NoCooldown, Sourced
  <2>5. CASE FirstSeen(t, k, v, h)
    BY <2>2, <2>3, <2>5 DEF FirstSeen, Sourced
  <2>6. CASE Rising(t, k, v, h)
    BY <2>2, <2>3, <2>6 DEF Rising, Sourced, TypeOK, cooldownState
  <2>7. CASE Suppressed(t, k, v, h)
    BY <2>2, <2>3, <2>7 DEF Suppressed, Sourced
  <2>8. CASE ScaleDown(t, k, v, h)
    BY <2>2, <2>3, <2>8 DEF ScaleDown, Sourced, TypeOK
  <2> QED
    BY <1>5, <2>4, <2>5, <2>6, <2>7, <2>8 DEF applyCooldown, t, k, v
<1>6. CASE Tick
  <2>1. ASSUME NEW k \in DOMAIN cooldowns
        PROVE  cooldowns'[k].lastValue = cooldowns[k].lastValue
    BY <1>6, <2>1 DEF Tick, TypeOK, cooldownState
  <2> QED
    BY <1>6, <2>1 DEF Tick, Sourced, OwnReadings
<1>7. CASE UNCHANGED vars
  BY <1>7 DEF Sourced, OwnReadings, vars, history
<1> QED
  BY <1>1, <1>2, <1>3, <1>4, <1>5, <1>6, <1>7 DEF Next

(***************************************************************************)
(* Every value reported for a series was read from that series' source.    *)
(***************************************************************************)
THEOREM ReportsOwnReadings == Spec => []OwnReadings
<1>1. TypeOK /\ Sourced /\ [Next]_vars => (TypeOK /\ Sourced)'
  BY TypeNext, SourcedNext
<1>2. Sourced => OwnReadings
  BY DEF Sourced
<1> QED
  BY <1>1, <1>2, TypeInit, SourcedInit, PTL DEF Spec

-----------------------------------------------------------------------------
(***************************************************************************)
(* The rate limit, under SteadyCooling and Numeric.  Remembers is what     *)
(* makes it inductive: TypeOK alone does not relate the map to the answers.*)
(***************************************************************************)
LEMMA RememberInit == Init => Remembers
BY DEF Init, Remembers

LEMMA NumericValues ==
  ASSUME Numeric
  PROVE  Values \subseteq Nat
BY DEF Numeric, Values

\* On numbers AtLeast is the order of the integers.
LEMMA AtLeastNat ==
  ASSUME NEW a \in Nat, NEW b \in Nat
  PROVE  AtLeast(a, b) <=> a >= b
BY CooldownAssumption DEF AtLeast

\* Under SteadyCooling a series has a cooldown if the trigger at hand has one.
LEMMA CoolsAsAsked ==
  ASSUME SteadyCooling, NEW t \in Triggers
  PROVE  Cools(newCooldownKey(t)) <=> t.cooldown > 0
BY DEF SteadyCooling, Cools

LEMMA RememberNext ==
  ASSUME SteadyCooling, Numeric, TypeOK, Remembers, [Next]_vars
  PROVE  Remembers'
<1> USE NumericValues
<1>1. ASSUME NEW s \in Sources, Fluctuate(s) PROVE Remembers'
  BY <1>1 DEF Remembers, Fluctuate, history, Cools
<1>2. ASSUME NEW h \in Handlers, NEW t \in Triggers, GetMetrics(h, t) PROVE Remembers'
  BY <1>2 DEF Remembers, GetMetrics, history, Cools
<1>3. ASSUME NEW h \in Handlers, getMetricValue(h) PROVE Remembers'
  BY <1>3 DEF Remembers, getMetricValue, history, Cools
<1>4. ASSUME NEW h \in Handlers, CollectFails(h) PROVE Remembers'
  BY <1>4 DEF Remembers, CollectFails, history, Cools
<1>5. ASSUME NEW h \in Handlers, applyCooldown(h) PROVE Remembers'
  <2> DEFINE t == call[h].trigger
             k == newCooldownKey(t)
             v == call[h].value
  <2>1. t \in Triggers /\ k \in Keys /\ v \in Values
    BY <1>5, KeyInKeys DEF TypeOK, applyCooldown, Calls, Idle
  <2> HIDE DEF t, k, v
  <2>2. Cools(k) <=> t.cooldown > 0
    BY <2>1, CoolsAsAsked DEF k, t
  <2>3. k \in DOMAIN cooldowns =>
          /\ Cools(k)
          /\ cooldowns[k].lastValue = reported[k]
          /\ cooldowns[k].lastScaleDownAt = sinceFall[k]
          /\ cooldowns[k].lastValue \in Nat
    BY <2>1 DEF Remembers, TypeOK, cooldownState
  <2>4. reported[k] \in Nat \cup {None} /\ v \in Nat
    BY <2>1 DEF TypeOK
  <2>5. CASE NoCooldown(t, k, v, h)
    <3>1. ~Cools(k) /\ k \notin DOMAIN cooldowns
      BY <2>2, <2>3, <2>5 DEF NoCooldown
    <3>2. /\ cooldowns' = cooldowns
          /\ \A j \in Keys \ {k} : /\ reported'[j] = reported[j]
                                   /\ sinceFall'[j] = sinceFall[j]
      BY <2>1, <2>5 DEF NoCooldown, Report, TypeOK
    <3> QED
      BY <3>1, <3>2 DEF Remembers, Cools
  <2>6. CASE FirstSeen(t, k, v, h)
    BY <2>1, <2>2, <2>6 DEF FirstSeen, Report, Remembers, TypeOK, Cools
  <2>7. CASE Rising(t, k, v, h)
    BY <2>1, <2>3, <2>7 DEF Rising, Report, Remembers, TypeOK, cooldownState, Cools
  <2>8. CASE Suppressed(t, k, v, h)
    BY <2>1, <2>3, <2>8 DEF Suppressed, Report, Remembers, TypeOK, Cools
  <2>9. CASE ScaleDown(t, k, v, h)
    <3>1. ~AtLeast(v, reported[k]) /\ reported[k] # None /\ reported[k] # v
      BY <2>3, <2>4, <2>9, CooldownAssumption, AtLeastNat DEF ScaleDown
    <3> QED
      BY <2>1, <2>3, <2>9, <3>1 DEF ScaleDown, Report, Remembers, TypeOK, Cools
  <2> QED
    BY <1>5, <2>5, <2>6, <2>7, <2>8, <2>9 DEF applyCooldown, t, k, v
<1>6. CASE Tick
  <2>1. ASSUME NEW k \in DOMAIN cooldowns
        PROVE  /\ cooldowns'[k].lastValue = cooldowns[k].lastValue
               /\ cooldowns'[k].lastScaleDownAt = Older(cooldowns[k].lastScaleDownAt)
    BY <1>6, <2>1 DEF Tick, TypeOK, cooldownState
  <2>2. Older(None) = None
    BY CooldownAssumption DEF Older
  <2> QED
    BY <1>6, <2>1, <2>2 DEF Tick, Remembers, TypeOK, Cools
<1>7. CASE UNCHANGED vars
  BY <1>7 DEF Remembers, vars, history, Cools
<1> QED
  BY <1>1, <1>2, <1>3, <1>4, <1>5, <1>6, <1>7 DEF Next

\* The only step in which a handler answers is its applyCooldown step.
LEMMA AnswerIsApply ==
  ASSUME TypeOK, [Next]_vars, NEW h \in Handlers, Answers(h)
  PROVE  applyCooldown(h)
<1> USE DEF Answers, Idle
<1>1. ASSUME NEW s \in Sources, Fluctuate(s) PROVE FALSE
  BY <1>1 DEF Fluctuate
<1>2. ASSUME NEW g \in Handlers, NEW t \in Triggers, GetMetrics(g, t) PROVE FALSE
  BY <1>2 DEF GetMetrics, TypeOK
<1>3. ASSUME NEW g \in Handlers, getMetricValue(g) PROVE FALSE
  BY <1>3 DEF getMetricValue, TypeOK
<1>4. ASSUME NEW g \in Handlers, CollectFails(g) PROVE FALSE
  BY <1>4 DEF CollectFails, TypeOK
<1>5. ASSUME NEW g \in Handlers, applyCooldown(g) PROVE applyCooldown(h)
  <2>1. call' = [call EXCEPT ![g] = Idle]
    BY <1>5 DEF applyCooldown, NoCooldown, FirstSeen, Rising, Suppressed,
                ScaleDown, Report
  <2>2. g = h
    BY <2>1 DEF TypeOK
  <2> QED
    BY <1>5, <2>2
<1>6. CASE Tick
  BY <1>6 DEF Tick
<1>7. CASE UNCHANGED vars
  BY <1>7 DEF vars
<1> QED
  BY <1>1, <1>2, <1>3, <1>4, <1>5, <1>6, <1>7 DEF Next

(***************************************************************************)
(* What an answer does to the history, in terms of the history alone.      *)
(***************************************************************************)
LEMMA AnswerOutcome ==
  ASSUME SteadyCooling, Numeric, TypeOK, Remembers,
         NEW h \in Handlers, applyCooldown(h),
         NEW t, t = call[h].trigger,
         NEW k, k = newCooldownKey(t),
         NEW v, v = call[h].value
  PROVE  /\ k \in Keys /\ t \in Triggers /\ v \in Values
         /\ \/ /\ reported[k] = None \/ v >= reported[k]
               /\ reported' = [reported EXCEPT ![k] = v]
               /\ sinceFall' = sinceFall
            \/ /\ reported[k] # None /\ v < reported[k]
               /\ sinceFall[k] # None /\ sinceFall[k] < t.cooldown
               /\ reported' = reported
               /\ sinceFall' = sinceFall
            \/ /\ reported[k] # None /\ v < reported[k]
               /\ sinceFall[k] # None => sinceFall[k] >= t.cooldown
               /\ reported' = [reported EXCEPT ![k] = v]
               /\ sinceFall' = [sinceFall EXCEPT ![k] = 0]
<1> USE NumericValues
<1>1. t \in Triggers /\ k \in Keys /\ v \in Values
  BY KeyInKeys DEF TypeOK, applyCooldown, Calls, Idle
<1>2. t.cooldown \in Nat /\ (Cools(k) <=> t.cooldown > 0)
  BY <1>1, CooldownAssumption, CoolsAsAsked
<1>3. k \in DOMAIN cooldowns =>
        /\ Cools(k)
        /\ cooldowns[k].lastValue = reported[k]
        /\ cooldowns[k].lastScaleDownAt = sinceFall[k]
        /\ reported[k] \in Nat
  BY <1>1 DEF Remembers, TypeOK, cooldownState
<1>4. /\ reported[k] \in Nat \cup {None} /\ v \in Nat
      /\ sinceFall[k] \in Nat \cup {None}
  BY <1>1, CooldownAssumption DEF TypeOK, Ages
<1>5. CASE NoCooldown(t, k, v, h)
  <2>1. t.cooldown = 0 /\ reported' = [reported EXCEPT ![k] = v]
    BY <1>5 DEF NoCooldown, Report
  <2>2. CASE reported[k] = None \/ v >= reported[k]
    <3>1. reported[k] \in {None, v} \/ AtLeast(v, reported[k])
      BY <1>4, <2>2, AtLeastNat
    <3> QED
      BY <1>1, <1>5, <2>1, <2>2, <3>1 DEF NoCooldown, Report
  <2>3. CASE reported[k] # None /\ v < reported[k]
    <3>1. ~(reported[k] \in {None, v} \/ AtLeast(v, reported[k]))
      BY <1>4, <2>3, AtLeastNat
    <3>2. sinceFall[k] # None => sinceFall[k] >= t.cooldown
      BY <1>4, <2>1
    <3> QED
      BY <1>1, <1>5, <2>1, <2>3, <3>1, <3>2 DEF NoCooldown, Report
  <2> QED
    BY <1>4, <2>2, <2>3
<1>6. CASE FirstSeen(t, k, v, h)
  <2>1. reported[k] = None
    BY <1>1, <1>2, <1>6 DEF FirstSeen, Remembers
  <2> QED
    BY <1>1, <1>6, <2>1 DEF FirstSeen, Report
<1>7. CASE Rising(t, k, v, h)
  <2>1. AtLeast(v, reported[k]) /\ v >= reported[k]
    BY <1>3, <1>4, <1>7, AtLeastNat DEF Rising
  <2> QED
    BY <1>1, <1>7, <2>1 DEF Rising, Report
<1>8. CASE Suppressed(t, k, v, h)
  <2>1. v < reported[k]
    BY <1>3, <1>4, <1>8, AtLeastNat DEF Suppressed
  <2>2. reported' = reported /\ sinceFall' = sinceFall
    BY <1>1, <1>3, <1>8 DEF Suppressed, Report, TypeOK
  <2> QED
    BY <1>1, <1>3, <1>8, <2>1, <2>2, CooldownAssumption DEF Suppressed, InCooldown
<1>9. CASE ScaleDown(t, k, v, h)
  <2>1. v < reported[k] /\ ~AtLeast(v, reported[k]) /\ reported[k] \notin {None, v}
    BY <1>3, <1>4, <1>9, AtLeastNat, CooldownAssumption DEF ScaleDown
  <2>2. sinceFall[k] # None => sinceFall[k] >= t.cooldown
    BY <1>2, <1>3, <1>4, <1>9 DEF ScaleDown, InCooldown
  <2> QED
    BY <1>1, <1>9, <2>1, <2>2, CooldownAssumption DEF ScaleDown, Report
<1> QED
  BY <1>5, <1>6, <1>7, <1>8, <1>9 DEF applyCooldown

\* The invariant the theorems below rest on.
CoolingInv == TypeOK /\ Remembers

LEMMA CoolingInvariant ==
  ASSUME SteadyCooling, Numeric
  PROVE  Spec => []CoolingInv
<1>1. Init => CoolingInv
  BY TypeInit, RememberInit DEF CoolingInv
<1>2. CoolingInv /\ [Next]_vars => CoolingInv'
  BY TypeNext, RememberNext DEF CoolingInv
<1> QED
  BY <1>1, <1>2, PTL DEF Spec

(***************************************************************************)
(* The map holds the value last reported, whatever triggers there are, as  *)
(* long as none switches off the cooldown that another one switches on.    *)
(***************************************************************************)
THEOREM BaselineCorrect ==
  ASSUME SteadyCooling, Numeric
  PROVE  Spec => []BaselineIsReported
<1>1. CoolingInv => BaselineIsReported
  BY DEF CoolingInv, TypeOK, Remembers, BaselineIsReported
<1> QED
  BY <1>1, CoolingInvariant, PTL

(***************************************************************************)
(* Two reported falls are a cooldown apart, whatever the handlers'         *)
(* interleaving.                                                           *)
(***************************************************************************)
THEOREM FallsAreSpaced ==
  ASSUME SteadyCooling, Numeric
  PROVE  Spec => FallsSpaced
<1> DEFINE Spaced(h) ==
      LET k == KeyOf(h) IN
        /\ Answers(h)
        /\ reported[k] # None /\ sinceFall[k] # None
        /\ ~AtLeast(reported'[k], reported[k])
        => sinceFall[k] >= call[h].trigger.cooldown
<1>1. ASSUME CoolingInv, [Next]_vars, NEW h \in Handlers PROVE Spaced(h)
  <2> DEFINE k == KeyOf(h)
             t == call[h].trigger
             v == call[h].value
  <2> SUFFICES ASSUME Answers(h), reported[k] # None, sinceFall[k] # None,
                      ~AtLeast(reported'[k], reported[k])
               PROVE  sinceFall[k] >= t.cooldown
    OBVIOUS
  <2>1. applyCooldown(h)
    BY <1>1, AnswerIsApply DEF CoolingInv
  <2>2. /\ k \in Keys /\ v \in Nat /\ t.cooldown \in Nat
        /\ reported[k] \in Nat /\ sinceFall[k] \in Nat
    BY <1>1, <2>1, AnswerOutcome, NumericValues, CooldownAssumption
       DEF CoolingInv, TypeOK, KeyOf, Ages
  <2>3. \/ v >= reported[k] /\ reported' = [reported EXCEPT ![k] = v]
        \/ reported' = reported
        \/ sinceFall[k] >= t.cooldown
    BY <1>1, <2>1, <2>2, AnswerOutcome DEF CoolingInv, KeyOf
  <2> QED
    BY <1>1, <2>2, <2>3, AtLeastNat DEF CoolingInv, TypeOK
<1>2. CoolingInv /\ [Next]_vars => [\A h \in Handlers : Spaced(h)]_vars
  BY <1>1
<1> QED
  BY <1>2, CoolingInvariant, PTL DEF Spec, FallsSpaced

(***************************************************************************)
(* An answer that is not the measurement is above it, also while the       *)
(* cooldown of a series is switched off and on.                            *)
(***************************************************************************)
THEOREM HeldAreHigher ==
  ASSUME Numeric
  PROVE  Spec => HeldIsHigher
<1> DEFINE Higher(h) ==
      Answers(h) => LET v == reported'[KeyOf(h)] IN
                      v = call[h].value \/ AtLeast(v, call[h].value)
<1>1. ASSUME TypeOK, [Next]_vars, NEW h \in Handlers PROVE Higher(h)
  <2> DEFINE t == call[h].trigger
             k == newCooldownKey(t)
             v == call[h].value
  <2> SUFFICES ASSUME Answers(h)
               PROVE  reported'[k] = v \/ AtLeast(reported'[k], v)
    BY DEF KeyOf
  <2>1. applyCooldown(h)
    BY <1>1, AnswerIsApply
  <2>2. k \in Keys /\ v \in Nat
    BY <1>1, <2>1, KeyInKeys, NumericValues DEF TypeOK, applyCooldown, Calls, Idle
  <2>3. \/ NoCooldown(t, k, v, h) \/ FirstSeen(t, k, v, h) \/ Rising(t, k, v, h)
        \/ Suppressed(t, k, v, h) \/ ScaleDown(t, k, v, h)
    BY <2>1 DEF applyCooldown
  <2> HIDE DEF t, k, v
  <2>4. ASSUME Report(h, k, v) PROVE reported'[k] = v
    BY <1>1, <2>2, <2>4 DEF Report, TypeOK
  <2>5. CASE Suppressed(t, k, v, h)
    <3>1. reported'[k] = cooldowns[k].lastValue /\ ~AtLeast(v, cooldowns[k].lastValue)
      BY <1>1, <2>2, <2>5 DEF Suppressed, Report, TypeOK
    <3>2. cooldowns[k].lastValue \in Nat
      BY <1>1, <2>5, NumericValues DEF Suppressed, TypeOK, cooldownState
    <3> QED
      BY <2>2, <3>1, <3>2, AtLeastNat
  <2> QED
    BY <2>3, <2>4, <2>5 DEF NoCooldown, FirstSeen, Rising, ScaleDown
<1>2. TypeOK /\ [Next]_vars => [\A h \in Handlers : Higher(h)]_vars
  BY <1>1
<1> QED
  BY <1>2, TypeCorrect, PTL DEF Spec, HeldIsHigher

(***************************************************************************)
(* A measurement at or above the last answer is answered as it is.         *)
(***************************************************************************)
THEOREM RisesAreImmediate ==
  ASSUME SteadyCooling, Numeric
  PROVE  Spec => RisesImmediately
<1> DEFINE Immediate(h) ==
      /\ Answers(h)
      /\ reported[KeyOf(h)] = None \/ AtLeast(call[h].value, reported[KeyOf(h)])
      => reported'[KeyOf(h)] = call[h].value
<1>1. ASSUME CoolingInv, [Next]_vars, NEW h \in Handlers PROVE Immediate(h)
  <2> SUFFICES ASSUME Answers(h),
                      \/ reported[KeyOf(h)] = None
                      \/ AtLeast(call[h].value, reported[KeyOf(h)])
               PROVE  reported'[KeyOf(h)] = call[h].value
    OBVIOUS
  <2>1. applyCooldown(h)
    BY <1>1, AnswerIsApply DEF CoolingInv
  <2>2. /\ KeyOf(h) \in Keys /\ call[h].value \in Nat
        /\ reported[KeyOf(h)] \in Nat \cup {None}
    BY <1>1, <2>1, AnswerOutcome, NumericValues DEF CoolingInv, TypeOK, KeyOf
  <2>3. \/ reported' = [reported EXCEPT ![KeyOf(h)] = call[h].value]
        \/ reported[KeyOf(h)] # None /\ call[h].value < reported[KeyOf(h)]
    BY <1>1, <2>1, AnswerOutcome DEF CoolingInv, KeyOf
  <2> QED
    BY <1>1, <2>2, <2>3, AtLeastNat DEF CoolingInv, TypeOK
<1>2. CoolingInv /\ [Next]_vars => [\A h \in Handlers : Immediate(h)]_vars
  BY <1>1
<1> QED
  BY <1>2, CoolingInvariant, PTL DEF Spec, RisesImmediately

(***************************************************************************)
(* The handlers with their map implement the rate limit.                   *)
(***************************************************************************)
LEMMA PromiseStep ==
  ASSUME SteadyCooling, Numeric, CoolingInv, [Next]_vars
  PROVE  [Promise!Next]_(Promise!vars)
<1> USE DEF Promise!vars
<1>1. ASSUME NEW s \in Sources, Fluctuate(s) PROVE UNCHANGED history
  BY <1>1 DEF Fluctuate
<1>2. ASSUME NEW h \in Handlers, NEW t \in Triggers, GetMetrics(h, t)
      PROVE  UNCHANGED history
  BY <1>2 DEF GetMetrics
<1>3. ASSUME NEW h \in Handlers, getMetricValue(h) PROVE UNCHANGED history
  BY <1>3 DEF getMetricValue
<1>4. ASSUME NEW h \in Handlers, CollectFails(h) PROVE UNCHANGED history
  BY <1>4 DEF CollectFails
<1>5. ASSUME NEW h \in Handlers, applyCooldown(h)
      PROVE  [Promise!Next]_(Promise!vars)
  <2> DEFINE t == call[h].trigger
             k == newCooldownKey(t)
             v == call[h].value
  <2>1. /\ k \in Keys /\ t \in Triggers /\ v \in Values
        /\ \/ /\ reported[k] = None \/ v >= reported[k]
              /\ reported' = [reported EXCEPT ![k] = v]
              /\ sinceFall' = sinceFall
           \/ /\ reported' = reported
              /\ sinceFall' = sinceFall
           \/ /\ reported[k] # None /\ v < reported[k]
              /\ sinceFall[k] # None => sinceFall[k] >= t.cooldown
              /\ reported' = [reported EXCEPT ![k] = v]
              /\ sinceFall' = [sinceFall EXCEPT ![k] = 0]
    BY <1>5, AnswerOutcome DEF CoolingInv
  <2>3. t.cooldown \in WindowsOf(k)
    BY <2>1 DEF WindowsOf
  <2> HIDE DEF t, k, v
  <2>2. \/ Promise!First(k, v) \/ Promise!Rise(k, v) \/ Promise!Fall(k, v)
        \/ UNCHANGED history
    BY <2>1, <2>3 DEF Promise!First, Promise!Rise, Promise!Fall, history
  <2> QED
    BY <2>1, <2>2 DEF Promise!Next, history
<1>6. CASE Tick
  <2>1. \A age : Older(age) = Promise!Older(age)
    BY DEF Older, Promise!Older
  <2>2. Promise!Tick
    BY <1>6, <2>1 DEF Tick, Promise!Tick
  <2> QED
    BY <2>2 DEF Promise!Next
<1>7. CASE UNCHANGED vars
  BY <1>7 DEF vars, history
<1> QED
  BY <1>1, <1>2, <1>3, <1>4, <1>5, <1>6, <1>7 DEF Next, history

(***************************************************************************)
(* GetMetrics with its map, its mutex and any number of handlers is an     *)
(* implementation of RateLimitedReports.                                   *)
(***************************************************************************)
THEOREM ImplementsRateLimit ==
  ASSUME SteadyCooling, Numeric
  PROVE  Spec => RateLimited
<1>1. Init => Promise!Init
  BY DEF Init, Promise!Init
<1>2. CoolingInv /\ [Next]_vars => [Promise!Next]_(Promise!vars)
  BY PromiseStep
<1> QED
  BY <1>1, <1>2, CoolingInvariant, PTL DEF Spec, RateLimited, Promise!Spec

-----------------------------------------------------------------------------
(* The service *)

GateVars == <<activity, restarts, early>>

\* A step of a stream leaves the cooldown alone.
LEMMA StreamStepFrame ==
  ASSUME NEW s \in Streams, StreamStep(s)
  PROVE  UNCHANGED <<cooldownVars, ask, restarts, early>>
BY DEF StreamStep, StreamTick, Cancel, StreamDone, TakeTick, TickWasted,
       StreamSends, SendsToNobody

\* The steps of the service as the cooldown sees them.
LEMMA ScalerStep ==
  ASSUME [ScalerNext]_scalerVars
  PROVE  \/ Restart
         \/ \E h \in Handlers : GetMetricsAnswers(h)
         \/ UNCHANGED <<cooldownVars, restarts, early>>
         \/ /\ \/ \E s \in Sources : Fluctuate(s)
               \/ \E h \in Handlers, t \in Triggers : GetMetrics(h, t)
               \/ \E h \in Handlers : getMetricValue(h) \/ CollectFails(h)
               \/ Tick
            /\ UNCHANGED GateVars
<1>1. ASSUME NEW a \in Askers, NEW t \in Triggers, IsActive(a, t)
      PROVE  UNCHANGED <<cooldownVars, restarts, early>>
  BY <1>1 DEF IsActive
<1>2. ASSUME NEW a \in Askers, IsActiveAnswers(a)
      PROVE  UNCHANGED <<cooldownVars, restarts, early>>
  BY <1>2 DEF IsActiveAnswers
<1>3. ASSUME NEW s \in Streams, NEW t \in Triggers, StreamIsActive(s, t)
      PROVE  UNCHANGED <<cooldownVars, restarts, early>>
  BY <1>3 DEF StreamIsActive
<1>4. ASSUME NEW s \in Streams, NEW t \in Triggers, TickerPanics(s, t)
      PROVE  Restart
  BY <1>4 DEF TickerPanics
<1>5. ASSUME NEW s \in Streams, StreamStep(s)
      PROVE  UNCHANGED <<cooldownVars, restarts, early>>
  BY <1>5, StreamStepFrame
<1>6. CASE UNCHANGED scalerVars
  BY <1>6 DEF scalerVars
<1> QED
  BY <1>1, <1>2, <1>3, <1>4, <1>5, <1>6 DEF ScalerNext, GateVars

LEMMA CooldownStep ==
  ASSUME [ScalerNext]_scalerVars, ~Restart
  PROVE  [Next]_vars
BY ScalerStep DEF Next, vars, cooldownVars, GetMetricsAnswers

-----------------------------------------------------------------------------
(***************************************************************************)
(* Type correctness of the service.                                        *)
(***************************************************************************)
LEMMA GateInGates ==
  ASSUME NEW t \in Triggers
  PROVE  Gate(t) \in Gates
BY DEF Gates

LEMMA AboveType ==
  ASSUME NEW v, NEW n
  PROVE  Above(v, n) \in BOOLEAN
BY DEF Above

LEMMA ScalerTypeInit == ScalerInit => ScalerTypeOK
BY TypeInit, ScalerAssumption DEF ScalerInit, ScalerTypeOK, AskStates

LEMMA RestartType ==
  ASSUME ScalerTypeOK, Restart
  PROVE  ScalerTypeOK'
<1>1. TypeOK'
  BY DEF Restart, history, ScalerTypeOK, TypeOK, Calls
<1> QED
  BY <1>1, ScalerAssumption DEF Restart, ScalerTypeOK, AskStates

LEMMA StreamStepType ==
  ASSUME ScalerTypeOK, NEW s \in Streams, StreamStep(s)
  PROVE  /\ stream' \in [Streams -> {Closed} \cup OpenStreams]
         /\ active' \in [Gates -> BOOLEAN \cup {None}]
<1> USE DEF ScalerTypeOK
<1>1. stream[s] \in {Closed} \cup OpenStreams
  OBVIOUS
<1>2. stream[s] # Closed => stream[s] \in OpenStreams /\ stream[s].trigger \in Triggers
  BY <1>1 DEF OpenStreams
<1>3. stream[s].pc \in {"select", "sending"} => stream[s] # Closed
  BY DEF Closed
<1>4. stream[s].pc = "sending" => /\ Selecting(stream[s]) \in OpenStreams
                                  /\ stream[s].result \in BOOLEAN
  BY <1>2, <1>3 DEF OpenStreams, Selecting
<1>5. CASE StreamTick(s)
  BY <1>2, <1>5 DEF StreamTick, OpenStreams
<1>6. CASE Cancel(s)
  BY <1>2, <1>6 DEF Cancel, OpenStreams
<1>7. CASE StreamDone(s)
  BY <1>7 DEF StreamDone
<1>8. CASE TakeTick(s)
  BY <1>2, <1>3, <1>8, AboveType DEF TakeTick, OpenStreams
<1>9. CASE TickWasted(s)
  BY <1>2, <1>3, <1>9 DEF TickWasted, OpenStreams
<1>10. CASE StreamSends(s)
  BY <1>2, <1>3, <1>4, <1>10, GateInGates DEF StreamSends
<1>11. CASE SendsToNobody(s)
  BY <1>4, <1>11 DEF SendsToNobody
<1> QED
  BY <1>5, <1>6, <1>7, <1>8, <1>9, <1>10, <1>11 DEF StreamStep

LEMMA ScalerTypeNext == ScalerTypeOK /\ [ScalerNext]_scalerVars => ScalerTypeOK'
<1> SUFFICES ASSUME ScalerTypeOK, [ScalerNext]_scalerVars PROVE ScalerTypeOK'
  OBVIOUS
<1> USE DEF ScalerTypeOK
<1>1. CASE Restart
  BY <1>1, RestartType
<1>2. CASE ~Restart
  <2>1. TypeOK'
    BY <1>2, CooldownStep, TypeNext
  <2>2. ASSUME NEW a \in Askers, NEW t \in Triggers, IsActive(a, t)
        PROVE  ScalerTypeOK'
    <3>1. [pc |-> "collected", gate |-> Gate(t),
           result |-> Above(level[t.source], t.threshold)] \in AskStates
      BY GateInGates, AboveType DEF AskStates
    <3> QED
      BY <2>1, <2>2, <3>1 DEF IsActive
  <2>3. ASSUME NEW a \in Askers, IsActiveAnswers(a) PROVE ScalerTypeOK'
    <3>1. ask[a].gate \in Gates /\ ask[a].result \in BOOLEAN
      BY <2>3 DEF IsActiveAnswers, AskStates, Idle
    <3> QED
      BY <2>1, <2>3, <3>1 DEF IsActiveAnswers, AskStates
  <2>4. ASSUME NEW s \in Streams, NEW t \in Triggers, StreamIsActive(s, t)
        PROVE  ScalerTypeOK'
    BY <2>1, <2>4 DEF StreamIsActive, OpenStreams
  <2>5. ASSUME NEW s \in Streams, StreamStep(s) PROVE ScalerTypeOK'
    BY <2>1, <2>5, StreamStepType, StreamStepFrame
  <2>6. ASSUME NEW h \in Handlers, GetMetricsAnswers(h) PROVE ScalerTypeOK'
    <3> DEFINE k == newCooldownKey(call[h].trigger)
    <3>1. k \in Keys
      BY <2>6, KeyInKeys DEF GetMetricsAnswers, applyCooldown, TypeOK, Calls, Idle
    <3>2. early' \in {early, [early EXCEPT ![k] = @ + 1]}
      BY <2>6 DEF GetMetricsAnswers
    <3> HIDE DEF k
    <3>3. early' \in [Keys -> Nat]
      BY <3>1, <3>2
    <3> QED
      BY <2>1, <2>6, <3>3 DEF GetMetricsAnswers, activity
  <2>7. CASE UNCHANGED GateVars
    BY <2>1, <2>7 DEF GateVars, activity
  <2>8. CASE UNCHANGED scalerVars
    BY <2>1, <2>8 DEF scalerVars, activity
  <2> QED
    BY <1>2, <2>2, <2>3, <2>4, <2>5, <2>6, <2>7, <2>8
       DEF ScalerNext, GateVars, TickerPanics
<1> QED
  BY <1>1, <1>2

(***************************************************************************)
(* Every reachable state of the service has its types, with any number of  *)
(* handlers, gates and streams and across restarts: what a select finds    *)
(* ready is one of its cases, and a new process starts with an empty map.  *)
(***************************************************************************)
THEOREM ScalerTypeCorrect == ScalerSpec => []ScalerTypeOK
BY ScalerTypeInit, ScalerTypeNext, PTL DEF ScalerSpec

-----------------------------------------------------------------------------
(***************************************************************************)
(* What the map of one process knows, under SteadyCooling and Numeric.     *)
(***************************************************************************)
LEMMA RemembersLifeInit == ScalerInit => RemembersSinceRestart
BY RememberInit DEF ScalerInit, Init, RemembersSinceRestart, SeriesRemembered

\* An answer keeps what the map of this process knows of a series.
LEMMA AnswerRemembers ==
  ASSUME SteadyCooling, Numeric, ScalerTypeOK, RemembersSinceRestart,
         NEW h \in Handlers, GetMetricsAnswers(h), NEW k \in Keys
  PROVE  SeriesRemembered(k)'
<1> DEFINE t == call[h].trigger
           j == newCooldownKey(t)
           v == call[h].value
<1>1. t \in Triggers /\ j \in Keys /\ v \in Nat
  BY KeyInKeys, NumericValues
     DEF ScalerTypeOK, TypeOK, GetMetricsAnswers, applyCooldown, Calls, Idle
<1>2. FallsEarly(h) <=> /\ reported[j] # None /\ sinceFall[j] # None
                        /\ ~AtLeast(reported'[j], reported[j])
                        /\ sinceFall[j] < t.cooldown
  BY DEF FallsEarly
<1>3. early' = IF FallsEarly(h) THEN [early EXCEPT ![j] = @ + 1] ELSE early
  BY DEF GetMetricsAnswers
<1>4. \/ NoCooldown(t, j, v, h) \/ FirstSeen(t, j, v, h) \/ Rising(t, j, v, h)
      \/ Suppressed(t, j, v, h) \/ ScaleDown(t, j, v, h)
  BY DEF GetMetricsAnswers, applyCooldown
<1> HIDE DEF t, j, v
<1>5. /\ t.cooldown \in Nat /\ (Cools(j) <=> t.cooldown > 0)
      /\ early \in [Keys -> Nat]
      /\ reported[j] \in Nat \cup {None} /\ sinceFall[j] \in Nat \cup {None}
  BY <1>1, CooldownAssumption, NumericValues, CoolsAsAsked
     DEF ScalerTypeOK, TypeOK, Ages, t, j
<1>6. SeriesRemembered(k)
  BY DEF RemembersSinceRestart
\* Nothing happens to the other series.
<1>7. CASE k # j
  <2>1. early'[k] = early[k]
    BY <1>1, <1>3, <1>5, <1>7
  <2>2. reported'[k] = reported[k] /\ sinceFall'[k] = sinceFall[k]
    BY <1>1, <1>4, <1>7 DEF NoCooldown, FirstSeen, Rising, Suppressed, ScaleDown,
                            Report, ScalerTypeOK, TypeOK
  <2>3. /\ k \in DOMAIN cooldowns' <=> k \in DOMAIN cooldowns
        /\ k \in DOMAIN cooldowns => cooldowns'[k] = cooldowns[k]
    BY <1>4, <1>7 DEF NoCooldown, FirstSeen, Rising, Suppressed, ScaleDown,
                      ScalerTypeOK, TypeOK
  <2> QED
    BY <1>6, <2>1, <2>2, <2>3 DEF SeriesRemembered
<1>8. CASE k = j
  <2> USE <1>8
  <2>1. k \in DOMAIN cooldowns =>
          cooldowns[k].lastValue = reported[k] /\ reported[k] \in Nat
    BY <1>6, NumericValues DEF SeriesRemembered, ScalerTypeOK, TypeOK, cooldownState
  <2>2. CASE NoCooldown(t, j, v, h)
    <3>1. k \notin DOMAIN cooldowns' /\ early[k] = 0
      BY <1>5, <1>6, <2>2 DEF NoCooldown, SeriesRemembered
    <3>2. early' = early
      BY <1>2, <1>3, <1>5, <2>2 DEF NoCooldown
    <3> QED
      BY <3>1, <3>2 DEF SeriesRemembered
  <2>3. CASE FirstSeen(t, j, v, h)
    <3>1. reported'[k] = v /\ early'[k] <= 1
      BY <1>1, <1>3, <1>5, <1>6, <2>3
         DEF FirstSeen, Report, SeriesRemembered, ScalerTypeOK, TypeOK
    <3> QED
      BY <1>5, <2>3, <3>1 DEF FirstSeen, SeriesRemembered
  <2>4. CASE Rising(t, j, v, h)
    <3>1. AtLeast(v, reported[k])
      BY <2>1, <2>4 DEF Rising
    <3>2. reported'[k] = v /\ sinceFall' = sinceFall
      BY <1>1, <2>4, <3>1 DEF Rising, Report, ScalerTypeOK, TypeOK
    <3>3. early' = early
      BY <1>2, <1>3, <3>1, <3>2
    <3>4. /\ cooldowns'[k].lastValue = v
          /\ cooldowns'[k].lastScaleDownAt = cooldowns[k].lastScaleDownAt
      BY <2>4 DEF Rising, ScalerTypeOK, TypeOK, cooldownState
    <3> QED
      BY <1>6, <2>4, <3>2, <3>3, <3>4 DEF Rising, SeriesRemembered
  <2>5. CASE Suppressed(t, j, v, h)
    <3>1. reported' = reported /\ sinceFall' = sinceFall
      BY <1>1, <2>1, <2>5 DEF Suppressed, Report, ScalerTypeOK, TypeOK
    <3>2. early' = early
      BY <1>2, <1>3, <2>1, <2>5, <3>1, AtLeastNat DEF Suppressed
    <3> QED
      BY <1>6, <2>5, <3>1, <3>2 DEF Suppressed, SeriesRemembered
  <2>6. CASE ScaleDown(t, j, v, h)
    <3>1. ~AtLeast(v, reported[k]) /\ reported[k] \notin {None, v}
      BY <1>1, <2>1, <2>6, AtLeastNat, CooldownAssumption DEF ScaleDown
    <3>2. reported'[k] = v /\ sinceFall'[k] = 0
      BY <1>1, <2>6, <3>1 DEF ScaleDown, Report, ScalerTypeOK, TypeOK
    <3>3. cooldowns'[k] = [lastValue |-> v, lastScaleDownAt |-> 0]
      BY <2>6 DEF ScaleDown
    \* A window this process knows of is over, so the fall is not early.
    <3>4. early'[k] <= 2
      <4>1. CASE cooldowns[k].lastScaleDownAt = None
        BY <1>1, <1>3, <1>5, <1>6, <2>6, <4>1 DEF ScaleDown, SeriesRemembered
      <4>2. CASE cooldowns[k].lastScaleDownAt # None
        BY <1>2, <1>3, <1>5, <1>6, <2>6, <4>2
           DEF ScaleDown, InCooldown, SeriesRemembered
      <4> QED
        BY <4>1, <4>2
    <3> QED
      BY <1>5, <2>6, <3>2, <3>3, <3>4, CooldownAssumption
         DEF ScaleDown, SeriesRemembered
  <2> QED
    BY <1>4, <2>2, <2>3, <2>4, <2>5, <2>6
<1> QED
  BY <1>7, <1>8

\* In the first process no fall is early.
LEMMA AnswerNeverEarly ==
  ASSUME SteadyCooling, Numeric, ScalerTypeOK, Remembers,
         NEW h \in Handlers, GetMetricsAnswers(h)
  PROVE  early' = early
<1> DEFINE t == call[h].trigger
           k == newCooldownKey(t)
           v == call[h].value
<1>1. /\ k \in Keys /\ t \in Triggers /\ v \in Values
      /\ \/ v >= reported[k] /\ reported' = [reported EXCEPT ![k] = v]
         \/ reported' = reported
         \/ reported[k] = None
         \/ sinceFall[k] # None => sinceFall[k] >= t.cooldown
  BY AnswerOutcome DEF ScalerTypeOK, GetMetricsAnswers
<1>2. /\ v \in Nat /\ t.cooldown \in Nat
      /\ reported[k] \in Nat \cup {None} /\ sinceFall[k] \in Nat \cup {None}
  BY <1>1, NumericValues, CooldownAssumption DEF ScalerTypeOK, TypeOK, Ages
<1> HIDE DEF t, k, v
<1>3. ~(/\ reported[k] # None /\ sinceFall[k] # None
        /\ ~AtLeast(reported'[k], reported[k])
        /\ sinceFall[k] < t.cooldown)
  BY <1>1, <1>2, AtLeastNat DEF ScalerTypeOK, TypeOK
<1> QED
  BY <1>3 DEF FallsEarly, GetMetricsAnswers, t, k

LEMMA RemembersLifeNext ==
  ASSUME SteadyCooling, Numeric, ScalerTypeOK, RemembersSinceRestart,
         [ScalerNext]_scalerVars
  PROVE  RemembersSinceRestart'
<1>1. CASE Restart
  BY <1>1, ScalerAssumption
     DEF Restart, RemembersSinceRestart, SeriesRemembered, ScalerTypeOK
<1>2. ASSUME NEW h \in Handlers, GetMetricsAnswers(h)
      PROVE  RemembersSinceRestart'
  <2>1. ASSUME restarts' = 0
        PROVE  Remembers' /\ \A k \in Keys : early'[k] = 0
    <3>1. Remembers /\ \A k \in Keys : early[k] = 0
      BY <1>2, <2>1 DEF GetMetricsAnswers, RemembersSinceRestart
    <3>2. early' = early
      BY <1>2, <3>1, AnswerNeverEarly
    <3>3. [Next]_vars
      BY <1>2 DEF GetMetricsAnswers, Next
    <3> QED
      BY <3>1, <3>2, <3>3, RememberNext DEF ScalerTypeOK
  <2> QED
    BY <1>2, <2>1, AnswerRemembers DEF RemembersSinceRestart
<1>3. CASE UNCHANGED <<cooldownVars, restarts, early>>
  BY <1>3 DEF cooldownVars, RemembersSinceRestart, SeriesRemembered, Remembers
<1>4. CASE Tick /\ UNCHANGED GateVars
  <2>1. ASSUME NEW k \in DOMAIN cooldowns
        PROVE  /\ cooldowns'[k].lastValue = cooldowns[k].lastValue
               /\ cooldowns'[k].lastScaleDownAt = Older(cooldowns[k].lastScaleDownAt)
    BY <1>4, <2>1 DEF Tick, ScalerTypeOK, TypeOK, cooldownState
  <2>2. Older(None) = None /\ \A age \in Ages \ {None} : Older(age) # None
    BY CooldownAssumption DEF Older, Ages
  <2>3. \A k \in DOMAIN cooldowns : cooldowns[k].lastScaleDownAt \in Ages
    BY DEF ScalerTypeOK, TypeOK, cooldownState
  <2>4. Remembers => Remembers'
    BY <1>4, RememberNext DEF Next, ScalerTypeOK
  <2> QED
    BY <1>4, <2>1, <2>2, <2>3, <2>4
       DEF Tick, GateVars, RemembersSinceRestart, SeriesRemembered
<1>5. ASSUME UNCHANGED GateVars,
             \/ \E s \in Sources : Fluctuate(s)
             \/ \E h \in Handlers, t \in Triggers : GetMetrics(h, t)
             \/ \E h \in Handlers : getMetricValue(h) \/ CollectFails(h)
      PROVE  RemembersSinceRestart'
  <2>1. UNCHANGED <<cooldowns, history>>
    BY <1>5 DEF Fluctuate, GetMetrics, getMetricValue, CollectFails
  <2> QED
    BY <1>5, <2>1
       DEF GateVars, history, RemembersSinceRestart, SeriesRemembered, Remembers
<1> QED
  BY <1>1, <1>2, <1>3, <1>4, <1>5, ScalerStep

\* The invariant the theorems below rest on.
LifeInv == ScalerTypeOK /\ RemembersSinceRestart

LEMMA LifeInvariant ==
  ASSUME SteadyCooling, Numeric
  PROVE  ScalerSpec => []LifeInv
<1>1. ScalerInit => LifeInv
  BY ScalerTypeInit, RemembersLifeInit DEF LifeInv
<1>2. LifeInv /\ [ScalerNext]_scalerVars => LifeInv'
  BY ScalerTypeNext, RemembersLifeNext DEF LifeInv
<1> QED
  BY <1>1, <1>2, PTL DEF ScalerSpec

(***************************************************************************)
(* A process that lost its map reports at most two falls of a series       *)
(* before their cooldown is over, and a process that lost none reports     *)
(* none, whatever triggers and handlers compete and however often it is    *)
(* restarted.                                                              *)
(***************************************************************************)
THEOREM EarlyFallsBounded ==
  ASSUME SteadyCooling, Numeric
  PROVE  ScalerSpec => []EarlyFallsPerLife
<1>1. LifeInv => EarlyFallsPerLife
  BY DEF LifeInv, ScalerTypeOK, RemembersSinceRestart, SeriesRemembered,
         EarlyFallsPerLife
<1> QED
  BY <1>1, LifeInvariant, PTL

(***************************************************************************)
(* A measurement is held back only within the caller's cooldown of a fall  *)
(* KEDA was told of, in this process or in an earlier one.                 *)
(***************************************************************************)
THEOREM HeldInWindowOnly ==
  ASSUME SteadyCooling, Numeric
  PROVE  ScalerSpec => HeldOnlyInWindow
<1> DEFINE Held(h) ==
      LET k == KeyOf(h) IN
        /\ call[h].pc = "collected" /\ call'[h] = Idle
        /\ restarts' = restarts
        /\ reported'[k] # call[h].value
        => sinceFall[k] # None /\ sinceFall[k] < call[h].trigger.cooldown
<1>1. ASSUME LifeInv, [ScalerNext]_scalerVars, NEW h \in Handlers PROVE Held(h)
  <2> DEFINE t == call[h].trigger
             k == newCooldownKey(t)
             v == call[h].value
  <2> SUFFICES ASSUME Answers(h), restarts' = restarts, reported'[k] # v
               PROVE  sinceFall[k] # None /\ sinceFall[k] < t.cooldown
    BY DEF Answers, KeyOf
  <2>1. ~Restart
    BY <1>1, ScalerAssumption DEF Restart, LifeInv, ScalerTypeOK
  <2>2. applyCooldown(h)
    BY <1>1, <2>1, CooldownStep, AnswerIsApply DEF LifeInv, ScalerTypeOK
  <2>3. k \in Keys
    BY <1>1, <2>2, KeyInKeys
       DEF LifeInv, ScalerTypeOK, TypeOK, applyCooldown, Calls, Idle
  <2>4. \/ NoCooldown(t, k, v, h) \/ FirstSeen(t, k, v, h) \/ Rising(t, k, v, h)
        \/ Suppressed(t, k, v, h) \/ ScaleDown(t, k, v, h)
    BY <2>2 DEF applyCooldown
  <2> HIDE DEF t, k, v
  <2>5. ~Report(h, k, v)
    BY <1>1, <2>3 DEF Report, LifeInv, ScalerTypeOK, TypeOK
  <2>6. Suppressed(t, k, v, h)
    BY <2>4, <2>5 DEF NoCooldown, FirstSeen, Rising, ScaleDown
  <2> QED
    BY <1>1, <2>3, <2>6
       DEF Suppressed, InCooldown, LifeInv, RemembersSinceRestart, SeriesRemembered
<1>2. LifeInv /\ [ScalerNext]_scalerVars => [\A h \in Handlers : Held(h)]_scalerVars
  BY <1>1
<1> QED
  BY <1>2, LifeInvariant, PTL DEF ScalerSpec, HeldOnlyInWindow

(***************************************************************************)
(* While the process lives, the service with its activity calls and its    *)
(* streams is an implementation of Cooldown, so that everything proved of  *)
(* Spec, the rate limit included, holds of the service.                    *)
(***************************************************************************)
THEOREM ServiceImplementsCooldown ==
  ASSUME MaxRestarts = 0
  PROVE  ScalerSpec => Spec
<1>1. ScalerInit => Init
  BY DEF ScalerInit
<1>2. ScalerTypeOK /\ [ScalerNext]_scalerVars => [Next]_vars
  BY CooldownStep DEF Restart, ScalerTypeOK
<1> QED
  BY <1>1, <1>2, ScalerTypeCorrect, PTL DEF ScalerSpec, Spec

(***************************************************************************)
(* The answers of the whole service fall at most once per window.          *)
(***************************************************************************)
COROLLARY ServiceIsRateLimited ==
  ASSUME MaxRestarts = 0, SteadyCooling, Numeric
  PROVE  ScalerSpec => RateLimited
BY ServiceImplementsCooldown, ImplementsRateLimit
=============================================================================
