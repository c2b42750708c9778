------------------------- MODULE RateLimitedReports -------------------------
(***************************************************************************)
(* What applyCooldown promises KEDA about the values GetMetrics returns    *)
(* for one metric series: the reported value may rise at any time, but it  *)
(* falls only when a whole cooldown window has passed since it last fell.  *)
(* Nothing is said about how the scaler remembers that.                    *)
(***************************************************************************)
EXTENDS Integers

CONSTANTS
  Keys,     \* the metric series
  Values,   \* the numbers a series may report
  Windows,  \* Windows[k]: cooldown windows in force for k, in clock units
  MaxAge,   \* ages are counted up to this bound, at least the longest window
  None      \* "nothing reported yet" and "never fell"

VARIABLES
  reported,  \* reported[k]: the value last reported for k, or None
  sinceFall  \* sinceFall[k]: time since a report for k last fell, or None

vars == <<reported, sinceFall>>

\* The age of something that happened `age` ago, one clock unit later.
Older(age) == IF age \in 0..(MaxAge - 1) THEN age + 1 ELSE age

Init ==
  /\ reported = [k \in Keys |-> None]
  /\ sinceFall = [k \in Keys |-> None]

First(k, v) ==
  /\ reported[k] = None
  /\ reported' = [reported EXCEPT ![k] = v]
  /\ UNCHANGED sinceFall

Rise(k, v) ==
  /\ reported[k] # None
  /\ v >= reported[k]
  /\ reported' = [reported EXCEPT ![k] = v]
  /\ UNCHANGED sinceFall

Fall(k, v) ==
  /\ reported[k] # None
  /\ v < reported[k]
  /\ sinceFall[k] # None => \E w \in Windows[k] : sinceFall[k] >= w
  /\ reported' = [reported EXCEPT ![k] = v]
  /\ sinceFall' = [sinceFall EXCEPT ![k] = 0]

Tick ==
  /\ sinceFall' = [k \in Keys |-> Older(sinceFall[k])]
  /\ UNCHANGED reported

Next ==
  \/ \E k \in Keys, v \in Values : First(k, v) \/ Rise(k, v) \/ Fall(k, v)
  \/ Tick

Spec == Init /\ [][Next]_vars
=============================================================================
