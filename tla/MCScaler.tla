------------------------------ MODULE MCScaler ------------------------------
(* A small instance of Scaler. *)
EXTENDS Scaler

\* One series asked for in two ways: an edit of the ScaledObject shortened the
\* cooldown and set pollIntervalSeconds to 0.  Reading 1 is at the threshold.
Trigger(c, i) ==
  [object |-> "llm", source |-> "util", cooldown |-> c, threshold |-> 1, interval |-> i]

MCTriggers == {Trigger(2, 10), Trigger(1, 0)}
MCReadings == [s \in {"util"} |-> {1, 2}]
=============================================================================
