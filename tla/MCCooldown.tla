----------------------------- MODULE MCCooldown -----------------------------
(* Finite instances of Cooldown. *)
EXTENDS Cooldown

Trigger(o, s, c) == [object |-> o, source |-> s, cooldown |-> c]

\* A series asked for with two different windows (an edited ScaledObject) and
\* another trigger of the same ScaledObject, which has no cooldown.
MCTriggers == {Trigger("llm", "util", 1), Trigger("llm", "util", 3),
               Trigger("llm", "mem", 0)}
MCReadings == [s \in {"util", "mem"} |-> IF s = "util" THEN 1..3 ELSE {10}]
=============================================================================
