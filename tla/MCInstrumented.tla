--------------------------- MODULE MCInstrumented ---------------------------
(* A small instance of Instrumented: a GPU that can be partitioned. *)
EXTENDS Instrumented

Chip == [index |-> 0, uuid |-> "gpu", name |-> "H100"]
MCChips == {Chip}
\* The first instance of a chip has the index of the first chip.
MCSlices == {[index |-> 0, uuid |-> "mig", name |-> "H100 MIG", chip |-> Chip]}
\* Both answer, GetName alone fails, or both do.
MCCalls == {[uuid |-> TRUE, name |-> TRUE], [uuid |-> TRUE, name |-> FALSE],
            [uuid |-> FALSE, name |-> FALSE]}
MCLoads == [d \in MCChips \cup MCSlices |-> IF d = Chip THEN {1, 2} ELSE {3, 4}]
=============================================================================
