-------------------------- MODULE MCGpuCollection ---------------------------
(* Finite instances of GpuCollection. *)
EXTENDS GpuCollection

\* GPU 1 is cut into two compute instances, the other GPUs are whole.
MCSecondInTwo == [g \in {1} |-> 2]

Request(g, m, chip) ==
  [gpuIndex |-> g, aggregation |-> m, chipLevel |-> chip, uuid |-> None]
ByUUID(p, chip) ==
  [gpuIndex |-> -1, aggregation |-> "max", chipLevel |-> chip, uuid |-> p]

\* All GPUs; by index the MIG-enabled GPU and one that is not there; by UUID an
\* instance, its chip and an instance that is gone.
MCRequests ==
  {Request(-1, "max", chip) : chip \in BOOLEAN}
    \cup {Request(-1, "avg", FALSE), Request(1, "max", FALSE), Request(7, "max", FALSE)}
    \cup {ByUUID(<<1, 0>>, chip) : chip \in BOOLEAN}
    \cup {ByUUID(<<1, Chip>>, TRUE), ByUUID(<<1, 5>>, FALSE)}
=============================================================================
