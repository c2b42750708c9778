-------------------------- MODULE MCGpuMetricsCLI ---------------------------
(* Finite instances of GpuMetricsCLI. *)
EXTENDS GpuMetricsCLI

Unset == [l \in Lists |-> <<>>]
Index(i) == <<"index", i>>
Instance(i) == <<"MIG", i>>

Job(env, device, continuous, set, gpus) ==
  [env |-> env, device |-> device, continuous |-> continuous, set |-> set,
   gpus |-> gpus, dryRun |-> FALSE]

SlurmStep(step) ==
  [Unset EXCEPT !["SLURM_STEP_GPUS"] = step,
                !["SLURM_JOB_GPUS"] = <<Index(0), Index(1), Index(2)>>]
Cuda(list) == [Unset EXCEPT !["CUDA_VISIBLE_DEVICES"] = list]

\* Lists of indices, of MIG instances, of both, and of neither.
MCSteps == {<<Index(1), Index(2)>>, <<Instance(0), Instance(1)>>,
            <<Index(0), Instance(1)>>, <<<<"other", 0>>>>}

RealJobs ==
  {Job(e, d, c, {"SLURM_JOB_ID"}, SlurmStep(s)) :
     e \in {"auto", "flux"}, d \in {-1, 2}, c \in BOOLEAN, s \in MCSteps}
  \cup {Job("auto", -1, c, set, Cuda(s)) :
          c \in BOOLEAN, set \in SUBSET Markers, s \in MCSteps}
  \cup {Job("auto", -1, c, set, Unset) : c \in BOOLEAN, set \in SUBSET Markers}

\* The same jobs, also run dry.
MCJobs == RealJobs \cup {[j EXCEPT !.dryRun = TRUE] : j \in RealJobs}
=============================================================================
