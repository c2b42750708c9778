--------------------------- MODULE GpuMetricsCLI ----------------------------
(***************************************************************************)
(* The gpu-metrics command (cmd/gpu-metrics/main.go): it finds out which   *)
(* scheduler started it and which GPUs it was given (pkg/env, pkg/slurm,   *)
(* pkg/flux), collects them one after the other, and repeats that until a  *)
(* signal comes.                                                           *)
(*                                                                         *)
(* The collector is external here: a collection succeeds or fails (see     *)
(* GpuCollection for its inside).  Node names, job ids and the rendering   *)
(* of a sample are left out.                                               *)
(***************************************************************************)
EXTENDS Integers, Sequences, SequencesExt

(***************************************************************************)
(* A job is what the process finds at start: the flags --env, --device,    *)
(* --interval and --dry-run, which marker variables are set, and the GPU   *)
(* lists, each a sequence of entries <<kind, id>>.  An empty list is an    *)
(* unset variable.                                                         *)
(* Kinds: "index" for what Atoi accepts, "MIG" for "MIG-...", "other".     *)
(***************************************************************************)
CONSTANTS
  Jobs,       \* the jobs to start from
  MaxSignals  \* bound on the signals of a behaviour

Markers == {"SLURM_JOB_ID", "FLUX_JOB_ID", "KUBERNETES_SERVICE_HOST"}
Lists == {"SLURM_STEP_GPUS", "SLURM_JOB_GPUS", "GPU_DEVICE_ORDINAL",
          "CUDA_VISIBLE_DEVICES"}
Kinds == {"index", "MIG", "other"}

ASSUME GpuMetricsAssumption ==
  /\ MaxSignals \in Nat
  /\ \A j \in Jobs :
       /\ j.env \in {"auto", "k8s", "slurm", "flux", "standalone"}
       /\ j.device \in Nat \cup {-1}
       /\ j.continuous \in BOOLEAN /\ j.dryRun \in BOOLEAN
       /\ j.set \subseteq Markers
       /\ j.gpus \in [Lists -> Seq(Kinds \X Nat)]

VARIABLES
  job,      \* flags and environment; never changes
  pc,       \* where main is
  todo,     \* entries of the plan still to be collected
  sample,   \* entries collected so far in this round
  printed,  \* history: the last sample printed, or what a dry run announced
  tick,     \* ticker.C holds a tick
  signals   \* [sent, pending]: signals so far, and those in sigCh

vars == <<job, pc, todo, sample, printed, tick, signals>>

-----------------------------------------------------------------------------
(* pkg/env, pkg/slurm, pkg/flux *)

\* Detect: SLURM before Flux before Kubernetes.
Detect(j) ==
  IF "SLURM_JOB_ID" \in j.set THEN "slurm"
  ELSE IF "FLUX_JOB_ID" \in j.set THEN "flux"
  ELSE IF "KUBERNETES_SERVICE_HOST" \in j.set THEN "k8s"
  ELSE "standalone"

Parse(j) == IF j.env = "auto" THEN Detect(j) ELSE j.env

\* The list of the first of these variables that is set.
FirstSet(j, names) ==
  LET given == {i \in DOMAIN names : j.gpus[names[i]] # <<>>} IN
  IF given = {} THEN <<>> ELSE j.gpus[names[Min(given)]]

\* Mutant of slurmGPUs: the list of the job goes before that of the step.
slurmGPUsOfJob(j) ==
  FirstSet(j, <<"SLURM_JOB_GPUS", "SLURM_STEP_GPUS", "GPU_DEVICE_ORDINAL",
                "CUDA_VISIBLE_DEVICES">>)

slurmGPUs(j) ==
  FirstSet(j, <<"SLURM_STEP_GPUS", "SLURM_JOB_GPUS", "GPU_DEVICE_ORDINAL",
                "CUDA_VISIBLE_DEVICES">>)

fluxGPUs(j) == j.gpus["CUDA_VISIBLE_DEVICES"]

\* FromType: Kubernetes and standalone have no list.
GPUs(j) ==
  CASE Parse(j) = "slurm" -> slurmGPUs(j)
    [] Parse(j) = "flux" -> fluxGPUs(j)
    [] OTHER -> <<>>

\* The entries of this kind, in the order of the list: the loops of
\* VisibleDevices and MIGUUIDs.
OfKind(list, kind) ==
  LET first[n \in 0..Len(list)] ==
        IF n = 0 THEN <<>>
        ELSE IF list[n][1] = kind THEN Append(first[n - 1], list[n])
        ELSE first[n - 1]
  IN first[Len(list)]

VisibleDevices(j) == OfKind(GPUs(j), "index")
MIGUUIDs(j) == OfKind(GPUs(j), "MIG")

-----------------------------------------------------------------------------
(* collect *)

All == <<"all", 0>>

(***************************************************************************)
(* What collect will ask the collector for, in order: --device, the MIG    *)
(* instances, the indices, or everything with CollectAll.                  *)
(***************************************************************************)
Plan(j) ==
  IF j.device >= 0 THEN <<<<"index", j.device>>>>
  ELSE IF MIGUUIDs(j) # <<>> THEN MIGUUIDs(j)
  ELSE IF VisibleDevices(j) # <<>> THEN VisibleDevices(j)
  ELSE <<All>>

(***************************************************************************)
(* What a dry run says will be collected.  The comment in the code says    *)
(* that it mirrors collect, but MIG instances are not looked for here.     *)
(***************************************************************************)
describeDeviceFilter(j) ==
  IF j.device >= 0 THEN <<<<"index", j.device>>>>
  ELSE IF VisibleDevices(j) # <<>> THEN VisibleDevices(j)
  ELSE <<All>>

Nothing == <<>>

Init ==
  /\ job \in Jobs
  /\ pc = "start"
  /\ todo = <<>>
  /\ sample = <<>>
  /\ printed = Nothing
  /\ tick = FALSE
  /\ signals = [sent |-> 0, pending |-> 0]

\* --dry-run: the plan is printed, the collector is not initialised.
printDryRun ==
  /\ pc = "start"
  /\ job.dryRun
  /\ printed' = describeDeviceFilter(job)
  /\ pc' = "exit"
  /\ UNCHANGED <<job, todo, sample, tick, signals>>

\* The environment is resolved and the collector initialised, or exit status 1.
Start ==
  /\ pc = "start"
  /\ ~job.dryRun
  /\ pc' \in {"round", "exit"}
  /\ UNCHANGED <<job, todo, sample, printed, tick, signals>>

\* collect begins.
BeginRound ==
  /\ pc = "round"
  /\ pc' = "collect"
  /\ todo' = Plan(job)
  /\ sample' = <<>>
  /\ UNCHANGED <<job, printed, tick, signals>>

\* CollectDevice, CollectByUUID or CollectAll succeeds for the next entry.
CollectNext ==
  /\ pc = "collect"
  /\ todo # <<>>
  /\ sample' = Append(sample, Head(todo))
  /\ todo' = Tail(todo)
  /\ UNCHANGED <<job, pc, printed, tick, signals>>

AfterRound == pc' = IF job.continuous THEN "select" ELSE "exit"

\* Mutant of CollectFails: the entry that fails is left out.
CollectSkips ==
  /\ pc = "collect"
  /\ todo # <<>>
  /\ todo' = Tail(todo)
  /\ UNCHANGED <<job, pc, sample, printed, tick, signals>>

\* It fails: collect returns the error, nothing is printed.
CollectFails ==
  /\ pc = "collect"
  /\ todo # <<>>
  /\ todo' = <<>>
  /\ AfterRound
  /\ UNCHANGED <<job, sample, printed, tick, signals>>

\* output
Output ==
  /\ pc = "collect"
  /\ todo = <<>>
  /\ printed' = sample
  /\ AfterRound
  /\ UNCHANGED <<job, todo, sample, tick, signals>>

-----------------------------------------------------------------------------
(* runContinuous *)

\* The interval elapses; ticker.C holds one tick and drops the others.
Ticks ==
  /\ job.continuous /\ pc \in {"round", "collect", "select"}
  /\ tick' = TRUE
  /\ UNCHANGED <<job, pc, todo, sample, printed, signals>>

TakeTick ==
  /\ pc = "select"
  /\ tick
  /\ tick' = FALSE
  /\ pc' = "round"
  /\ UNCHANGED <<job, todo, sample, printed, signals>>

\* Mutant of TakeSignal: the signal is looked at when there is no tick.
TakeSignalLast ==
  /\ pc = "select"
  /\ ~tick
  /\ signals.pending = 1
  /\ signals' = [signals EXCEPT !.pending = 0]
  /\ pc' = "exit"
  /\ UNCHANGED <<job, todo, sample, printed, tick>>

\* With a tick and a signal both there, select takes either.
TakeSignal ==
  /\ pc = "select"
  /\ signals.pending = 1
  /\ signals' = [signals EXCEPT !.pending = 0]
  /\ pc' = "exit"
  /\ UNCHANGED <<job, todo, sample, printed, tick>>

\* Mutant of Signal: every signal is kept.
SignalQueued ==
  /\ pc # "exit"
  /\ signals.sent < MaxSignals
  /\ IF job.continuous /\ pc # "start"
       THEN /\ signals' = [sent |-> signals.sent + 1, pending |-> signals.pending + 1]
            /\ UNCHANGED pc
       ELSE /\ signals' = [signals EXCEPT !.sent = @ + 1]
            /\ pc' = "exit"
  /\ UNCHANGED <<job, todo, sample, printed, tick>>

(***************************************************************************)
(* SIGTERM.  signal.Notify is in force in continuous mode only, and from   *)
(* when the collector is there; otherwise the signal ends the process.     *)
(***************************************************************************)
Signal ==
  /\ pc # "exit"
  /\ signals.sent < MaxSignals
  /\ IF job.continuous /\ pc # "start"
       THEN /\ signals' = [sent |-> signals.sent + 1, pending |-> 1]
            /\ UNCHANGED pc
       ELSE /\ signals' = [signals EXCEPT !.sent = @ + 1]
            /\ pc' = "exit"
  /\ UNCHANGED <<job, todo, sample, printed, tick>>

-----------------------------------------------------------------------------

Main ==
  \/ printDryRun \/ Start \/ BeginRound \/ CollectNext \/ CollectFails \/ Output

Next == Main \/ Ticks \/ TakeTick \/ TakeSignal \/ Signal

Spec == Init /\ [][Next]_vars

(***************************************************************************)
(* Fairness: main runs on, the ticker ticks, and a select that finds both  *)
(* channels ready again and again does not take the tick each time (the Go *)
(* runtime chooses at random).                                             *)
(***************************************************************************)
FairSpec == Spec /\ WF_vars(Main \/ TakeTick) /\ WF_vars(Ticks) /\ SF_vars(TakeSignal)

-----------------------------------------------------------------------------
(* Safety *)

Entries == (Kinds \cup {"all"}) \X Nat

TypeOK ==
  /\ job \in Jobs
  /\ pc \in {"start", "round", "collect", "select", "exit"}
  /\ todo \in Seq(Entries) /\ sample \in Seq(Entries)
  /\ printed \in Seq(Entries)
  /\ tick \in BOOLEAN
  /\ signals \in [sent : 0..MaxSignals, pending : 0..1]

(***************************************************************************)
(* What is printed is what a dry run with the same flags announces, all of *)
(* it and nothing else, also when collections fail half-way or in some     *)
(* rounds only (describeDeviceFilter "mirrors collect()'s selection        *)
(* precedence").  For a list of MIG instances, which the dry run does not  *)
(* know of, it is every instance of the list.                              *)
(***************************************************************************)
PrintedAsDescribed ==
  printed # Nothing /\ ~job.dryRun =>
    printed = IF job.device = -1 /\ MIGUUIDs(job) # <<>>
                THEN MIGUUIDs(job) ELSE describeDeviceFilter(job)

(***************************************************************************)
(* Inside a scheduler's job step with a list of its own, nothing else on   *)
(* the node is collected.  README.md: "collects only the GPUs assigned to  *)
(* your job step".  The list names an index or a MIG instance: of a list   *)
(* of other entries the code reads none, and it collects every GPU.        *)
(***************************************************************************)
InStep(j) ==
  /\ j.env = "auto" /\ j.device = -1
  /\ "SLURM_JOB_ID" \in j.set
  /\ \E e \in ToSet(j.gpus["SLURM_STEP_GPUS"]) : e[1] \in {"index", "MIG"}

OnlyAssigned ==
  InStep(job) => ToSet(sample) \subseteq ToSet(job.gpus["SLURM_STEP_GPUS"])

(***************************************************************************)
(* The inductive invariant behind the two: a round goes through the plan   *)
(* of the job in its order, so that what it has and what it still has to   *)
(* collect are the plan, and only a whole round is printed.                *)
(***************************************************************************)
OnPlan ==
  /\ pc = "collect" => sample \o todo = Plan(job)
  /\ ToSet(sample) \subseteq ToSet(Plan(job))
  /\ printed # Nothing /\ ~job.dryRun => printed = Plan(job)

(* Liveness *)

\* A signal ends the process, however short the interval is.
SignalStops == signals.sent > 0 ~> pc = "exit"
=============================================================================
