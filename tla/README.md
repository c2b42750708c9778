# keda-gpu-scaler in TLA+

keda-gpu-scaler is an external scaler for KEDA.  A DaemonSet pod on each GPU node
answers KEDA's gRPC calls (`IsActive`, `StreamIsActive`, `GetMetricSpec`, `GetMetrics`)
with a number read from NVML or from an inference engine (vLLM, Triton) on the node. The
repository also has `gpu-metrics`, a command that prints the metrics of the GPUs a
scheduler gave to a job.

This directory holds TLA+ modules that model the program, the instances TLC checks, and
theorems that TLAPS checks.  `PROJECT.json` lists the components, the runs, the mutants
(plausible bugs that each property must catch), the source lines every definition stands
for, the hazards and the theorems.

    tlasany Cooldown.tla                                    # parse
    tlc -workers 2 -config MCCooldownSeries.cfg MCCooldown  # model-check one run
    tlapm ScalerProofs.tla                                  # check the proofs of a module

## Inventory

State, operations and interactions, with what makes each part hard and what makes it
correct.

| Component | State | Operations | Interacts with | Hard | Correct when |
|---|---|---|---|---|---|
| GetMetrics and the cooldown (`pkg/scaler/server.go`) | `cooldowns`: key -> last value and time of the last scale-down, under `s.mu` | `GetMetrics`, `newCooldownKey`, `applyCooldown` | called by KEDA, one goroutine per call; reads through the collector and the engine clients | the reading is taken before the lock; triggers are edited; two triggers of one ScaledObject; NaN | falls are a window apart, rises go out at once, a held value is higher, series never mix, held values are given up |
| gRPC service (`IsActive`, `StreamIsActive`, the process around them) | a goroutine per call, a ticker per stream; KEDA keeps the last answers | `IsActive`, `StreamIsActive`, `GetMetricSpec` | KEDA; `getMetricValue`; the kubelet | raw and held values are answered side by side; select between Done and ticker; a panic or a restart forgets every cooldown | activity and metric agree once the metric settles; a restart costs at most two early falls; values are held only with a reason; streams end |
| Triton engine metrics (`pkg/triton/client.go`, `getTritonClient`) | map of clients (no lock); per client the previous sample, under `c.mu` | `getTritonClient`, `Scrape`, `parseMetrics`, `applyDerived` | HTTP to Triton; shared by all handlers of an endpoint | overlapping scrapes; failed requests; Triton restarts; answers without counters; pages with many models | no inference counted twice or lost, the average wait is real, idle means 0, counters are totals over the models |
| NVML and MIG collection (`pkg/gpu`) | NVML handle, `c.mu` | `DeviceCount`, `CollectAll`, `CollectDevice`, `CollectByUUID`, the MIG loop | NVML; called by handlers, the health checker and `gpu-metrics` | any NVML call may fail half-way; the load moves meanwhile; MIG | failures stay on their GPU, nothing counted twice, no number from no reading, the mutex is always released |
| Aggregation (`aggregate`, `percentile`) | none | max, min, avg, sum, p95, p99 | over what `CollectAll` returns | rank arithmetic | nearest rank, monotone |
| Trigger metadata and profiles (`parseMetadata`, `pkg/profiles`) | none | parse, validate, key, compare | for every gRPC call | four ways to set the metric, edits of live triggers | accepted triggers can be served, target and metric fit, tuning keeps the series, measuring something else starts a new one |
| Scaler process (`cmd/keda-gpu-scaler`, `pkg/healthcheck`, `pkg/probes`, vendor detection, `--mock-gpus`) | readiness flag, health status, signal channel, context | detect the vendor, start, readiness, health checks, graceful stop | kubelet, KEDA, NVML | signals at any moment, checks in flight, streams open at shutdown | nothing reads a closed NVML, health follows NVML, signals end the process |
| `gpu-metrics` (`cmd/gpu-metrics`, `pkg/env`, `pkg/slurm`, `pkg/flux`) | environment, ticker, signal channel | detect the scheduler, choose GPUs, dry run, collect, print, repeat | SLURM, Flux, Kubernetes, NVML | nested schedulers, partial failures, signal and tick together | what is printed is whole, of assigned GPUs only and, MIG lists excepted, what the dry run announced; a signal ends it |
| vLLM engine metrics (`pkg/vllm`) | map of clients (no lock) | `Scrape`, `parseMetrics`, `getVLLMMetricValue` | HTTP to vLLM | several engines on one page, two names of a gauge, lines that do not parse, a page that breaks off | the number of the last usable line; absent is an error, never 0 |
| Prometheus instrumentation (`pkg/metrics`) | gauges by index, UUID and name | wraps the collector; `recordGauges` | Prometheus | recorded under no lock by many handlers; MIG indices collide; devices come and go | no series shows another device; gauges of a listed device settle with its load |
| Version, generated gRPC code, Helm/Terraform, multi-node design | - | - | - | - | not modelled (see the end) |

## Modules

    RateLimitedReports      what GetMetrics promises KEDA about one series
      ^ implemented by
    Cooldown                GetMetrics, the handlers, the map, the mutex, time
      MCCooldown            its instances
      Scaler                with IsActive, StreamIsActive and process restarts
        MCScaler
        ScalerProofs        theorems about Cooldown and Scaler
    TritonScrape            client cache and Scrape against a live Triton
      TritonProofs
    ScalerProcess           the process and its goroutines
      ProcessProofs
    GpuMetricsCLI           the command
      MCGpuMetricsCLI
      CLIProofs
    Instrumented            the gauges
      MCInstrumented
      InstrumentedProofs
    Aggregation             pure operators on readings
      AggregationProofs     lemmas about them
      GpuCollection         CollectAll / CollectDevice / CollectByUUID, then aggregate
        MCGpuCollection
        GpuCollectionProofs (with AggregationProofs)
    Exposition              pure operators on engine pages
    Metadata                pure operators on triggers
      MCFunctions           every input of Aggregation, Exposition and Metadata
        FunctionProofs      (with AggregationProofs)

An operator, action or variable bears the name of the function or field it models where
there is one.  A definition whose comment begins with "Mutant" is not part of the model:
it is what a plausible bug would look like.

### Cooldown

`call[h]` is a handler's progress: `GetMetrics` (parsed and accepted), `getMetricValue`
(the reading, outside `s.mu`), `applyCooldown` (everything under `s.mu`, in one step,
together with the answer).  The way of the answer to KEDA after the unlock belongs to
that step: the properties are about the order in which the answers were decided under
`s.mu`, and a reordering on the wire is not modelled.  The five disjuncts of
`applyCooldown` are the five returns of the function, in its order.  A Duration is a
small number of seconds.  The code uses `lastScaleDownAt` only as
`now.Sub(lastScaleDownAt) < cooldown`, so the model keeps that difference and `Tick`
ages it.  `AtLeast` is `>=` on float64, false for NaN.  `source` stands for all fields
of the key that decide what is measured.  `reported` and `sinceFall` are history: what
KEDA has seen.

`RateLimitedReports` speaks of those two only: a series may rise at any time and falls
only when a window in force for it has passed since its last fall.

### Scaler

`Scaler` extends `Cooldown`: its GetMetrics is that module's, step for step
(`GetMetricsAnswers` adds only the history `early`).  `ask[a]` is an `IsActive` call and
`stream[s]` a `StreamIsActive` call, whose record has what the goroutine can see: a
waiting tick and a context that is done.  `select` takes either when both are ready.
`active` is what KEDA was last told about a gate, that is a series with an activation
threshold.  `Restart` drops everything the process remembers and nothing KEDA remembers;
it happens at any time, and also when `time.NewTicker` panics (`TickerPanics`).

### TritonScrape

The map lookup, the map assignment, the HTTP round trip and `applyDerived` are separate
steps, since only the last is under a lock.  A client that is not in the map and not
held by a handler is garbage and may be allocated again.  A sample is the pair of
counters `applyDerived` uses; `derived` keeps the two differences from which
`AvgQueueWaitUs` and `RequestRatePerSec` are divided. Triton may serve, restart, fail or
(with "blank") answer 200 without counters. `Crash` is the Go runtime's fatal error for
concurrent map access.  `served`, `credited`, `skipped` and `had` are history.

### Aggregation and GpuCollection

`Aggregation` has the operators on sequences of readings; `avg` is kept as a fraction.
`sorted` says which reading each place of the sorted slice has (fewer than k readings
are below the k-th and at least k do not exceed it), `largest`, `smallest` and `total`
are the loops of max, min and sum as recursive functions.  Readings are naturals: of all
metrics only `memory_used_percent` is computed as a float quotient.  `GpuCollection`
runs the loop of `CollectAll` one NVML call at a time, under `mu`.  `Faults` names the
calls that may fail; each failure takes the branch the code takes (error, warning and
`continue`, `break` of the MIG loop, or a field that stays 0).  A request by UUID is
what `gpu-metrics` makes for a MIG instance; it reads the instance and, for chip
metrics, its parent.  `missed` records which units a failed call of their own has
hidden.  `seen` records the loads that were there during the collection.

### Exposition

A line is kept as far as `parseLine` tells lines apart: name, label block (closed,
unclosed, with a brace inside a label value) and value.  `vllmRecord` and `tritonRecord`
are one turn of the two `switch` statements; `scan` is the loop around them, a recursive
function over the lines.  Values are integers in hundredths.

### Metadata

`scalerConfig` computes the fields `parseMetadata` leaves when it returns no error, and
`Accepted` says when that is.  Since the function stops at the first error and the
caller uses nothing else, the order of its checks is left out, but not the order in
which later keys override earlier ones.  `getMetricValue` is what the answer of a
trigger depends on: of each field only where the branch taken looks at it.

### ScalerProcess

`host` is what the process starts on: `--mock-gpus` or not, `--mock-gpu-utilization` in
its range or not, and the device files `detectVendor` looks for.  A process on a host
without an NVIDIA GPU, or with synthetic GPUs out of range, ends in `InitCollector` and
is started again.  With synthetic GPUs no call fails. `main` is where the main goroutine
is, from there to the deferred `Close`. Beside it run the health checker (`CheckNVML`
and `Publish` are apart: the answer may be old when it is published), the signal handler
and the gRPC handlers. `Exit` is the end of the process for whatever reason
(`logger.Fatal`, return of `main`, a signal before `signal.Notify`, SIGKILL) and `Boot`
the new container.

### GpuMetricsCLI

A job (flags and environment) is chosen once.  `Plan` is the choice `collect` makes; a
round collects the plan entry by entry and fails as a whole.  `select` in
`runContinuous` takes a tick or a signal.  `printDryRun` prints `describeDeviceFilter`
in place of all that.

### Instrumented

A collection is one step here, since it holds the collector's mutex; what follows is not
under it: each `recordGauges` is a step, in any order among handlers and within a
result.  `Repartition` is the administrator who turns MIG on or off. `LabelsOf` is the
identity of a series: index, UUID and name, of which UUID and name are empty when NVML
did not give them.

## Runs

All finish within two minutes on two cores.

| Run | Asks | Bounds, and why they are enough |
|---|---|---|
| MCCooldownSeries | Do the answers follow the rate limit, are rises immediate and held values higher, are readings of two triggers kept apart, do answers settle? | Two handlers, so that an old reading is applied after a newer one; windows 1 and 3 on one series (an edited trigger) and a trigger without cooldown; three readings, enough for a fall below a fall; ages up to the longest window |
| MCScaler | What do GetMetrics, IsActive and the streams tell KEDA together, across a restart? | One handler, asker and stream: slowness of each against the others is there with one of each, and two handlers are in MCCooldownSeries.  One series through two versions of a trigger (windows 2 and 1; the second with `pollIntervalSeconds` 0, so that opening a stream with it panics); reading 1 is at the threshold and 2 above; two restarts, so that lives with and without early falls follow each other (a crash loop without end is out of its reach: nothing could be promised of the answers then) |
| TritonScrapeSerial | With scrapes one at a time, is every inference counted once? | Four inferences with waits 0 to 2, any number of restarts, failures and blank answers; a double count needs two inferences and two scrapes |
| TritonScrapeShared | Does an idle Triton end at 0 with two handlers? | One inference: what is checked is the order of two handlers' steps, and a value that stays shows with one |
| TritonScrapeOverlap (violation) | Is an inference counted once when scrapes overlap? | Two handlers, three inferences, no faults |
| TritonScrapeRace (violation) | Do all handlers share the cached client? | Two handlers |
| MCFunctions | What do the pure functions compute? | Nodes: all sequences of up to five readings from {0, 1, 2, 4}, and up to 110 GPUs of which the first ones are busy (a percentile commutes with monotone maps, so two values decide nearest rank, and above 100 GPUs p99 is no longer the maximum).  Pages: all sequences of up to four lines out of eleven (two engines, both names of the gauge, comments, lines that do not parse, a brace in a label), answered with 200 or 503, whole or cut: a fold that treats lines alike is decided by pairs of lines.  Triggers: every one with at most three keys, each with accepted, rejected and unparsable values; the interactions in the code are between at most three keys (profile, metric, endpoint or two shorthands and metric) |
| MCGpuCollectionFaults | What survives which failure, and is the mutex always released? | Three GPUs with the MIG one in the middle (two instances); loads 0 and 1; every combination of failing calls; requests for all GPUs, for one by index (whole, partitioned or not there) and for one by UUID (chip, instance, instance that is gone), for instance metrics and chip metrics.  One handler: a collection is under the mutex from its first NVML call to its last, and a kept mutex stops the same handler's next call |
| MCInstrumented | Do gauges show the right device and settle? | Two handlers, so that an old reading is recorded after a newer one; one GPU whose MIG instance has the same index, with loads that tell them apart; partitioned and made whole at any time; UUID and name are both there, or the name is missing, or both are (`Calls` leaves out that the UUID alone is missing) |
| ScalerProcessLife | Start, stop, health and readiness | One unary call, one stream, two signals (one to take, one to drop); the sixteen hosts with and without each device file and `--mock-gpus`, with `--mock-gpu-utilization` in or out of range |
| ScalerProcessReadyz (violation) | Is /readyz 200 once a collection succeeded? | One signal |
| MCGpuMetricsCLIJob | Which GPUs does a job see, is that what the dry run says (for lists without MIG instances), and does it end? | All sets of scheduler markers, step lists of indices, MIG instances and both; each job also run dry; two signals |

Deadlock is checked except where the system stops by itself: MCFunctions (no more
inputs) and MCGpuMetricsCLIJob (the command ends).

### Fairness

- Cooldown: time passes; a handler that can answer does; KEDA polls every trigger again
  and again (its polling loop) and a source does not fail for ever (strong fairness on
  the successful reading).  `Settles` needs no more.
- Scaler: as for Cooldown, and KEDA asks about every gate again and again, through
  whatever version of the trigger it has then.  A goroutine in its `select` takes one of
  the ready cases, and `Done` in the end however many ticks compete with it (the runtime
  chooses uniformly).  Nothing is assumed about the ticker or about KEDA closing
  streams.
- Instrumented: a handler that has collected records, and collections that find a listed
  device together with its UUID and name happen again and again.
- TritonScrape: KEDA polls, handlers run, and the endpoint answers now and then (strong
  fairness on `Fetch`).  Nothing is assumed about blank answers; `IdleReportsZero` is
  about behaviours in which they cease.
- GpuCollection: a goroutine that can run does, and Go's mutex hands over to a waiter in
  the end (its starvation mode).
- ScalerProcess: goroutines run, tickers fire, the kubelet starts the container again,
  and a client closes its stream in the end.  The last one is needed: `GracefulStop`
  waits for open streams and the program has no timeout of its own; without it only the
  kubelet's SIGKILL ends the process.  No fairness is put on SIGKILL.
- GpuMetricsCLI: main runs, the ticker ticks, and a `select` that finds both channels
  ready again and again does not always take the tick (the runtime chooses uniformly).

## What the code does that the texts do not say

The three violation runs, with the lines quoted in `PROJECT.json`:

1. Overlapping Triton scrapes apply samples out of order: the mutex guards
   `applyDerived` only, so an older sample becomes the baseline and the next scrape
   counts the same inferences again (TritonScrapeOverlap).
2. The maps of clients are used without a lock by concurrent handlers: two first
   requests make two clients (TritonScrapeRace), and the Go runtime may stop the process
   (`Crash`).  The vLLM map is the same code.
3. /readyz stays 503 for ever when the one collection at start fails
   (ScalerProcessReadyz).

Smaller differences seen while translating, for which there is no run:

- p95 is the maximum below 20 GPUs and p99 below 100; `docs/configuration.md:227` says
  "roughly 8 or fewer".
- A failing instance handle hides the following instances of that GPU
  (`pkg/gpu/mig.go:44`); `sum` over a chip metric counts the chip once per MIG instance
  (`pkg/gpu/mig.go:73`).
- The profile `distributed-training` has 50000/5000 in the code and 800/100 in
  `docs/configuration.md:59`; the profile `training` is documented as "no scale-to-zero"
  but is inactive at utilization 0.
- A SLURM step list of whole-GPU UUIDs is ignored and every GPU is collected; a step
  list of MIG instances is collected, but the dry run, which "mirrors collect()'s
  selection precedence" (`cmd/gpu-metrics/main.go:182`), announces all GPUs, or the
  indices of a mixed list; instances collected by UUID are all labelled `mig/0` in the
  table (`cmd/gpu-metrics/main.go:355`); after a signal one more round may be collected
  when a tick is waiting (`cmd/gpu-metrics/main.go:133`, comment at line 110).
- NaN from an engine's gauge makes both comparisons of `applyCooldown` false: it becomes
  `lastValue` and is repeated over numbers while a window runs, though the comment
  (`pkg/scaler/server.go:337`) calls the repeated value the higher one.
- A restart of the scaler forgets the cooldowns: up to two falls of a series go out
  early (`EarlyFallsPerLife`).  A trigger with `pollIntervalSeconds` of 0 or less is
  accepted and the first stream for it panics; KEDA asking again makes that a crash
  loop.
- `scaler_requests_total` and its error counter are documented (`README.md:249`,
  `docs/configuration.md:292`) and registered, but never incremented.  Gauges of a GPU
  that was partitioned stay at their last values.
- Of several engines on one page vLLM's parser keeps the last line, Triton's sums the
  counters; a `}` inside a label value makes either parser skip the line.
- The gRPC health server says SERVING before the first check.
- Switching `cooldownSeconds` to 0 and back reuses a baseline that is not what was last
  reported; a Triton restart that is overtaken within one poll interval gives an average
  wait no request had.

## Proofs

Every safety property that a passing run checks is also a theorem.  A run shows it on a
small instance; the theorem holds for every value of the constants that the module's
`ASSUME` allows: any number of handlers, triggers, keys, GPUs, instances, jobs, list
entries and page lines, and every bound.  Each theorem is `Spec => []Inv` or `Spec =>
[][A]_vars` of the module's own specification; the only further hypotheses are the ones
named below.  The inductive invariants are in the modelled modules, beside the
properties they are for, and TLC finds them true on the runs' instances too.

### Hypotheses

| Hypothesis | Used by | Why it is needed |
|---|---|---|
| `SteadyCooling`: no series is asked for by one trigger with a cooldown and by another without | the baseline, the rate limit and what restarts do to it | without a cooldown `applyCooldown` returns before the map, so a report goes by that the map does not have; switched on again, the cooldown starts from a stale baseline (an entry of "hazards") |
| `Numeric`: no source reads NaN | the same, and `HeldAreHigher` | NaN makes both comparisons false, becomes the baseline and is repeated over numbers (an entry of "hazards") |
| `OneHandler`: scrapes do not overlap | the three theorems on Triton's deltas | TritonScrapeOverlap is the counterexample with two handlers |
| `MaxRestarts = 0` | `ServiceImplementsCooldown`, `ServiceIsRateLimited` | a restart forgets the map; `EarlyFallsBounded` says what is left |

The instances of MCCooldownSeries, MCScaler and TritonScrapeSerial meet these
hypotheses, except for the restarts of MCScaler.  A series without any cooldown meets
`SteadyCooling`; MCCooldownSeries has one.

### ScalerProofs

- Cooldown: `TypeCorrect`; `ReportsOwnReadings`; `BaselineCorrect`, `FallsAreSpaced`,
  `HeldAreHigher`, `RisesAreImmediate`; and `ImplementsRateLimit`, which is `Spec =>
  RateLimited`, the refinement of `RateLimitedReports`.
- Scaler: `ScalerTypeCorrect`; `EarlyFallsBounded` and `HeldInWindowOnly`, for any
  number of restarts; `ServiceImplementsCooldown`, which is `ScalerSpec => Spec`: with
  its activity calls and streams the service is, until a restart, an implementation of
  Cooldown. `ServiceIsRateLimited` follows from the two refinements.

`OwnReadings` speaks of answers only and is not inductive.  `Sourced` is: it follows a
reading from the environment (`level`) through the handler (`call`) into the map.

For the others, types alone do not relate the map to the answers.  `Remembers` does: an
entry of the map has the value and the age of the history, and a series that is cooled
and has no entry has no history.  `CoolingInv == TypeOK /\ Remembers` is inductive.  The
action properties and the refinement then follow from one lemma, `AnswerOutcome`: in a
state with `CoolingInv` an answer leaves the reported value alone and is below it, or is
at or above it, or is a fall with the window over.  `PromiseStep` maps each of the three
to a step, or a stutter, of `RateLimitedReports`.

A restart empties the map and keeps the history, so that `Remembers` does not survive
it.  `RemembersSinceRestart` is what does: an entry of the map has the last reported
value, and either the age of the last fall, with at most two early falls, or no fall
yet, with at most one; a series without an entry has none. `LifeInv == ScalerTypeOK /\
RemembersSinceRestart`.  Every step of Scaler but `Restart` is a step of Cooldown on
Cooldown's variables (`CooldownStep`), so that the types and `Remembers` need no second
proof.

### TritonProofs

`TypeCorrect` has no hypothesis: with any number of handlers, restarts and crashes no
handler is without a client and no delta is negative.  The types of a sample need that
Triton's counters stay within what was served, which is `Plausible`. The module's
assumption is that there are more clients than handlers, both finite, so that one is
free whenever a handler looks for one; `FreeClient` counts them.

`CreditedAtMostOnce`, `NothingIsLost` and `MeanIsBounded` follow from `SerialLedger`, a
conjunction of three parts.  `InOrder`: scrapes go through the client of the map and
nothing is reported before it has a baseline.  `Owed`: what is reported, plus what the
sample in flight and the counters of now would still add, was served.  `Exact`: while
the counters only grow, baseline, sample in flight and server are stages of one growth,
and the baseline is the sum of the reports.  The sample in flight is what makes it
inductive: the server moves between `Fetch` and `Apply`.

### ProcessProofs

`TypeCorrect` and `NoneAfterClose`.  The second needs `ServedWhileOpen`: the collector
is open from `InitCollector` to `Close`, and while a call is open `Serve` has not
returned and `GracefulStop`, if called, still waits.

### GpuCollectionProofs

- `TypeCorrect`: loop indices, entries, results and answers, and with `AggregateType`
  that what `aggregate` makes of any number of readings is a fraction of naturals.
- `OneGPUNeverHidesAnother` and `NothingCountedTwice`, from `Collecting ==
  CollectionTypeOK /\ CollectsInOrder`.  The properties speak of finished results;
  `CollectsInOrder` says of every point of the two loops that the result is disjoint,
  complete for what is behind that point and has nothing from beyond it.
- `AnswersWereSeen`, from `Sighted`, which adds `ReadsWereSeen`: a handler that reads
  holds `mu`, so that `seen` has what its devices measure now; each entry is a load in
  `seen` or the 0 of a failed read; and an answer lies between them
  (`AggregateBetween`).

### InstrumentedProofs and CLIProofs

`SeriesAreOwn` follows from `Belonging`: also the readings that a handler has collected
and not yet recorded belong to their device.

For the command, `TypeCorrect`, `WholeSelectionPrinted` and `OnlyTheStepsGPUs` follow
from `OnPlan`: during a round what has been collected, followed by what is still to be
collected, is the plan.  That a plan has only entries of the list, for lists of any
length, rests on lemmas about the loop that keeps first occurrences.

### AggregationProofs and FunctionProofs

`AggregationProofs` has the lemmas: the k-th place of `sorted` exists and is unique
(`Kth`), the value at a clamped rank is the nearest-rank percentile
(`PercentileIsNearestRank`), running totals (`TotalBetween`), and for every method that
the result lies between the smallest and the largest reading, `sum` excepted
(`AggregateBetween`) and grows with each reading (`AggregateMonotone`).  `LargestIs` and
`SmallestIs` say that the loops of max and min return a reading that no other exceeds,
and one that no other is below.

`FunctionProofs` states for nodes, pages and triggers of any size what MCFunctions
checks up to its bounds: `PercentilesAreNearestRank`, `BusierIsNeverLower`,
`AbsentIsAnError`, `CountersAddUp`, `AcceptedCanBeServed`, `TuningKeepsTheSeries`,
`SeriesMeasureOneSource`.  The invariants (`NodeWellFormed`, `LinesWellFormed`,
`WellFormed`) say what an input is; the work is in the loop lemmas, which say what the
recursive functions have after n turns.

`total`, `largest`, `smallest`, `scan` and the loops of the command are recursive
functions over the first n elements. Facts about all n are proved without an induction
rule: the set of wrong n, if it is not empty, has a least element (`Least`, from the
well-foundedness of the naturals), which is neither 0 nor the successor of a right one
(`UpTo`).

### Only model-checked

The nine liveness properties: `Settles`, `ActivityFollows`, `StreamEnds`,
`GaugesFollow`, `IdleReportsZero`, `EveryCallReturns`, `HealthFollowsNVML`, `ShutsDown`
and `SignalStops`.  They need fairness and ENABLED, which are outside the prover's
reach. The properties of the three violation runs are false of the code.

## Plan

The parts of the program with concurrency, failure or ordering of their own have a
model, and the safety properties of the runs have proofs.  What is left, in this order:

1. Weaker hypotheses for the cooldown: `Numeric` for the one series a theorem speaks of,
   instead of for all; and what holds of a series that is switched off and on or reads
   NaN.
2. Overlapping Triton scrapes: what is still true with many handlers and one client (no
   delta above the server's counters, and how far the sum of the deltas may exceed what
   was served).
3. Abstract specifications of a collection (one step that reads all units) and of the
   command (one step that prints the plan), with refinements like that of
   `RateLimitedReports`.
4. Shorter proofs where several actions repeat the same argument.

## Not modelled

- Counters and the histogram of `pkg/metrics`: nothing reads them.  For every module but
  Instrumented the instrumentation is transparent: it returns what the collector
  returned.
- The synthetic readings of the mock collector (constants).
- Formats: number syntax, URLs (an endpoint is allowed or refused), the characters of
  Prometheus text, table/JSON/CSV output, logging, the descriptive fields of an
  environment.
- 64-bit limits of Duration and float64 rounding of sums; readings are naturals.
- Version command, generated gRPC code, Helm chart, Terraform, and the multi-node
  aggregation, which is a design document without code.
- External: NVML, KEDA, grpc-go, the kubelet, Triton and the schedulers appear as the
  environment's actions, modelled from how the code uses them.
