---------------------------- MODULE MCFunctions -----------------------------
(***************************************************************************)
(* The pure functions between a request and its value, each on every input *)
(* of a bounded size: aggregate on the readings of a node, the parsers on  *)
(* an engine's page, parseMetadata on the metadata of a trigger.           *)
(*                                                                         *)
(* An input is one of the three and grows step by step: a GPU or a line is *)
(* appended, a user edits one key of a trigger.                            *)
(***************************************************************************)
EXTENDS Aggregation, Exposition, Metadata

CONSTANTS
  Loads,     \* the readings of a GPU
  MaxAny,    \* bound on the GPUs of a node with any readings in any order
  MaxSplit,  \* bound on the GPUs of a node of busy GPUs followed by idle ones
  MaxLines,  \* bound on the lines of a page
  MaxKeys    \* bound on the keys of one trigger

ASSUME MCFunctionsAssumption ==
  /\ Loads \subseteq Nat /\ {0, 1} \subseteq Loads
  /\ {MaxAny, MaxSplit, MaxLines, MaxKeys} \subseteq Nat

VARIABLE input

Node(values) == [kind |-> "node", values |-> values]
Page(status, page, cut) ==
  [kind |-> "page", status |-> status, page |-> page, cut |-> cut]
Trigger(metadata) == [kind |-> "trigger", metadata |-> metadata]

Init ==
  \/ input = Node(<<>>)
  \/ \E status \in {200, 503} : input = Page(status, <<>>, FALSE)
  \/ input = Trigger([key \in {} |-> Bad])

\* Busy GPUs followed by idle ones.
Split(vs) ==
  \E busy \in 0..Len(vs) :
    vs = [i \in 1..Len(vs) |-> IF i <= busy THEN 1 ELSE 0]

AddGPU(v) ==
  /\ input.kind = "node"
  /\ input' = Node(Append(input.values, v))
  /\ \/ Len(input'.values) <= MaxAny
     \/ Len(input'.values) <= MaxSplit /\ Split(input'.values)

\* Two models or engines, both names of the KV cache gauge, and noise.
Lines ==
  {Comment,
   Line("vllm:num_requests_waiting", "closed", 0),
   Line("vllm:num_requests_waiting", "closed", 300),
   Line("vllm:num_requests_waiting", "unclosed", 900),
   Line("vllm:kv_cache_usage_perc", "none", 37),
   Line("vllm:gpu_cache_usage_perc", "closed", 50),
   Line("vllm:kv_cache_usage_perc", "none", Unparsable),
   Line("nv_inference_count", "closed", 200),
   Line("nv_inference_count", "brace", 400),
   Line("nv_inference_queue_duration_us", "closed", 500),
   Line("nv_gpu_utilization", "closed", 70)}

AddLine(line) ==
  /\ input.kind = "page" /\ ~input.cut
  /\ Len(input.page) < MaxLines
  /\ input' = [input EXCEPT !.page = Append(@, line)]

\* The connection breaks here.
Cut == input.kind = "page" /\ ~input.cut /\ input' = [input EXCEPT !.cut = TRUE]

\* Two endpoints that pass validation.
Allowed == {"allowed", "another"}

Values ==
  [profile |-> profileNames \cup {"no-such-profile"},
   metricName |-> {"custom"},
   metricType |-> {"temperature", "vllm_kv_cache_usage", "triton_request_rate",
                   "no-such-type"},
   targetValue |-> {41, Bad},
   targetGpuUtilization |-> {42, Bad},
   targetMemoryUtilization |-> {43, Bad},
   activationThreshold |-> {7, Bad},
   gpuIndex |-> {-2, -1, 0, Bad},
   aggregation |-> {"p95", "no-such-method"},
   pollIntervalSeconds |-> {30, Bad},
   cooldownSeconds |-> {-1, 0, 120, Bad},
   vllmEndpoint |-> {""} \cup Allowed \cup {"refused"},
   tritonEndpoint |-> {""} \cup Allowed \cup {"refused"}]

\* Metadata md with the key set to v.
With(md, key, v) ==
  [k \in DOMAIN md \cup {key} |-> IF k = key THEN v ELSE md[k]]

SetKey(key, v) ==
  /\ input.kind = "trigger"
  /\ input' = Trigger(With(input.metadata, key, v))
  /\ Cardinality(DOMAIN input'.metadata) <= MaxKeys

RemoveKey(key) ==
  /\ input.kind = "trigger"
  /\ key \in DOMAIN input.metadata
  /\ input' = Trigger([k \in DOMAIN input.metadata \ {key} |-> input.metadata[k]])

Next ==
  \/ \E v \in Loads : AddGPU(v)
  \/ \E line \in Lines : AddLine(line)
  \/ Cut
  \/ \E key \in DOMAIN Values : \E v \in Values[key] : SetKey(key, v)
  \/ \E key \in DOMAIN Values : RemoveKey(key)

Spec == Init /\ [][Next]_input

-----------------------------------------------------------------------------
(* Aggregation *)

IsNode == input.kind = "node" /\ input.values # <<>>
values == input.values

(***************************************************************************)
(* percentile's comment: "the value at the given percentile p using the    *)
(* nearest-rank method": the smallest reading that at least p percent of   *)
(* the readings do not exceed.                                             *)
(***************************************************************************)
NearestRank ==
  IsNode =>
    \A p \in {95, 99} :
      percentile(values, p) =
        Min({v \in Readings(values) :
               100 * AtOrBelow(values, v) >= p * Len(values)})

(***************************************************************************)
(* A busier GPU never lowers the number the HPA sees, whatever the method. *)
(***************************************************************************)
Monotone ==
  IsNode /\ Len(values) <= MaxAny =>
    \A i \in DOMAIN values : \A v \in Loads : \A m \in Methods :
      v >= values[i] =>
        AtMost(aggregate(values, m), aggregate([values EXCEPT ![i] = v], m))

-----------------------------------------------------------------------------
(* Exposition *)

IsPage == input.kind = "page"

\* Where the page has a usable line with one of these names.
LinesOf(names) ==
  {i \in DOMAIN input.page :
     /\ input.page[i].name \in names
     /\ input.page[i].labels \in {"none", "closed"}
     /\ input.page[i].value # Unparsable}

LastOf(names) == input.page[Max(LinesOf(names))].value

(***************************************************************************)
(* A vLLM answer is the number on the last usable line of its metric, and  *)
(* a metric that is absent, malformed or on a page that broke off is an    *)
(* error.  getVLLMMetricValue: "A metric that is absent from the scrape    *)
(* must not be reported as 0: KEDA would read that as an idle server and   *)
(* scale it down."                                                         *)
(***************************************************************************)
AbsentIsError ==
  IsPage =>
    \A m \in {<<"vllm_queue_depth", {"vllm:num_requests_waiting"}, 1>>,
              <<"vllm_kv_cache_usage", {"vllm:kv_cache_usage_perc",
                                        "vllm:gpu_cache_usage_perc"}, 100>>} :
      getVLLMMetricValue(m[1], input) =
        IF input.status # 200 \/ input.cut \/ LinesOf(m[2]) = {}
          THEN Error ELSE LastOf(m[2]) * m[3]

\* What each line of the page adds to the counter with this name.
CountsOf(name) ==
  [i \in DOMAIN input.page |->
     IF i \in LinesOf({name}) THEN input.page[i].value ELSE 0]

(***************************************************************************)
(* Triton's counters are the totals over all models, in whatever order and *)
(* between whatever other lines they come, and a page that broke off gives *)
(* no totals, which would look like a reset.  parseMetrics: "we sum across *)
(* all label combinations for a given metric name to get an instance-wide  *)
(* total".                                                                 *)
(***************************************************************************)
TotalsAddUp ==
  IsPage =>
    \A f \in DOMAIN tritonFields \ {"GPUUtilization"} :
      IF input.status # 200 \/ input.cut
        THEN tritonScrape(input) = Error
        ELSE tritonScrape(input)[f] = total(CountsOf(tritonFields[f]))

-----------------------------------------------------------------------------
(* Metadata *)

IsTrigger == input.kind = "trigger"
metadata == input.metadata
cfg == scalerConfig(metadata)

(***************************************************************************)
(* What is accepted can be served, whichever of profile, metricType and    *)
(* the shorthands decided the metric: getMetricValue never reaches an      *)
(* engine client without an endpoint that passed validation, and a target  *)
(* given as a percentage is never compared with watts or megabytes.        *)
(***************************************************************************)
Servable ==
  IsTrigger /\ Accepted(metadata) =>
    /\ ValidMetricType(cfg.metricType)
    /\ IsVLLMMetric(cfg.metricType) => cfg.vllmEndpoint \in Allowed
    /\ IsTritonMetric(cfg.metricType) => cfg.tritonEndpoint \in Allowed
    /\ GetMetricSpec(metadata).targetSize = 42 => cfg.metricType = "gpu_utilization"
    /\ GetMetricSpec(metadata).targetSize = 43 => cfg.metricType = "memory_used_percent"

(***************************************************************************)
(* Tuning a trigger (target, threshold, window, interval) without touching *)
(* what it measures keeps its cooldown series, so that an edit does not    *)
(* let a second scale-down through.                                        *)
(***************************************************************************)
Tuning == {"targetValue", "activationThreshold", "cooldownSeconds",
           "pollIntervalSeconds"}

TuningKeepsSeries ==
  [][IsTrigger =>
     \A key \in Tuning :
       /\ Accepted(metadata) /\ Accepted(metadata')
       /\ \A other \in DOMAIN Values \ {key} :
            /\ other \in DOMAIN metadata <=> other \in DOMAIN metadata'
            /\ other \in DOMAIN metadata => metadata[other] = metadata'[other]
       => newCooldownKey(scalerConfig(metadata'))
            = newCooldownKey(scalerConfig(metadata))]_input

(***************************************************************************)
(* Two triggers share a cooldown series only if getMetricValue reads the   *)
(* same for both: an edit that changes what is measured, be it the GPU, an *)
(* endpoint in use, the method or the metric by way of a profile or a      *)
(* shorthand, starts a series of its own.  cooldownKey's comment: the key  *)
(* "has to include every config field that affects the computed value --   *)
(* otherwise unrelated triggers [...] would share and corrupt a single     *)
(* baseline".                                                              *)
(***************************************************************************)
SeriesHasOneSource ==
  [][IsTrigger /\ Accepted(metadata) /\ Accepted(metadata')
     => LET new == scalerConfig(metadata') IN
        newCooldownKey(new) = newCooldownKey(cfg)
          => getMetricValue(new) = getMetricValue(cfg)]_input
=============================================================================
