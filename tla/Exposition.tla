----------------------------- MODULE Exposition -----------------------------
(***************************************************************************)
(* The engines' metrics pages: parseLine and parseMetrics of pkg/vllm and  *)
(* pkg/triton (their parseLine is the same function), and what             *)
(* getVLLMMetricValue (pkg/scaler/server.go) makes of the result.          *)
(*                                                                         *)
(* A response is [status, page, cut], a page a sequence of lines in the    *)
(* Prometheus text format; cut says that the connection breaks before the  *)
(* end.  A line is kept as far as the parsers tell lines apart: its name,  *)
(* its label block and its value.  Values are in hundredths, on the page   *)
(* and in an answer, so that the KV cache gauge, a fraction of 1, is an    *)
(* integer.                                                                *)
(***************************************************************************)
EXTENDS Integers, Sequences

CONSTANTS
  Unparsable,  \* a value missing from the line, or not a float
  Error        \* the error a scrape or getVLLMMetricValue returns

ASSUME ExpositionAssumption == Unparsable \notin Int /\ Error \notin Int

Comment == [name |-> "#", labels |-> "none", value |-> Unparsable]

(***************************************************************************)
(* labels is "none" or "closed" for a well-formed line, "unclosed" for a   *)
(* line that ends inside its labels, and "brace" when a label value has a  *)
(* closing brace in it.                                                    *)
(***************************************************************************)
Line(name, labels, value) == [name |-> name, labels |-> labels, value |-> value]

\* The first field once everything up to the first closing brace is cut out:
\* a brace inside a label value leaves the rest of the labels in the name.
stripped(line) == IF line.labels = "brace" THEN "mangled" ELSE line.name

\* parseLine's third result: the line is well formed, its value a float.
parses(line) == line.labels # "unclosed" /\ line.value # Unparsable

\* Its other two: the name and the value of the line.
parseLine(line) == [name |-> stripped(line), value |-> line.value]

\* The loop of parseMetrics, with `record' for one turn of its switch: a line
\* that does not parse is skipped.
scan(page, zero, record(_, _)) ==
  LET after[n \in 0..Len(page)] ==
        IF n = 0 THEN zero
        ELSE IF parses(page[n]) THEN record(after[n - 1], parseLine(page[n]))
        ELSE after[n - 1]
  IN after[Len(page)]

-----------------------------------------------------------------------------
(* pkg/vllm *)

vllmFields ==
  [QueueDepth |-> {"vllm:num_requests_waiting"},
   RunningCount |-> {"vllm:num_requests_running"},
   KVCacheUsage |-> {"vllm:kv_cache_usage_perc", "vllm:gpu_cache_usage_perc"},
   SwappedCount |-> {"vllm:num_requests_swapped"}]

\* One turn of the switch: the field takes the value, the Has flag is set.
vllmRecord(m, sample) ==
  [f \in DOMAIN m |->
     IF sample.name \in vllmFields[f]
       THEN [has |-> TRUE, value |-> sample.value] ELSE m[f]]

\* An EngineMetrics at the start of parseMetrics.
noVLLM == [f \in DOMAIN vllmFields |-> [has |-> FALSE, value |-> 0]]

vllmMetrics(page) == scan(page, noVLLM, vllmRecord)

\* Scrape returns no error: neither the status nor reading the body failed.
Delivered(response) == response.status = 200 /\ ~response.cut

\* Mutant of getVLLMMetricValue: the Has flags are not looked at.
AbsentIsZero(metricType, response) ==
  IF ~Delivered(response) THEN Error
  ELSE IF metricType = "vllm_queue_depth"
    THEN vllmMetrics(response.page).QueueDepth.value
    ELSE vllmMetrics(response.page).KVCacheUsage.value * 100

\* The queue depth, or the KV cache usage in percent; an error if absent.
getVLLMMetricValue(metricType, response) ==
  LET m == vllmMetrics(response.page)
      value == CASE metricType = "vllm_queue_depth" -> m.QueueDepth
                 [] metricType = "vllm_kv_cache_usage" ->
                      [m.KVCacheUsage EXCEPT !.value = @ * 100]
  IN IF Delivered(response) /\ value.has THEN value.value ELSE Error

-----------------------------------------------------------------------------
(* pkg/triton *)

tritonFields ==
  [QueueDurationUs |-> "nv_inference_queue_duration_us",
   RequestSuccess |-> "nv_inference_request_success",
   RequestFailure |-> "nv_inference_request_failure",
   InferenceCount |-> "nv_inference_count",
   GPUUtilization |-> "nv_gpu_utilization"]

\* Mutant of tritonRecord: a counter takes the last model's value.
TritonRecordLast(m, sample) ==
  [f \in DOMAIN m |-> IF sample.name = tritonFields[f] THEN sample.value ELSE m[f]]

\* One turn of the switch: the counters of all models are added up, the
\* gauge takes the value of the last GPU.
tritonRecord(m, sample) ==
  [f \in DOMAIN m |->
     IF sample.name # tritonFields[f] THEN m[f]
     ELSE IF f = "GPUUtilization" THEN sample.value
     ELSE m[f] + sample.value]

noTriton == [f \in DOMAIN tritonFields |-> 0]

tritonMetrics(page) == scan(page, noTriton, tritonRecord)

\* What Scrape hands to applyDerived, or the error.
tritonScrape(response) ==
  IF Delivered(response) THEN tritonMetrics(response.page) ELSE Error
=============================================================================
