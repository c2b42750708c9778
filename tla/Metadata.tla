------------------------------ MODULE Metadata ------------------------------
(***************************************************************************)
(* parseMetadata (pkg/scaler/server.go) with the profiles and metric types *)
(* of pkg/profiles: from the metadata of a ScaledObject trigger to what is *)
(* measured, and against which target.                                     *)
(*                                                                         *)
(* Metadata is a function from the keys that are present to their values.  *)
(* Bad stands for text that does not parse as the number it should be.  Of *)
(* an endpoint the model keeps what validateVLLMEndpoint makes of it:      *)
(* "refused", or one that it lets through, or "" for a key that is there    *)
(* and empty.                                                              *)
(***************************************************************************)
EXTENDS Integers

CONSTANT Bad

ASSUME MetadataAssumption == Bad \notin Int

profile(metricType, target, activation) ==
  [metricType |-> metricType, target |-> target, activation |-> activation]

profileNames ==
  {"distributed-training", "vllm-inference", "vllm-queue-depth",
   "triton-inference", "triton-queue-wait", "triton-request-rate", "training",
   "batch", "ollama", "tgi-inference"}

builtinProfiles == [name \in profileNames |->
  CASE name = "distributed-training" -> profile("nvlink_tx_mbps", 50000, 5000)
    [] name = "vllm-inference" -> profile("memory_used_percent", 80, 5)
    [] name = "vllm-queue-depth" -> profile("vllm_queue_depth", 5, 1)
    [] name = "triton-inference" -> profile("gpu_utilization", 75, 10)
    [] name = "triton-queue-wait" -> profile("triton_queue_wait_ms", 50, 5)
    [] name = "triton-request-rate" -> profile("triton_request_rate", 50, 1)
    [] name = "training" -> profile("gpu_utilization", 90, 0)
    [] name = "batch" -> profile("memory_used_percent", 70, 1)
    [] name = "ollama" -> profile("memory_used_percent", 70, 3)
    [] name = "tgi-inference" -> profile("memory_used_percent", 75, 5)]

IsVLLMMetric(t) == t \in {"vllm_queue_depth", "vllm_kv_cache_usage"}
IsTritonMetric(t) == t \in {"triton_queue_wait_ms", "triton_request_rate"}

ValidMetricType(t) ==
  \/ IsVLLMMetric(t) \/ IsTritonMetric(t)
  \/ t \in {"gpu_utilization", "memory_utilization", "memory_used_mib",
            "memory_used_percent", "temperature", "power_draw", "pcie_tx_kbps",
            "pcie_rx_kbps", "nvlink_tx_mbps", "nvlink_rx_mbps"}

-----------------------------------------------------------------------------

Get(md, key, default) == IF key \in DOMAIN md THEN md[key] ELSE default

\* What the profile sets, or the defaults; an unknown profile is an error.
base(md) ==
  IF Get(md, "profile", "") \in DOMAIN builtinProfiles
    THEN builtinProfiles[md["profile"]]
    ELSE profile("gpu_utilization", 80, 0)

\* Mutant of metricType: a shorthand sets the target alone.
MetricTypeWithoutShorthand(md) == Get(md, "metricType", base(md).metricType)

\* The shorthands come after metricType, targetMemoryUtilization last.
metricType(md) ==
  IF "targetMemoryUtilization" \in DOMAIN md THEN "memory_used_percent"
  ELSE IF "targetGpuUtilization" \in DOMAIN md THEN "gpu_utilization"
  ELSE Get(md, "metricType", base(md).metricType)

targetValue(md) ==
  Get(md, "targetMemoryUtilization",
    Get(md, "targetGpuUtilization",
      Get(md, "targetValue", base(md).target)))

\* The configuration an accepted trigger gets.  A profile's metric name is
\* its own name here.
scalerConfig(md) ==
  [metricName |-> Get(md, "metricName", Get(md, "profile", "keda_gpu_metric")),
   metricType |-> metricType(md),
   targetValue |-> targetValue(md),
   activationThreshold |-> Get(md, "activationThreshold", base(md).activation),
   gpuIndex |-> Get(md, "gpuIndex", -1),
   aggregation |-> Get(md, "aggregation", "max"),
   pollIntervalSeconds |-> Get(md, "pollIntervalSeconds", 10),
   cooldownSeconds |-> Get(md, "cooldownSeconds", 60),
   vllmEndpoint |-> Get(md, "vllmEndpoint", ""),
   tritonEndpoint |-> Get(md, "tritonEndpoint", "")]

\* The numbers and names that are present parse and are in range.
FieldsValid(md) ==
  /\ Get(md, "profile", "training") \in DOMAIN builtinProfiles
  /\ ValidMetricType(Get(md, "metricType", "gpu_utilization"))
  /\ \A key \in {"targetValue", "targetGpuUtilization", "targetMemoryUtilization",
                "activationThreshold", "pollIntervalSeconds"} :
       Get(md, key, 0) # Bad
  /\ Get(md, "gpuIndex", -1) # Bad /\ Get(md, "gpuIndex", -1) >= -1
  /\ Get(md, "cooldownSeconds", 0) # Bad /\ Get(md, "cooldownSeconds", 0) >= 0
  /\ Get(md, "aggregation", "max") \in {"max", "min", "avg", "sum", "p95", "p99"}

\* Mutant of EndpointsValid: looks at metricType and profile, not the result.
EndpointsOfKeys(md) ==
  LET t == Get(md, "metricType", "gpu_utilization") IN
  /\ IsVLLMMetric(t) => Get(md, "vllmEndpoint", "") # ""
  /\ IsTritonMetric(t) => Get(md, "tritonEndpoint", "") # ""
  /\ "refused" \notin {Get(md, "vllmEndpoint", ""), Get(md, "tritonEndpoint", "")}

\* An engine metric has its endpoint, and no endpoint is refused.
EndpointsValid(md) ==
  LET cfg == scalerConfig(md) IN
  /\ IsVLLMMetric(cfg.metricType) => cfg.vllmEndpoint # ""
  /\ IsTritonMetric(cfg.metricType) => cfg.tritonEndpoint # ""
  /\ "refused" \notin {cfg.vllmEndpoint, cfg.tritonEndpoint}

\* parseMetadata returns no error.
Accepted(md) == FieldsValid(md) /\ EndpointsValid(md)

\* Mutant of newCooldownKey: the target belongs to the key.
KeyWithTarget(cfg) ==
  <<cfg.metricName, cfg.metricType, cfg.aggregation, cfg.gpuIndex,
    cfg.vllmEndpoint, cfg.tritonEndpoint, cfg.targetValue>>

\* Mutant of newCooldownKey: the GPU is not part of the key.
KeyWithoutGPU(cfg) ==
  <<cfg.metricName, cfg.metricType, cfg.aggregation, cfg.vllmEndpoint,
    cfg.tritonEndpoint>>

\* The fields of the cooldown key that come from the metadata.
newCooldownKey(cfg) ==
  <<cfg.metricName, cfg.metricType, cfg.aggregation, cfg.gpuIndex,
    cfg.vllmEndpoint, cfg.tritonEndpoint>>

\* What getMetricValue reads: of each field only where the branch looks at it.
getMetricValue(cfg) ==
  LET engine == IsVLLMMetric(cfg.metricType) \/ IsTritonMetric(cfg.metricType) IN
  [metricType |-> cfg.metricType,
   endpoint |-> IF IsVLLMMetric(cfg.metricType) THEN cfg.vllmEndpoint
                ELSE IF IsTritonMetric(cfg.metricType) THEN cfg.tritonEndpoint
                ELSE "",
   gpuIndex |-> IF engine THEN -1 ELSE cfg.gpuIndex,
   aggregation |-> IF engine \/ cfg.gpuIndex >= 0 THEN "" ELSE cfg.aggregation]

\* GetMetricSpec: the name and the target KEDA gives to the HPA.
GetMetricSpec(md) ==
  [metricName |-> scalerConfig(md).metricName,
   targetSize |-> scalerConfig(md).targetValue]
=============================================================================
