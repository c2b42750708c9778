--------------------------- MODULE FunctionProofs ---------------------------
(***************************************************************************)
(* Theorems about the pure functions, for inputs of every size.            *)
(***************************************************************************)
EXTENDS MCFunctions, AggregationProofs

-----------------------------------------------------------------------------
(* Triggers *)

LEMMA ProfilesNamed ==
  DOMAIN builtinProfiles = profileNames /\ "" \notin profileNames
BY DEF builtinProfiles, profileNames

\* No profile has a target that a shorthand can have, and each has a known metric.
LEMMA ProfileFacts ==
  ASSUME NEW p \in DOMAIN builtinProfiles
  PROVE  /\ ValidMetricType(builtinProfiles[p].metricType)
         /\ builtinProfiles[p].target \in Int \ {42, 43}
<1> DEFINE Known(q) == /\ ValidMetricType(q.metricType) /\ q.target \in Int \ {42, 43}
<1>1. /\ Known(profile("nvlink_tx_mbps", 50000, 5000))
      /\ Known(profile("memory_used_percent", 80, 5))
      /\ Known(profile("vllm_queue_depth", 5, 1))
      /\ Known(profile("gpu_utilization", 75, 10))
      /\ Known(profile("triton_queue_wait_ms", 50, 5))
      /\ Known(profile("triton_request_rate", 50, 1))
      /\ Known(profile("gpu_utilization", 90, 0))
      /\ Known(profile("memory_used_percent", 70, 1))
      /\ Known(profile("memory_used_percent", 70, 3))
      /\ Known(profile("memory_used_percent", 75, 5))
  BY DEF profile, ValidMetricType, IsVLLMMetric, IsTritonMetric
<1> HIDE DEF Known
<1>2. Known(builtinProfiles[p])
  BY <1>1 DEF builtinProfiles, profileNames
<1> QED
  BY <1>2 DEF Known

\* The input is a trigger whose keys have values users give them.
WellFormed ==
  input.kind = "trigger" =>
    /\ DOMAIN input.metadata \subseteq DOMAIN Values
    /\ \A key \in DOMAIN input.metadata : input.metadata[key] \in Values[key]

LEMMA WellFormedInit == Init => WellFormed
BY DEF Init, WellFormed, Node, Page, Trigger

LEMMA WellFormedNext == WellFormed /\ [Next]_input => WellFormed'
<1> SUFFICES ASSUME WellFormed, [Next]_input PROVE WellFormed'
  OBVIOUS
<1>1. ASSUME NEW v \in Loads, AddGPU(v) PROVE WellFormed'
  BY <1>1 DEF AddGPU, Node, WellFormed
<1>2. ASSUME NEW line \in Lines, AddLine(line) PROVE WellFormed'
  BY <1>2 DEF AddLine, WellFormed
<1>3. CASE Cut
  BY <1>3 DEF Cut, WellFormed
<1>4. ASSUME NEW key \in DOMAIN Values, NEW v \in Values[key], SetKey(key, v)
      PROVE  WellFormed'
  <2> DEFINE md == With(input.metadata, key, v)
  <2>1. input.kind = "trigger" /\ input'.metadata = md
    BY <1>4 DEF SetKey, Trigger
  <2>2. /\ DOMAIN md = DOMAIN input.metadata \cup {key}
        /\ \A k \in DOMAIN md : md[k] = IF k = key THEN v ELSE input.metadata[k]
    BY DEF With
  <2> HIDE DEF md
  <2> QED
    BY <1>4, <2>1, <2>2 DEF WellFormed
<1>5. ASSUME NEW key \in DOMAIN Values, RemoveKey(key) PROVE WellFormed'
  <2> DEFINE md == [k \in DOMAIN input.metadata \ {key} |-> input.metadata[k]]
  <2>1. input.kind = "trigger" /\ input'.metadata = md
    BY <1>5 DEF RemoveKey, Trigger
  <2> QED
    BY <2>1 DEF WellFormed
<1>6. CASE UNCHANGED input
  BY <1>6 DEF WellFormed
<1> QED
  BY <1>1, <1>2, <1>3, <1>4, <1>5, <1>6 DEF Next

LEMMA AcceptedIsServable ==
  ASSUME WellFormed, IsTrigger, Accepted(metadata)
  PROVE  /\ ValidMetricType(cfg.metricType)
         /\ IsVLLMMetric(cfg.metricType) => cfg.vllmEndpoint \in Allowed
         /\ IsTritonMetric(cfg.metricType) => cfg.tritonEndpoint \in Allowed
         /\ GetMetricSpec(metadata).targetSize = 42 =>
              cfg.metricType = "gpu_utilization"
         /\ GetMetricSpec(metadata).targetSize = 43 =>
              cfg.metricType = "memory_used_percent"
<1> DEFINE md == metadata
<1>1. /\ DOMAIN md \subseteq DOMAIN Values
      /\ \A key \in DOMAIN md : md[key] \in Values[key]
  BY DEF WellFormed, IsTrigger, metadata
<1>2. /\ "vllmEndpoint" \in DOMAIN md =>
           md["vllmEndpoint"] \in {""} \cup Allowed \cup {"refused"}
      /\ "tritonEndpoint" \in DOMAIN md =>
           md["tritonEndpoint"] \in {""} \cup Allowed \cup {"refused"}
      /\ "targetValue" \in DOMAIN md => md["targetValue"] \in {41, Bad}
      /\ "targetGpuUtilization" \in DOMAIN md =>
           md["targetGpuUtilization"] \in {42, Bad}
      /\ "targetMemoryUtilization" \in DOMAIN md =>
           md["targetMemoryUtilization"] \in {43, Bad}
  BY <1>1 DEF Values
<1>3. FieldsValid(md) /\ EndpointsValid(md)
  BY DEF Accepted
<1>4. ValidMetricType(base(md).metricType) /\ base(md).target \in Int \ {42, 43}
  <2>1. CASE Get(md, "profile", "") \in DOMAIN builtinProfiles
    <3>1. Get(md, "profile", "") = md["profile"]
      BY <2>1, ProfilesNamed DEF Get
    <3> QED
      BY <2>1, <3>1, ProfileFacts DEF base
  <2>2. CASE Get(md, "profile", "") \notin DOMAIN builtinProfiles
    <3>1. base(md) = profile("gpu_utilization", 80, 0)
      BY <2>2 DEF base
    <3> QED
      BY <3>1 DEF profile, ValidMetricType
  <2> QED
    BY <2>1, <2>2
<1> DEFINE c == scalerConfig(md)
<1>5. /\ c.metricType = metricType(md) /\ c.targetValue = targetValue(md)
      /\ c.vllmEndpoint = Get(md, "vllmEndpoint", "")
      /\ c.tritonEndpoint = Get(md, "tritonEndpoint", "")
  BY DEF scalerConfig
<1> HIDE DEF md
<1>6. ValidMetricType(metricType(md))
  <2>1. "metricType" \in DOMAIN md => ValidMetricType(md["metricType"])
    BY <1>3 DEF FieldsValid, Get
  <2>2. ValidMetricType("gpu_utilization") /\ ValidMetricType("memory_used_percent")
    BY DEF ValidMetricType
  <2> QED
    BY <1>4, <2>1, <2>2 DEF metricType, Get
<1>7. /\ IsVLLMMetric(metricType(md)) => Get(md, "vllmEndpoint", "") \in Allowed
      /\ IsTritonMetric(metricType(md)) => Get(md, "tritonEndpoint", "") \in Allowed
  BY <1>2, <1>3, <1>5 DEF EndpointsValid, Get
<1>8. /\ targetValue(md) = 42 => metricType(md) = "gpu_utilization"
      /\ targetValue(md) = 43 => metricType(md) = "memory_used_percent"
  <2>1. Bad # 42 /\ Bad # 43
    BY MetadataAssumption
  <2>2. CASE "targetMemoryUtilization" \in DOMAIN md
    <3>1. targetValue(md) = md["targetMemoryUtilization"]
      BY <2>2 DEF targetValue, Get
    <3>2. metricType(md) = "memory_used_percent"
      BY <2>2 DEF metricType
    <3>3. targetValue(md) # 42
      <4>1. targetValue(md) \in {43, Bad}
        BY <1>2, <2>2, <3>1
      <4> QED
        BY <2>1, <4>1
    <3> QED
      BY <3>2, <3>3
  <2>3. CASE /\ "targetMemoryUtilization" \notin DOMAIN md
             /\ "targetGpuUtilization" \in DOMAIN md
    <3>1. targetValue(md) = md["targetGpuUtilization"]
      BY <2>3 DEF targetValue, Get
    <3>2. metricType(md) = "gpu_utilization"
      BY <2>3 DEF metricType
    <3>3. targetValue(md) # 43
      <4>1. targetValue(md) \in {42, Bad}
        BY <1>2, <2>3, <3>1
      <4> QED
        BY <2>1, <4>1
    <3> QED
      BY <3>2, <3>3
  <2>4. CASE /\ "targetMemoryUtilization" \notin DOMAIN md
             /\ "targetGpuUtilization" \notin DOMAIN md
    <3>1. targetValue(md) = Get(md, "targetValue", base(md).target)
      BY <2>4 DEF targetValue, Get
    <3>2. CASE "targetValue" \in DOMAIN md
      <4>1. targetValue(md) \in {41, Bad}
        BY <1>2, <3>1, <3>2 DEF Get
      <4> QED
        BY <2>1, <4>1
    <3>3. CASE "targetValue" \notin DOMAIN md
      BY <1>4, <3>1, <3>3 DEF Get
    <3> QED
      BY <3>2, <3>3
  <2> QED
    BY <2>2, <2>3, <2>4
<1> QED
  BY <1>5, <1>6, <1>7, <1>8 DEF cfg, GetMetricSpec, md

(***************************************************************************)
(* Whatever keys a trigger has, of the values users give them: if it is    *)
(* accepted, its metric is one getMetricValue knows, an engine metric has  *)
(* an endpoint that passed validation, and a percentage is compared with   *)
(* the percentage it is meant for.                                         *)
(***************************************************************************)
THEOREM AcceptedCanBeServed == Spec => []Servable
<1>1. WellFormed => Servable
  BY AcceptedIsServable DEF Servable
<1> QED
  BY <1>1, WellFormedInit, WellFormedNext, PTL DEF Spec

LEMMA SameSeries ==
  ASSUME NEW md, NEW md2, NEW key \in Tuning,
         \A other \in DOMAIN Values \ {key} :
           /\ other \in DOMAIN md <=> other \in DOMAIN md2
           /\ other \in DOMAIN md => md[other] = md2[other]
  PROVE  newCooldownKey(scalerConfig(md)) = newCooldownKey(scalerConfig(md2))
<1> DEFINE keys == {"metricName", "profile", "metricType", "targetGpuUtilization",
                    "targetMemoryUtilization", "aggregation", "gpuIndex",
                    "vllmEndpoint", "tritonEndpoint"}
<1>1. keys \subseteq DOMAIN Values \ {key}
  BY DEF Values, Tuning
<1>2. \A k \in keys : /\ k \in DOMAIN md <=> k \in DOMAIN md2
                      /\ k \in DOMAIN md => md[k] = md2[k]
  BY <1>1
<1>3. ASSUME NEW k \in keys, NEW default
      PROVE  Get(md, k, default) = Get(md2, k, default)
  BY <1>2 DEF Get
<1>4. base(md) = base(md2)
  <2>1. CASE "profile" \in DOMAIN md
    BY <1>2, <2>1 DEF base, Get
  <2>2. CASE "profile" \notin DOMAIN md
    <3>1. "profile" \notin DOMAIN md2 /\ "" \notin DOMAIN builtinProfiles
      BY <1>2, <2>2, ProfilesNamed
    <3> QED
      BY <2>2, <3>1 DEF base, Get
  <2> QED
    BY <2>1, <2>2
<1>5. metricType(md) = metricType(md2)
  BY <1>2, <1>3, <1>4 DEF metricType
<1>6. /\ Get(md, "metricName", Get(md, "profile", "keda_gpu_metric"))
           = Get(md2, "metricName", Get(md2, "profile", "keda_gpu_metric"))
      /\ Get(md, "aggregation", "max") = Get(md2, "aggregation", "max")
      /\ Get(md, "gpuIndex", -1) = Get(md2, "gpuIndex", -1)
      /\ Get(md, "vllmEndpoint", "") = Get(md2, "vllmEndpoint", "")
      /\ Get(md, "tritonEndpoint", "") = Get(md2, "tritonEndpoint", "")
  <2>1. Get(md, "profile", "keda_gpu_metric") = Get(md2, "profile", "keda_gpu_metric")
    BY <1>3
  <2>2. Get(md, "gpuIndex", -1) = Get(md2, "gpuIndex", -1)
    BY <1>3
  <2>3. Get(md, "metricName", Get(md, "profile", "keda_gpu_metric"))
           = Get(md2, "metricName", Get(md2, "profile", "keda_gpu_metric"))
    BY <1>3, <2>1
  <2>4. Get(md, "aggregation", "max") = Get(md2, "aggregation", "max")
    BY <1>3
  <2>5. Get(md, "vllmEndpoint", "") = Get(md2, "vllmEndpoint", "")
    BY <1>3
  <2>6. Get(md, "tritonEndpoint", "") = Get(md2, "tritonEndpoint", "")
    BY <1>3
  <2> QED
    BY <2>2, <2>3, <2>4, <2>5, <2>6
<1> QED
  BY <1>5, <1>6 DEF scalerConfig, newCooldownKey

(***************************************************************************)
(* Between any two accepted triggers that differ in a tuning key only, the *)
(* cooldown series is the same.                                            *)
(***************************************************************************)
THEOREM TuningKeepsTheSeries == Spec => TuningKeepsSeries
<1>1. IsTrigger =>
        \A key \in Tuning :
          /\ Accepted(metadata) /\ Accepted(metadata')
          /\ \A other \in DOMAIN Values \ {key} :
               /\ other \in DOMAIN metadata <=> other \in DOMAIN metadata'
               /\ other \in DOMAIN metadata => metadata[other] = metadata'[other]
          => newCooldownKey(scalerConfig(metadata'))
               = newCooldownKey(scalerConfig(metadata))
  <2> SUFFICES ASSUME NEW key \in Tuning,
                      \A other \in DOMAIN Values \ {key} :
                        /\ other \in DOMAIN metadata <=> other \in DOMAIN metadata'
                        /\ other \in DOMAIN metadata =>
                             metadata[other] = metadata'[other]
               PROVE  newCooldownKey(scalerConfig(metadata'))
                        = newCooldownKey(scalerConfig(metadata))
    OBVIOUS
  <2> QED
    BY SameSeries
<1> QED
  BY <1>1, PTL DEF Spec, TuningKeepsSeries

(***************************************************************************)
(* Whatever two triggers are: with the same series they measure the same.  *)
(***************************************************************************)
THEOREM SeriesMeasureOneSource == Spec => SeriesHasOneSource
<1>1. ASSUME NEW c, NEW d, newCooldownKey(c) = newCooldownKey(d)
      PROVE  getMetricValue(c) = getMetricValue(d)
  <2>1. /\ c.metricType = d.metricType /\ c.aggregation = d.aggregation
        /\ c.gpuIndex = d.gpuIndex /\ c.vllmEndpoint = d.vllmEndpoint
        /\ c.tritonEndpoint = d.tritonEndpoint
    BY <1>1 DEF newCooldownKey
  <2> QED
    BY <2>1 DEF getMetricValue
<1>2. IsTrigger /\ Accepted(metadata) /\ Accepted(metadata')
      => LET new == scalerConfig(metadata') IN
         newCooldownKey(new) = newCooldownKey(cfg)
           => getMetricValue(new) = getMetricValue(cfg)
  BY <1>1
<1> QED
  BY <1>2, PTL DEF Spec, SeriesHasOneSource

-----------------------------------------------------------------------------
(* Pages *)

LineNames ==
  {"#", "vllm:num_requests_waiting", "vllm:kv_cache_usage_perc",
   "vllm:gpu_cache_usage_perc", "nv_inference_count",
   "nv_inference_queue_duration_us", "nv_gpu_utilization"}

LineType == [name : LineNames, labels : {"none", "closed", "unclosed", "brace"},
             value : Int \cup {Unparsable}]

\* The loop of an engine's parseMetrics after n lines, as a function of n.
Turn(e, page, after, n) ==
  IF n = 0 THEN IF e = "vllm" THEN noVLLM ELSE noTriton
  ELSE IF ~parses(page[n]) THEN after[n - 1]
  ELSE IF e = "vllm" THEN vllmRecord(after[n - 1], parseLine(page[n]))
  ELSE tritonRecord(after[n - 1], parseLine(page[n]))

Loop(e, page, after, m) == after = [n \in 0..m |-> Turn(e, page, after, n)]

LEMMA LoopStep ==
  ASSUME NEW e, NEW page, NEW after, NEW m \in Nat, Loop(e, page, after, m),
         NEW n \in 0..m
  PROVE  after[n] = Turn(e, page, after, n)
<1> DEFINE loop == [k \in 0..m |-> Turn(e, page, after, k)]
<1>1. after = loop
  BY DEF Loop
<1>2. loop[n] = Turn(e, page, after, n)
  OBVIOUS
<1> HIDE DEF loop
<1> QED
  BY <1>1, <1>2

LEMMA LoopExists ==
  ASSUME NEW e, NEW page, NEW m \in Nat
  PROVE  \E after : Loop(e, page, after, m)
<1> DEFINE wrong == {n \in Nat : ~ \E after : Loop(e, page, after, n)}
<1>1. SUFFICES ASSUME wrong # {} PROVE FALSE
  OBVIOUS
<1>2. PICK n \in wrong : \A k \in wrong : n <= k
  BY <1>1, Least
<1>3. n # 0
  <2>1. Loop(e, page, [k \in 0..0 |-> IF e = "vllm" THEN noVLLM ELSE noTriton], 0)
    BY DEF Loop, Turn
  <2> QED
    BY <2>1
<1>4. n \in Nat /\ n - 1 \in Nat /\ n - 1 \notin wrong
  BY <1>2, <1>3
<1>5. PICK after : Loop(e, page, after, n - 1)
  BY <1>4
<1> DEFINE next == [k \in 0..n |-> IF k < n THEN after[k] ELSE Turn(e, page, after, n)]
<1>6. ASSUME NEW k \in 0..n PROVE next[k] = Turn(e, page, next, k)
  <2>1. k # 0 => next[k - 1] = after[k - 1]
    BY <1>4
  <2>2. Turn(e, page, next, k) = Turn(e, page, after, k)
    BY <2>1 DEF Turn
  <2>3. CASE k = n
    BY <2>2, <2>3
  <2>4. CASE k # n
    <3>1. k \in 0..(n - 1) /\ k < n
      BY <2>4, <1>4
    <3>2. after[k] = Turn(e, page, after, k)
      BY <3>1, <1>4, <1>5, LoopStep
    <3> QED
      BY <3>1, <3>2, <2>2
  <2> QED
    BY <2>3, <2>4
<1>7. Loop(e, page, next, n)
  <2>1. next = [k \in 0..n |-> Turn(e, page, next, k)]
    BY <1>6
  <2> QED
    BY <2>1 DEF Loop
<1> QED
  BY <1>7

LEMMA VLLMLoop ==
  ASSUME NEW page \in Seq(LineType)
  PROVE  \E after : /\ Loop("vllm", page, after, Len(page))
                    /\ vllmMetrics(page) = after[Len(page)]
<1>1. \E after : Loop("vllm", page, after, Len(page))
  <2>1. Len(page) \in Nat
    OBVIOUS
  <2> QED
    BY <2>1, LoopExists
<1> DEFINE after == CHOOSE a : Loop("vllm", page, a, Len(page))
<1>2. Loop("vllm", page, after, Len(page))
  BY <1>1
<1>3. vllmMetrics(page) = after[Len(page)]
  BY DEF vllmMetrics, scan, Loop, Turn
<1> QED
  BY <1>2, <1>3

\* Where the first n lines have a usable one with one of these names.
Usable(page, names, n) ==
  {i \in 1..n : /\ page[i].name \in names
                /\ page[i].labels \in {"none", "closed"}
                /\ page[i].value # Unparsable}

\* What field f is after n lines: the last usable line, if there is one.
Latest(page, f, n) ==
  LET at == Usable(page, vllmFields[f], n) IN
  IF at = {} THEN [has |-> FALSE, value |-> 0]
  ELSE [has |-> TRUE, value |-> page[Max(at)].value]

LEMMA OneMoreLine ==
  ASSUME NEW page \in Seq(LineType), NEW names, "mangled" \notin names,
         NEW n \in 1..Len(page)
  PROVE  /\ parses(page[n]) /\ parseLine(page[n]).name \in names =>
              /\ Usable(page, names, n) = Usable(page, names, n - 1) \cup {n}
              /\ parseLine(page[n]).value = page[n].value
         /\ ~(parses(page[n]) /\ parseLine(page[n]).name \in names) =>
              Usable(page, names, n) = Usable(page, names, n - 1)
<1>1. page[n] \in LineType
  OBVIOUS
<1>2. page[n].labels \in {"none", "closed", "unclosed", "brace"}
  BY <1>1 DEF LineType
<1>3. parses(page[n]) /\ parseLine(page[n]).name \in names <=>
        /\ page[n].name \in names /\ page[n].labels \in {"none", "closed"}
        /\ page[n].value # Unparsable
  BY <1>2 DEF parses, parseLine, stripped
<1>4. 1..n = 1..(n - 1) \cup {n}
  OBVIOUS
<1>5. parseLine(page[n]).value = page[n].value
  BY DEF parseLine
<1> QED
  BY <1>3, <1>4, <1>5 DEF Usable

\* The number of the last line is the greatest of all.
LEMMA LastIsMax ==
  ASSUME NEW n \in Nat, NEW S \in SUBSET (1..(n - 1))
  PROVE  Max(S \cup {n}) = n
<1>1. \A y \in S \cup {n} : n >= y
  OBVIOUS
<1>2. Max(S \cup {n}) \in S \cup {n} /\ \A y \in S \cup {n} : Max(S \cup {n}) >= y
  BY <1>1 DEF Max
<1> DEFINE m == Max(S \cup {n})
<1> HIDE DEF m
<1>3. m \in S \cup {n} /\ m >= n
  BY <1>2 DEF m
<1>4. m \in Int /\ m <= n
  BY <1>1, <1>3
<1>5. m = n
  BY <1>3, <1>4
<1> QED
  BY <1>5 DEF m

LEMMA FieldLatest ==
  ASSUME NEW page \in Seq(LineType), NEW after, Loop("vllm", page, after, Len(page)),
         NEW f \in DOMAIN vllmFields, "mangled" \notin vllmFields[f],
         NEW m \in 0..Len(page)
  PROVE  DOMAIN after[m] = DOMAIN vllmFields /\ after[m][f] = Latest(page, f, m)
<1> DEFINE Right(n) == /\ DOMAIN after[n] = DOMAIN vllmFields
                       /\ after[n][f] = Latest(page, f, n)
           wrong == {n \in 0..Len(page) : ~Right(n)}
<1>1. SUFFICES ASSUME wrong # {} PROVE FALSE
  OBVIOUS
<1> HIDE DEF Right
<1>2. wrong \in SUBSET Nat
  OBVIOUS
<1>3. PICK n \in wrong : \A k \in wrong : n <= k
  BY <1>1, <1>2, Least
<1>4. n \in 0..Len(page) /\ ~Right(n) /\ Len(page) \in Nat
  BY <1>3
<1>5. after[n] = Turn("vllm", page, after, n)
  BY <1>4, LoopStep
<1>6. n # 0
  <2>1. ASSUME n = 0 PROVE Right(n)
    <3>1. after[n] = noVLLM
      BY <1>5, <2>1 DEF Turn
    <3>2. Usable(page, vllmFields[f], n) = {}
      BY <2>1 DEF Usable
    <3> QED
      BY <3>1, <3>2 DEF Right, Latest, noVLLM
  <2> QED
    BY <1>4, <2>1
<1>7. n \in 1..Len(page) /\ n - 1 \in 0..Len(page) /\ ~(n <= n - 1)
  BY <1>4, <1>6
<1>8. Right(n - 1)
  BY <1>3, <1>7
<1> DEFINE line == parseLine(page[n])
           names == vllmFields[f]
<1>9. CASE parses(page[n]) /\ line.name \in names
  <2>1. after[n] = vllmRecord(after[n - 1], line)
    BY <1>5, <1>6, <1>9 DEF Turn
  <2>2. /\ DOMAIN after[n] = DOMAIN vllmFields
        /\ after[n][f] = [has |-> TRUE, value |-> line.value]
    BY <2>1, <1>8, <1>9 DEF vllmRecord, Right
  <2>3. /\ Usable(page, names, n) = Usable(page, names, n - 1) \cup {n}
        /\ line.value = page[n].value
    BY <1>7, <1>9, OneMoreLine
  <2>4. Usable(page, names, n - 1) \in SUBSET (1..(n - 1)) /\ n \in Nat
    BY <1>7 DEF Usable
  <2>5. Max(Usable(page, names, n)) = n
    BY <2>3, <2>4, LastIsMax
  <2>6. Latest(page, f, n) = [has |-> TRUE, value |-> page[n].value]
    BY <2>3, <2>5 DEF Latest
  <2>7. Right(n)
    BY <2>2, <2>3, <2>6 DEF Right
  <2> QED
    BY <2>7, <1>4
<1>10. CASE ~(parses(page[n]) /\ line.name \in names)
  <2>1. Usable(page, names, n) = Usable(page, names, n - 1)
    BY <1>7, <1>10, OneMoreLine
  <2>2. Latest(page, f, n) = Latest(page, f, n - 1)
    BY <2>1 DEF Latest
  <2>3. DOMAIN after[n] = DOMAIN vllmFields /\ after[n][f] = after[n - 1][f]
    <3>1. CASE parses(page[n])
      <4>1. after[n] = vllmRecord(after[n - 1], line)
        BY <1>5, <1>6, <3>1 DEF Turn
      <4> QED
        BY <4>1, <1>8, <1>10, <3>1 DEF vllmRecord, Right
    <3>2. CASE ~parses(page[n])
      <4>1. after[n] = after[n - 1]
        BY <1>5, <1>6, <3>2 DEF Turn
      <4> QED
        BY <4>1, <1>8 DEF Right
    <3> QED
      BY <3>1, <3>2
  <2>4. Right(n)
    BY <2>2, <2>3, <1>8 DEF Right
  <2> QED
    BY <2>4, <1>4
<1> QED
  BY <1>9, <1>10

\* The input is a page of lines.
LinesWellFormed == input.kind = "page" => input.page \in Seq(LineType)

LEMMA LinesAreLines == Lines \subseteq LineType
BY DEF Lines, LineType, LineNames, Line, Comment

LEMMA LinesWellFormedInit == Init => LinesWellFormed
<1>1. ASSUME NEW status, input = Page(status, <<>>, FALSE) PROVE LinesWellFormed
  <2>1. input.page = <<>>
    BY <1>1 DEF Page
  <2> QED
    BY <2>1 DEF LinesWellFormed
<1>2. input = Node(<<>>) => LinesWellFormed
  BY DEF LinesWellFormed, Node
<1>3. input = Trigger([key \in {} |-> Bad]) => LinesWellFormed
  BY DEF LinesWellFormed, Trigger
<1> QED
  BY <1>1, <1>2, <1>3 DEF Init

LEMMA LinesWellFormedNext ==
  LinesWellFormed /\ [Next]_input => LinesWellFormed'
<1> SUFFICES ASSUME LinesWellFormed, [Next]_input PROVE LinesWellFormed'
  OBVIOUS
<1>1. ASSUME NEW v \in Loads, AddGPU(v) PROVE LinesWellFormed'
  BY <1>1 DEF AddGPU, Node, LinesWellFormed
<1>2. ASSUME NEW line \in Lines, AddLine(line) PROVE LinesWellFormed'
  <2>1. input.page \in Seq(LineType) /\ line \in LineType
    BY <1>2, LinesAreLines DEF AddLine, LinesWellFormed
  <2>2. Append(input.page, line) \in Seq(LineType)
    BY <2>1
  <2>3. input' = [input EXCEPT !.page = Append(input.page, line)]
    BY <1>2 DEF AddLine
  <2>4. input'.page = Append(input.page, line) \/ input'.page = input.page
    BY <2>3
  <2> QED
    BY <2>1, <2>2, <2>4 DEF LinesWellFormed
<1>3. CASE Cut
  BY <1>3 DEF Cut, LinesWellFormed
<1>4. ASSUME NEW key \in DOMAIN Values, NEW v \in Values[key], SetKey(key, v)
      PROVE  LinesWellFormed'
  BY <1>4 DEF SetKey, Trigger, LinesWellFormed
<1>5. ASSUME NEW key \in DOMAIN Values, RemoveKey(key) PROVE LinesWellFormed'
  BY <1>5 DEF RemoveKey, Trigger, LinesWellFormed
<1>6. CASE UNCHANGED input
  BY <1>6 DEF LinesWellFormed
<1> QED
  BY <1>1, <1>2, <1>3, <1>4, <1>5, <1>6 DEF Next

\* A field after the whole page: what its last usable line says.
LEMMA FieldOfPage ==
  ASSUME NEW page \in Seq(LineType), NEW f \in DOMAIN vllmFields,
         "mangled" \notin vllmFields[f]
  PROVE  vllmMetrics(page)[f] = Latest(page, f, Len(page))
<1>1. PICK after : /\ Loop("vllm", page, after, Len(page))
                   /\ vllmMetrics(page) = after[Len(page)]
  BY VLLMLoop
<1>2. after[Len(page)][f] = Latest(page, f, Len(page))
  BY <1>1, FieldLatest
<1> QED
  BY <1>1, <1>2

LEMMA PageAnswer ==
  ASSUME LinesWellFormed, IsPage
  PROVE  AbsentIsError
<1> DEFINE page == input.page
           depth == {"vllm:num_requests_waiting"}
           usage == {"vllm:kv_cache_usage_perc", "vllm:gpu_cache_usage_perc"}
<1>1. page \in Seq(LineType)
  BY DEF LinesWellFormed, IsPage
<1>2. \A names : LinesOf(names) = Usable(page, names, Len(page))
  BY <1>1 DEF LinesOf, Usable
<1>3. /\ {"QueueDepth", "KVCacheUsage"} \subseteq DOMAIN vllmFields
      /\ vllmFields["QueueDepth"] = depth /\ vllmFields["KVCacheUsage"] = usage
      /\ "mangled" \notin depth /\ "mangled" \notin usage
  BY DEF vllmFields
<1>4. /\ vllmMetrics(page).QueueDepth = Latest(page, "QueueDepth", Len(page))
      /\ vllmMetrics(page).KVCacheUsage = Latest(page, "KVCacheUsage", Len(page))
  BY <1>1, <1>3, FieldOfPage
<1> DEFINE Answer(names) == IF LinesOf(names) = {} THEN [has |-> FALSE, value |-> 0]
                            ELSE [has |-> TRUE, value |-> LastOf(names)]
<1>5. /\ vllmMetrics(page).QueueDepth = Answer(depth)
      /\ vllmMetrics(page).KVCacheUsage = Answer(usage)
  BY <1>2, <1>3, <1>4 DEF Latest, LastOf
<1>6. Delivered(input) <=> ~(input.status # 200 \/ input.cut)
  BY DEF Delivered
<1>7. getVLLMMetricValue("vllm_queue_depth", input) =
        IF input.status # 200 \/ input.cut \/ LinesOf(depth) = {}
          THEN Error ELSE LastOf(depth)
  BY <1>5, <1>6 DEF getVLLMMetricValue
<1>8. getVLLMMetricValue("vllm_kv_cache_usage", input) =
        IF input.status # 200 \/ input.cut \/ LinesOf(usage) = {}
          THEN Error ELSE LastOf(usage) * 100
  BY <1>5, <1>6 DEF getVLLMMetricValue
<1>9. LinesOf(depth) # {} => LastOf(depth) \in Int
  <2> SUFFICES ASSUME LinesOf(depth) # {} PROVE LastOf(depth) \in Int
    OBVIOUS
  <2>1. Max(LinesOf(depth)) \in LinesOf(depth)
    <3>1. LinesOf(depth) \subseteq 1..Len(page) /\ Len(page) \in Nat
      BY <1>1, <1>2 DEF Usable
    <3>2. /\ LinesOf(depth) \in SUBSET Nat
          /\ \A n \in LinesOf(depth) : n <= Len(page)
      BY <3>1
    <3> QED
      BY <3>1, <3>2, MaxOf
  <2>2. /\ Max(LinesOf(depth)) \in 1..Len(page)
        /\ page[Max(LinesOf(depth))].value # Unparsable
    BY <1>1, <2>1 DEF LinesOf
  <2>3. page[Max(LinesOf(depth))] \in LineType
    BY <1>1, <2>2
  <2> QED
    BY <2>2, <2>3 DEF LastOf, LineType
<1>10. LinesOf(depth) # {} => LastOf(depth) * 1 = LastOf(depth)
  BY <1>9
<1> QED
  BY <1>7, <1>8, <1>10 DEF AbsentIsError

(***************************************************************************)
(* On a page of any length, of these lines: a metric that is absent,       *)
(* malformed or on a page that broke off is an error, never zero, and a    *)
(* metric that is there is the number on its last usable line.             *)
(***************************************************************************)
THEOREM AbsentIsAnError == Spec => []AbsentIsError
<1>1. LinesWellFormed => AbsentIsError
  BY PageAnswer DEF AbsentIsError
<1> QED
  BY <1>1, LinesWellFormedInit, LinesWellFormedNext, PTL DEF Spec

-----------------------------------------------------------------------------
(* Triton's totals *)

LEMMA TritonLoop ==
  ASSUME NEW page \in Seq(LineType)
  PROVE  \E after : /\ Loop("triton", page, after, Len(page))
                    /\ tritonMetrics(page) = after[Len(page)]
<1>1. \E after : Loop("triton", page, after, Len(page))
  <2>1. Len(page) \in Nat
    OBVIOUS
  <2> QED
    BY <2>1, LoopExists
<1> DEFINE after == CHOOSE a : Loop("triton", page, a, Len(page))
<1>2. Loop("triton", page, after, Len(page))
  BY <1>1
<1>3. tritonMetrics(page) = after[Len(page)]
  BY DEF tritonMetrics, scan, Loop, Turn
<1> QED
  BY <1>2, <1>3

\* What line i adds to the counter with this name.
Adds(page, name, i) ==
  IF i \in Usable(page, {name}, Len(page)) THEN page[i].value ELSE 0

LEMMA AddsInt ==
  ASSUME NEW page \in Seq(LineType), NEW name, NEW i \in 1..Len(page)
  PROVE  Adds(page, name, i) \in Int
<1>1. page[i] \in LineType
  OBVIOUS
<1> QED
  BY <1>1 DEF Adds, Usable, LineType

\* A counter after n lines is the n-th of the running totals.
LEMMA CounterRuns ==
  ASSUME NEW page \in Seq(LineType), NEW after, Loop("triton", page, after, Len(page)),
         NEW f \in DOMAIN tritonFields \ {"GPUUtilization"}, NEW counts \in Seq(Int),
         Len(counts) = Len(page),
         \A i \in 1..Len(page) : counts[i] = Adds(page, tritonFields[f], i),
         NEW sum, Running(counts, sum, Len(page))
  PROVE  after[Len(page)][f] = sum[Len(page)]
<1> DEFINE m == Len(page)
           Right(n) == DOMAIN after[n] = DOMAIN tritonFields /\ after[n][f] = sum[n]
           good == {n \in 0..m : Right(n)}
<1>1. m \in Nat /\ m \in 0..m
  OBVIOUS
<1>2. ASSUME NEW n \in 0..m PROVE after[n] = Turn("triton", page, after, n)
  BY <1>1, LoopStep
<1>3. 0 \in good
  <2>1. after[0] = noTriton
    BY <1>1, <1>2 DEF Turn
  <2> QED
    BY <1>1, <2>1 DEF noTriton, Running
<1>4. ASSUME NEW n \in 0..m, n < m, n \in good PROVE n + 1 \in good
  <2> DEFINE k == n + 1
             line == parseLine(page[k])
             name == tritonFields[f]
  <2>1. k \in 0..m /\ k \in 1..m /\ k # 0 /\ k - 1 = n
    BY <1>1, <1>4
  <2> HIDE DEF k
  <2>2. sum[k] = sum[n] + counts[k] /\ counts[k] = Adds(page, name, k)
    BY <2>1 DEF Running
  <2>3. after[k] = IF ~parses(page[k]) THEN after[n] ELSE tritonRecord(after[n], line)
    BY <1>2, <2>1 DEF Turn
  <2>4. Right(n)
    BY <1>4
  <2>5. sum[n] \in Int
    BY <1>4 DEF Running
  <2>6. name # "mangled" /\ f # "GPUUtilization"
    BY DEF tritonFields
  <2>7. k \in Usable(page, {name}, Len(page)) <=> parses(page[k]) /\ line.name = name
    <3>1. page[k] \in LineType
      BY <2>1
    <3>2. page[k].labels \in {"none", "closed", "unclosed", "brace"}
      BY <3>1 DEF LineType
    <3> QED
      BY <2>1, <2>6, <3>2 DEF Usable, parses, parseLine, stripped
  <2>8. CASE parses(page[k]) /\ line.name = name
    <3>1. after[k] = tritonRecord(after[n], line)
      BY <2>3, <2>8
    <3>2. after[k][f] = after[n][f] + line.value
      BY <2>4, <2>6, <2>8, <3>1 DEF tritonRecord
    <3>3. line.value = page[k].value
      BY DEF parseLine
    <3>4. counts[k] = page[k].value
      BY <2>2, <2>7, <2>8 DEF Adds
    <3>5. DOMAIN after[k] = DOMAIN tritonFields
      BY <2>4, <3>1 DEF tritonRecord
    <3>6. Right(k)
      BY <2>2, <2>4, <3>2, <3>3, <3>4, <3>5
    <3> QED
      BY <2>1, <3>6 DEF k
  <2>9. CASE ~(parses(page[k]) /\ line.name = name)
    <3>1. counts[k] = 0
      BY <2>2, <2>7, <2>9 DEF Adds
    <3>2. sum[k] = sum[n]
      BY <2>2, <2>5, <3>1
    <3>3. DOMAIN after[k] = DOMAIN tritonFields /\ after[k][f] = after[n][f]
      <4>1. CASE ~parses(page[k])
        BY <2>3, <2>4, <4>1
      <4>2. CASE parses(page[k])
        BY <2>3, <2>4, <2>9, <4>2 DEF tritonRecord
      <4> QED
        BY <4>1, <4>2
    <3>4. Right(k)
      BY <2>4, <3>2, <3>3
    <3> QED
      BY <2>1, <3>4 DEF k
  <2> QED
    BY <2>8, <2>9
<1>5. m \in good
  <2> HIDE DEF good
  <2> QED
    BY <1>1, <1>3, <1>4, UpTo
<1> QED
  BY <1>5

LEMMA CounterTotal ==
  ASSUME NEW page \in Seq(LineType),
         NEW f \in DOMAIN tritonFields \ {"GPUUtilization"}, NEW counts \in Seq(Int),
         Len(counts) = Len(page),
         \A i \in 1..Len(page) : counts[i] = Adds(page, tritonFields[f], i)
  PROVE  tritonMetrics(page)[f] = total(counts)
<1>1. PICK after : /\ Loop("triton", page, after, Len(page))
                   /\ tritonMetrics(page) = after[Len(page)]
  BY TritonLoop
<1>2. PICK sum : /\ Running(counts, sum, Len(counts))
                 /\ total(counts) = sum[Len(counts)]
  BY TotalIs
<1>3. after[Len(page)][f] = sum[Len(page)]
  BY <1>1, <1>2, CounterRuns
<1> QED
  BY <1>1, <1>2, <1>3

LEMMA PageTotals ==
  ASSUME LinesWellFormed, IsPage
  PROVE  TotalsAddUp
<1> DEFINE page == input.page
<1>1. page \in Seq(LineType)
  BY DEF LinesWellFormed, IsPage
<1>2. Delivered(input) <=> ~(input.status # 200 \/ input.cut)
  BY DEF Delivered
<1>3. ASSUME NEW f \in DOMAIN tritonFields \ {"GPUUtilization"}
      PROVE  tritonMetrics(page)[f] = total(CountsOf(tritonFields[f]))
  <2> DEFINE name == tritonFields[f]
             counts == CountsOf(name)
  <2>1. DOMAIN page = 1..Len(page) /\ Len(page) \in Nat
    BY <1>1
  <2>2. LinesOf({name}) = Usable(page, {name}, Len(page))
    BY <2>1 DEF LinesOf, Usable
  <2>3. counts = [i \in 1..Len(page) |-> Adds(page, name, i)]
    BY <2>1, <2>2 DEF CountsOf, Adds
  <2>4. \A i \in 1..Len(page) : Adds(page, name, i) \in Int
    BY <1>1, AddsInt
  <2> HIDE DEF counts, name, page
  <2>5. /\ counts \in Seq(Int) /\ Len(counts) = Len(page)
        /\ \A i \in 1..Len(page) : counts[i] = Adds(page, name, i)
    BY <2>1, <2>3, <2>4
  <2>6. tritonMetrics(page)[f] = total(counts)
    BY <1>1, <2>5, CounterTotal DEF name
  <2> QED
    BY <2>6 DEF counts, name
<1> QED
  BY <1>2, <1>3 DEF TotalsAddUp, tritonScrape

(***************************************************************************)
(* On a page of any length: each of Triton's counters is the total over    *)
(* the usable lines with its name, whatever is between them, and a page    *)
(* that broke off gives none.                                              *)
(***************************************************************************)
THEOREM CountersAddUp == Spec => []TotalsAddUp
<1>1. LinesWellFormed => TotalsAddUp
  BY PageTotals DEF TotalsAddUp
<1> QED
  BY <1>1, LinesWellFormedInit, LinesWellFormedNext, PTL DEF Spec

-----------------------------------------------------------------------------
(* Nodes *)

\* The input is a node with readings.
NodeWellFormed == input.kind = "node" => input.values \in Seq(Nat)

LEMMA NodeWellFormedInit == Init => NodeWellFormed
<1>1. input = Node(<<>>) => NodeWellFormed
  <2>1. Node(<<>>).values \in Seq(Nat)
    BY DEF Node
  <2> QED
    BY <2>1 DEF NodeWellFormed
<1>2. ASSUME NEW status, input = Page(status, <<>>, FALSE) PROVE NodeWellFormed
  BY <1>2 DEF Page, NodeWellFormed
<1>3. input = Trigger([key \in {} |-> Bad]) => NodeWellFormed
  BY DEF Trigger, NodeWellFormed
<1> QED
  BY <1>1, <1>2, <1>3 DEF Init

LEMMA NodeWellFormedNext == NodeWellFormed /\ [Next]_input => NodeWellFormed'
<1> SUFFICES ASSUME NodeWellFormed, [Next]_input PROVE NodeWellFormed'
  OBVIOUS
<1>1. ASSUME NEW v \in Loads, AddGPU(v) PROVE NodeWellFormed'
  <2>1. v \in Nat /\ input.values \in Seq(Nat)
    BY <1>1, MCFunctionsAssumption DEF AddGPU, NodeWellFormed
  <2>2. input' = Node(Append(input.values, v))
    BY <1>1 DEF AddGPU
  <2> QED
    BY <2>1, <2>2 DEF Node, NodeWellFormed
<1>2. ASSUME NEW line \in Lines, AddLine(line) PROVE NodeWellFormed'
  BY <1>2 DEF AddLine, NodeWellFormed
<1>3. CASE Cut
  BY <1>3 DEF Cut, NodeWellFormed
<1>4. ASSUME NEW key \in DOMAIN Values, NEW v \in Values[key], SetKey(key, v)
      PROVE  NodeWellFormed'
  BY <1>4 DEF SetKey, Trigger, NodeWellFormed
<1>5. ASSUME NEW key \in DOMAIN Values, RemoveKey(key) PROVE NodeWellFormed'
  BY <1>5 DEF RemoveKey, Trigger, NodeWellFormed
<1>6. CASE UNCHANGED input
  BY <1>6 DEF NodeWellFormed
<1> QED
  BY <1>1, <1>2, <1>3, <1>4, <1>5, <1>6 DEF Next

(***************************************************************************)
(* For any number of GPUs: the percentiles are those of the nearest-rank   *)
(* method that percentile's comment names.                                 *)
(***************************************************************************)
THEOREM PercentilesAreNearestRank == Spec => []NearestRank
<1>1. NodeWellFormed => NearestRank
  BY PercentileIsNearestRank DEF NodeWellFormed, NearestRank, IsNode, values
<1> QED
  BY <1>1, NodeWellFormedInit, NodeWellFormedNext, PTL DEF Spec

(***************************************************************************)
(* For any number of GPUs: one GPU that becomes busier lowers no aggregate.*)
(***************************************************************************)
THEOREM BusierIsNeverLower == Spec => []Monotone
<1>1. ASSUME NodeWellFormed, IsNode, NEW i \in DOMAIN values, NEW v \in Loads,
             NEW m \in Methods, v >= values[i]
      PROVE  AtMost(aggregate(values, m), aggregate([values EXCEPT ![i] = v], m))
  <2>1. values \in Seq(Nat) /\ values # <<>> /\ v \in Nat
    BY <1>1, MCFunctionsAssumption DEF NodeWellFormed, IsNode, values
  <2> DEFINE higher == [values EXCEPT ![i] = v]
  <2>2. higher \in Seq(Nat) /\ Len(higher) = Len(values)
    BY <2>1
  <2>3. \A k \in DOMAIN values : values[k] <= higher[k]
    BY <1>1, <2>1
  <2>4. Busier(values, higher)
    BY <2>2, <2>3 DEF Busier
  <2> HIDE DEF higher
  <2>5. AtMost(aggregate(values, m), aggregate(higher, m))
    BY <2>1, <2>2, <2>4, AggregateMonotone
  <2> QED
    BY <2>5 DEF higher
<1>2. NodeWellFormed => Monotone
  BY <1>1 DEF Monotone
<1> QED
  BY <1>2, NodeWellFormedInit, NodeWellFormedNext, PTL DEF Spec
=============================================================================
