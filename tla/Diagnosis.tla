-------------------------------- MODULE Diagnosis --------------------------------
(***************************************************************************)
(* The diagnostic engine of the client (ui/app/src/diagnostic): the six    *)
(* probes of a deep analysis run one after the other, what each returned   *)
(* becomes observations, and rules turn the observations into diagnoses,   *)
(* their evidence and the recommendations.                                 *)
(***************************************************************************)
EXTENDS Integers, Sequences, FiniteSets

CONSTANTS
    Tiers,         \* the location tiers analysed; the application passes "default"
    Sources        \* where a probe says its figures come from

ASSUME DiagnosisConstants ==
    /\ Tiers \subseteq {"local", "metro", "continental", "intercontinental", "default"}
    /\ Sources \subseteq {"live", "simulated", "derived"}

VARIABLES
    pipeline,      \* the tier, whether a URL was given, the sources, the step that is next
    observations,  \* what the steps so far have observed
    verdict        \* the diagnoses and recommendations of the finished analysis

diagnosisVars == <<pipeline, observations, verdict>>

PipelineSteps == <<"gateway", "dns", "ping", "traceroute", "bufferbloat", "http">>

\* BASELINES_BY_TIER: the highest normal and the highest elevated value.  A loss is in
\* tenths of a percent.
Baseline(metric, tier) ==
    LET by == [local            |-> <<10, 30, 0, 20, 25, 75, 20, 60, 100, 300>>,
               metro            |-> <<35, 80, 0, 30, 45, 120, 30, 80, 200, 600>>,
               continental      |-> <<70, 140, 0, 40, 60, 160, 40, 100, 300, 900>>,
               intercontinental |-> <<180, 280, 5, 50, 100, 250, 60, 150, 500, 1400>>,
               default          |-> <<40, 100, 0, 30, 50, 150, 30, 100, 250, 800>>][tier]
        at == [ping_rtt |-> 1, loss |-> 3, dns_rtt |-> 5, bufferbloat |-> 7, ttfb |-> 9][metric]
    IN [normalMax |-> by[at], elevatedMax |-> by[at + 1]]

\* Mutant: the source of a value makes no difference.
SevereAnyhow(value, metric, source) ==
    LET b == Baseline(metric, pipeline.tier)
    IN IF value > b.elevatedMax THEN "severe"
       ELSE IF value > b.normalMax THEN "elevated" ELSE "normal"

\* classifySeverity: a simulated extreme is never more than elevated.
Severity(value, metric, source) ==
    LET b == Baseline(metric, pipeline.tier)
    IN IF value > b.elevatedMax THEN (IF source = "simulated" THEN "elevated" ELSE "severe")
       ELSE IF value > b.normalMax THEN "elevated" ELSE "normal"

Null == -1
Observed(key, source, severity, value) ==
    [key |-> key, source |-> source, severity |-> severity, value |-> value]
Measured(key, source, value, metric) == Observed(key, source, Severity(value, metric, source), value)

\* Values at the limits of a metric: one that is normal, one elevated, one beyond.
Around(metric) ==
    LET b == Baseline(metric, pipeline.tier)
    IN {b.normalMax, b.elevatedMax, b.elevatedMax + 1}

Failed(key, severity) == {Observed(key, "unavailable", severity, Null)}

\* What a step may leave behind: an answer, an answer of another kind (nothing), or a
\* probe that could not run.
FromGateway ==
    LET s == pipeline.source
    IN {{}, Failed("gateway_reachability", "elevated"),
        {Observed("gateway_reachability", s, "normal", 1)},
        {Observed("gateway_reachability", s, "elevated", Null)}}

FromDns ==
    LET s == pipeline.source
    IN {{}, Failed("dns_resolution", "severe"), {Observed("dns_resolution", s, "severe", Null)}}
       \cup {{Measured("dns_rtt", s, v, "dns_rtt")} : v \in Around("dns_rtt")}

FromPing ==
    LET s == pipeline.source
    IN {{}, Failed("target_packet_loss", "elevated")}
       \cup {{Measured("target_packet_loss", s, v, "loss"), Measured("target_ping_rtt", s, 40, "ping_rtt")} :
                v \in {0, 1, 100}}

\* A failed trace leaves nothing; silent hops on the way are normal.
FromTraceroute ==
    LET Trace(n) == Observed("traceroute_hops", pipeline.source, IF n > 25 THEN "elevated" ELSE "normal", n)
        silent == Observed("traceroute_intermediate_timeouts", pipeline.source, "normal", 3)
    IN {{}, {Trace(25)}, {Trace(26)}, {Trace(25), silent}}

FromBufferbloat ==
    {{}} \cup {{Measured("bufferbloat_delta", pipeline.laterSource, v, "bufferbloat")} : v \in Around("bufferbloat")}

FromHttp ==
    LET s == pipeline.laterSource
        Down(source, otherwise) ==
            Observed("http_availability", source, IF pipeline.explicitUrl THEN "severe" ELSE otherwise, Null)
        Answer(code, ttfb) ==
            {Observed("http_status", s,
                 IF code >= 500 THEN "severe" ELSE IF code >= 400 THEN "elevated" ELSE "normal", code),
             Measured("http_ttfb", s, ttfb, "ttfb")}
    IN {{}, {Down("unavailable", "normal")}, {Down(s, "elevated")}, Answer(200, 0),
        Answer(200, Baseline("ttfb", pipeline.tier).elevatedMax + 1), Answer(404, 0), Answer(500, 0)}

StepOutcomes(step) ==
    CASE step = "gateway" -> FromGateway
      [] step = "dns" -> FromDns
      [] step = "ping" -> FromPing
      [] step = "traceroute" -> FromTraceroute
      [] step = "bufferbloat" -> FromBufferbloat
      [] OTHER -> FromHttp

-----------------------------------------------------------------------------
Has(key) == \E o \in observations : o.key = key
Obs(key) == CHOOSE o \in observations : o.key = key
Number(key) == Has(key) /\ Obs(key).value # Null
Above(key, n) == Number(key) /\ Obs(key).value > n
Notable(key) == Number(key) /\ Obs(key).severity # "normal"

\* extractEvidenceForCategory: which observations speak for a diagnosis, and which against.
Evidence(category) ==
    LET For(key) == [key |-> key, role |-> "corroborating"]
        Against(key) == [key |-> key, role |-> "contradicting"]
        FromValue(key) == IF Notable(key) THEN {For(key)} ELSE IF Number(key) THEN {Against(key)} ELSE {}
    IN CASE category = "PACKET_LOSS" ->
                (IF Above("target_packet_loss", 0) THEN {For("target_packet_loss")}
                 ELSE IF Number("target_packet_loss") THEN {Against("target_packet_loss")} ELSE {})
                \cup (IF Above("traceroute_intermediate_timeouts", 0)
                      THEN {Against("traceroute_intermediate_timeouts")} ELSE {})
         [] category = "DNS" ->
                IF Has("dns_resolution") /\ Obs("dns_resolution").severity = "severe"
                THEN {For("dns_resolution")} ELSE FromValue("dns_rtt")
         [] category = "BUFFERBLOAT" -> FromValue("bufferbloat_delta")
         [] category = "GATEWAY" ->
                IF ~Has("gateway_reachability") THEN {}
                ELSE IF Number("gateway_reachability") THEN {Against("gateway_reachability")}
                     ELSE {For("gateway_reachability")}
         [] category = "REMOTE_SERVICE_RESPONSE" ->
                (IF Above("http_status", 399) THEN {For("http_status")} ELSE {})
                \cup (IF Notable("http_ttfb") THEN {For("http_ttfb")} ELSE {})
         [] OTHER -> IF Above("traceroute_hops", 25) THEN {For("traceroute_hops")} ELSE {}

SimulatedOnly == observations # {} /\ \A o \in observations : o.source = "simulated"
Worst == IF SimulatedOnly THEN "elevated" ELSE "severe"
Diagnosed(category, confidence, severity) ==
    {[category |-> category, confidence |-> confidence, severity |-> severity, evidence |-> Evidence(category)]}
FromMetric(category, key, severe, elevated) ==
    IF Notable(key)
    THEN Diagnosed(category, IF Obs(key).severity = "severe" THEN severe ELSE elevated, Obs(key).severity)
    ELSE {}

\* inferDiagnoses: its six rules.  Confidences are in percent.
DnsRule ==
    IF Has("dns_resolution") /\ Obs("dns_resolution").severity = "severe" THEN Diagnosed("DNS", 95, Worst)
    ELSE FromMetric("DNS", "dns_rtt", 85, 65)
GatewayRule ==
    IF Has("gateway_reachability") /\ ~Number("gateway_reachability") THEN Diagnosed("GATEWAY", 90, Worst) ELSE {}
BufferbloatRule == FromMetric("BUFFERBLOAT", "bufferbloat_delta", 90, 70)
LossRule ==
    IF Above("target_packet_loss", 0)
    THEN Diagnosed("PACKET_LOSS", IF Above("target_packet_loss", 99) THEN 92 ELSE 75,
                   Obs("target_packet_loss").severity)
    ELSE {}
HttpRule ==
    IF Has("http_availability") /\ Obs("http_availability").severity = "severe"
    THEN Diagnosed("REMOTE_SERVICE_RESPONSE", 88, Worst)
    ELSE IF Above("http_status", 399)
    THEN Diagnosed("REMOTE_SERVICE_RESPONSE", IF Above("http_status", 499) THEN 95 ELSE 85,
                   IF Above("http_status", 499) THEN Worst ELSE "elevated")
    ELSE FromMetric("REMOTE_SERVICE_RESPONSE", "http_ttfb", 65, 65)
RoutingRule == IF Above("traceroute_hops", 25) THEN Diagnosed("ROUTING", 60, "elevated") ELSE {}

ByName == <<"BUFFERBLOAT", "DNS", "GATEWAY", "PACKET_LOSS", "REMOTE_SERVICE_RESPONSE", "ROUTING">>
Before(a, b) ==
    \/ a.confidence > b.confidence
    \/ /\ a.confidence = b.confidence
       /\ \E i, j \in DOMAIN ByName : i < j /\ ByName[i] = a.category /\ ByName[j] = b.category

Inferred == DnsRule \cup GatewayRule \cup BufferbloatRule \cup LossRule \cup HttpRule \cup RoutingRule

\* The sort at the end: each diagnosis stands behind those that come before it.
InOrder(found) ==
    [k \in 1 .. Cardinality(found) |-> CHOOSE d \in found : Cardinality({e \in found : Before(e, d)}) = k - 1]
Diagnoses == InOrder(Inferred)

\* generateRecommendations: one per diagnosis, in their order, or the nominal one.
Recommendations(diagnoses) ==
    LET of == [DNS |-> "dns", GATEWAY |-> "gateway", BUFFERBLOAT |-> "bufferbloat",
               PACKET_LOSS |-> "loss", REMOTE_SERVICE_RESPONSE |-> "http", ROUTING |-> "routing"]
    IN IF diagnoses = <<>> THEN <<"nominal">>
       ELSE [i \in DOMAIN diagnoses |-> of[diagnoses[i].category]]

-----------------------------------------------------------------------------
\* A target as it is typed, and what is left of it: the controller strips a scheme before
\* the pipeline looks for one.
EnteredTargets == {[scheme |-> s] : s \in BOOLEAN}
ValidateAndNormalize(typed) == [typed EXCEPT !.scheme = FALSE]
NormalizeTarget(target) == [explicitUrl |-> target.scheme]

NoVerdict == [given |-> FALSE, diagnoses |-> << >>, recommendations |-> << >>]

DiagnosisInit ==
    /\ pipeline \in {[tier |-> t, explicitUrl |-> NormalizeTarget(ValidateAndNormalize(typed)).explicitUrl,
                      source |-> s, laterSource |-> l, next |-> 1] :
                        t \in Tiers, typed \in EnteredTargets, s \in Sources, l \in Sources}
    /\ observations = {}
    /\ verdict = NoVerdict

AllStepsRun == pipeline.next > Len(PipelineSteps)

RunStep ==
    /\ ~AllStepsRun
    /\ \E seen \in StepOutcomes(PipelineSteps[pipeline.next]) : observations' = observations \cup seen
    /\ pipeline' = [pipeline EXCEPT !.next = @ + 1]
    /\ UNCHANGED verdict

\* After the last step the rules are applied to all that was observed.
Conclude ==
    /\ AllStepsRun /\ ~verdict.given
    /\ LET found == Diagnoses
       IN verdict' = [given |-> TRUE, diagnoses |-> found, recommendations |-> Recommendations(found)]
    /\ UNCHANGED <<pipeline, observations>>

DiagnosisNext == RunStep \/ Conclude

-----------------------------------------------------------------------------
\* One observation of a kind at most, so that the lookups by key lose none.
DiagnosisTypeOK ==
    /\ pipeline.tier \in Tiers /\ pipeline.next \in 1 .. Len(PipelineSteps) + 1
    /\ \A o, p \in observations : o.key = p.key => o = p
    /\ \A o \in observations : o.severity \in {"normal", "elevated", "severe"}

\* Whatever probes failed: every diagnosis the screen can show has an observation that
\* speaks for it.  (An unavailable service reached by a URL would have none; no target of
\* the screen keeps its scheme.)
DiagnosesAreEvidenced ==
    \A i \in DOMAIN verdict.diagnoses : \E e \in verdict.diagnoses[i].evidence : e.role = "corroborating"

\* From simulated figures alone nothing severe is concluded, extremes and failures alike
\* (anomaly.ts:51, "Mandatory Invariant").
SimulatedIsNeverSevere ==
    SimulatedOnly => \A i \in DOMAIN verdict.diagnoses : verdict.diagnoses[i].severity # "severe"

\* Routers that stay silent are no packet loss: with none lost end to end, no loss is
\* diagnosed (inference.ts:86, "Invariant 1").
SilentHopsAreNoLoss ==
    Number("target_packet_loss") /\ Obs("target_packet_loss").value = 0 =>
        \A i \in DOMAIN verdict.diagnoses : verdict.diagnoses[i].category # "PACKET_LOSS"

\* What is recommended first answers the most confident diagnosis, every diagnosis is
\* answered, and "nominal" is said only when a finished analysis found nothing.
RecommendationsFollow ==
    verdict.given =>
    /\ Len(verdict.recommendations) = IF verdict.diagnoses = << >> THEN 1 ELSE Len(verdict.diagnoses)
    /\ \A i, j \in DOMAIN verdict.diagnoses : i < j => verdict.diagnoses[i].confidence >= verdict.diagnoses[j].confidence
    /\ (\E i \in DOMAIN verdict.recommendations : verdict.recommendations[i] = "nominal") <=> verdict.diagnoses = << >>
    /\ \A i, j \in DOMAIN verdict.recommendations : i # j => verdict.recommendations[i] # verdict.recommendations[j]
=============================================================================
