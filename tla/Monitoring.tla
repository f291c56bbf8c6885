--------------------------------- MODULE Monitoring ---------------------------------
(***************************************************************************)
(* The monitoring screen (hooks/useMonitoringController.ts, screens/       *)
(* Monitoring.tsx and its cards).  It derives everything it shows from the *)
(* latest monitor snapshot of the store, keeps a rolling history of every  *)
(* process across snapshots, and asks the engine two things of its own: a  *)
(* probe of one hop of the diagnostic chain, and a snapshot when the       *)
(* connection has failed.  Answers may come after the screen has gone.     *)
(***************************************************************************)
EXTENDS Sequences, Integers, FiniteSets

CONSTANTS
    Snapshots,    \* the snapshots the engine may answer: [telemetry, rates, edges, target, status]
    Hops,         \* the stages of the chain, in order
    Probeable,    \* those a probe can be sent to
    TypedTargets, \* what a reader may type as a target
    GoodTargets,  \* those that read as an address or a host name
    Processes,    \* the ids of the processes
    MaxHistory,   \* how many points a history keeps (15 in the code)
    PageSize,     \* how many processes a page lists (4 in the code)
    MaxMounts     \* BOUND: how often the screen is opened

NoText == ""           \* an empty field, a chain without a target

ASSUME MonitoringConstants ==
    /\ MaxHistory \in Nat \ {0} /\ PageSize \in Nat \ {0} /\ MaxMounts \in Nat
    /\ GoodTargets \subseteq TypedTargets /\ NoText \in TypedTargets \ GoodTargets
    /\ Len(Hops) \in Nat \ {0} /\ DOMAIN Hops = 1..Len(Hops) /\ \A i \in DOMAIN Hops : Hops[i] # "none"
    /\ \A s \in Snapshots : /\ DOMAIN s.rates \subseteq Processes /\ IsFiniteSet(DOMAIN s.rates)
                            /\ DOMAIN s.edges \subseteq Nat

VARIABLES
    monitored,    \* the store: the snapshots shown so far end in this one; its error
    monitoring,   \* the mounted screen
    probes,       \* the probes under way: the mount that asked, the stage, the target
    retries       \* the snapshots asked for by hand that are under way: the mount that asked

monitoringVars == <<monitored, monitoring, probes, retries>>

HopKinds == {Hops[i] : i \in DOMAIN Hops}
Sublabels == {"LOCAL", "SRC", "EXTERNAL_WAN", "LOCAL_SUBNET", "CDN_EDGE", "MULTICAST"}
LineageFilters == {"AllEndpoints", "ExternalWAN", "LocalSubnet", "CDNEdge", "Multicast"}
NoSnapshot == {}       \* no snapshot yet; a snapshot is held as the set of it alone
HasSnapshot == monitored.latest # NoSnapshot
Latest == CHOOSE s \in monitored.latest : TRUE

\* buildDomainFromSnapshot, the history: the processes of the snapshot, each with its new rate.
Appended(histories, rates) ==
    [p \in DOMAIN rates |->
        LET longer == Append(IF p \in DOMAIN histories THEN histories[p] ELSE <<>>, rates[p])
        IN SubSeq(longer, IF Len(longer) > MaxHistory THEN Len(longer) - MaxHistory + 1 ELSE 1,
                  Len(longer))]

\* The nodes of the topology: an endpoint is labelled by the row that names it first.
SourceLabel(edge) == IF edge.direction = "local" THEN "LOCAL" ELSE "SRC"
LabelOf(edges, node) ==
    LET first == CHOOSE i \in DOMAIN edges :
                    /\ node \in {edges[i].source, edges[i].destination}
                    /\ \A j \in 1..(i - 1) : node \notin {edges[j].source, edges[j].destination}
    IN IF edges[first].source = node THEN SourceLabel(edges[first])
       ELSE IF edges[first].class \in Sublabels THEN edges[first].class ELSE "EXTERNAL_WAN"
Nodes(edges) == UNION {{edges[i].source, edges[i].destination} : i \in DOMAIN edges}

\* ApplicationsLineageCard: the edges that touch the class, with both their ends.
ClassOf(mode) ==
    CASE mode = "ExternalWAN" -> {"EXTERNAL_WAN"} [] mode = "CDNEdge" -> {"CDN_EDGE"}
      [] mode = "Multicast" -> {"MULTICAST"} [] OTHER -> {"LOCAL", "LOCAL_SUBNET"}
FilteredGraph(edges, mode) ==
    LET ofClass == {n \in Nodes(edges) : LabelOf(edges, n) \in ClassOf(mode)}
        touching == {i \in DOMAIN edges : {edges[i].source, edges[i].destination} \cap ofClass # {}}
        ends == UNION {{edges[i].source, edges[i].destination} : i \in touching}
    IN IF mode = "AllEndpoints" THEN [nodes |-> Nodes(edges), edges |-> DOMAIN edges]
       ELSE [nodes |-> ends \cup ofClass, edges |-> touching]

\* findMatchingLineage: the row behind a node; its own label says which end is tried first.
FindMatchingLineage(edges, node) ==
    LET from == {i \in DOMAIN edges : edges[i].source = node}
        to == {i \in DOMAIN edges : edges[i].destination = node}
        tried == IF LabelOf(edges, node) = "SRC" THEN (IF from # {} THEN from ELSE to)
                 ELSE IF to # {} THEN to ELSE from
    IN CHOOSE i \in tried : \A j \in tried : i <= j

\* ProcessAttributesCard: the page shown, never past the last one.
Pages(n) == IF n = 0 THEN 1 ELSE (n + PageSize - 1) \div PageSize
ShownPage == IF HasSnapshot /\ monitoring.page < Pages(Cardinality(DOMAIN Latest.rates))
             THEN monitoring.page
             ELSE IF HasSnapshot THEN Pages(Cardinality(DOMAIN Latest.rates)) - 1 ELSE 0
RowsOn(page, n) == IF n <= page * PageSize THEN 0
                   ELSE IF n - page * PageSize < PageSize THEN n - page * PageSize ELSE PageSize

\* mapTelemetryStateToEngineState.
EngineState == IF ~HasSnapshot THEN "Standby"
               ELSE CASE Latest.telemetry = "active" -> "Live" [] Latest.telemetry = "stale" -> "Stale"
                      [] Latest.telemetry = "unavailable" -> "Unavailable" [] OTHER -> "Standby"

\* captureHealth: how full the capture buffer is, in words; the gauge shows 2 to 100 percent.
HealthSeverity(percent) == IF percent > 80 THEN "critical" ELSE IF percent > 50 THEN "warning" ELSE "healthy"
GaugeWidth(percent) == IF percent < 2 THEN 2 ELSE IF percent > 100 THEN 100 ELSE percent

IsLoading == ~HasSnapshot /\ monitored.error = "none"

MonitoringFresh(mount) ==
    [mounted |-> FALSE, mount |-> mount, histories |-> <<>>,
     page |-> 0, mode |-> "AllEndpoints", hop |-> "none", custom |-> NoText,
     refused |-> FALSE, running |-> FALSE, result |-> {}, retrying |-> FALSE, subsystem |-> "none"]

MonitoringInit ==
    /\ monitored = [latest |-> NoSnapshot, error |-> "none"]
    /\ monitoring = MonitoringFresh(0)
    /\ probes = {} /\ retries = {}

\* The render of a new snapshot.
Redrawn(screen, snapshot) ==
    IF screen.mounted THEN [screen EXCEPT !.histories = Appended(@, snapshot.rates)] ELSE screen

\* The live refresh, or an event, has brought a snapshot; or the refresh has failed.
LiveSnapshot(snapshot) ==
    /\ monitored' = [latest |-> {snapshot}, error |-> "none"]
    /\ monitoring' = Redrawn(monitoring, snapshot)
    /\ UNCHANGED <<probes, retries>>
LiveFailure ==
    /\ monitored' = [monitored EXCEPT !.error = "failed"]
    /\ UNCHANGED <<monitoring, probes, retries>>

\* The screen is opened, and left.  The time range is a preference (LiveData sets it).
OpenMonitoring ==
    /\ ~monitoring.mounted /\ monitoring.mount < MaxMounts
    /\ LET opened == [monitoring EXCEPT !.mounted = TRUE, !.mount = @ + 1]
       IN monitoring' = IF HasSnapshot THEN Redrawn(opened, Latest) ELSE opened
    /\ UNCHANGED <<monitored, probes, retries>>
LeaveMonitoring ==
    /\ monitoring.mounted
    /\ monitoring' = MonitoringFresh(monitoring.mount)
    /\ UNCHANGED <<monitored, probes, retries>>

SetLineageFilter(mode) ==
    /\ monitoring.mounted /\ ~IsLoading
    /\ monitoring' = [monitoring EXCEPT !.mode = mode]
    /\ UNCHANGED <<monitored, probes, retries>>
TurnPage(page) ==
    /\ monitoring.mounted /\ HasSnapshot /\ page \in {ShownPage - 1, ShownPage + 1}
    /\ page \in 0..(Pages(Cardinality(DOMAIN Latest.rates)) - 1)
    /\ monitoring' = [monitoring EXCEPT !.page = page]
    /\ UNCHANGED <<monitored, probes, retries>>

\* A tile of DiagnosticsSection: the drawer keeps the status the subsystem had when pressed.
InspectSubsystem ==
    /\ monitoring.mounted /\ HasSnapshot
    /\ monitoring' = [monitoring EXCEPT !.subsystem = IF @ # "none" THEN "none" ELSE Latest.status]
    /\ UNCHANGED <<monitored, probes, retries>>

\* A hop is selected: its target fills the field, whatever was typed for another hop.
HopSelected(hop) ==
    [monitoring EXCEPT !.hop = hop, !.custom = IF hop = "none" THEN NoText ELSE Latest.target,
                       !.refused = FALSE]
HandleStageClick(hop) ==
    /\ monitoring.mounted /\ HasSnapshot
    /\ monitoring' = HopSelected(IF monitoring.hop = hop THEN "none" ELSE hop)
    /\ UNCHANGED <<monitored, probes, retries>>
\* handleTabKeyDown, on the tab in focus, the selected one if there is one: an arrow leads to
\* the next or to the one before, around both ends, Home to the first and End to the last.
TabStops(i) == {(i % Len(Hops)) + 1, ((i - 2 + Len(Hops)) % Len(Hops)) + 1, 1, Len(Hops)}
HandleTabKey(i, stop) ==
    /\ monitoring.mounted /\ HasSnapshot /\ monitoring.hop \in {Hops[i], "none"}
    /\ monitoring' = HopSelected(Hops[stop])
    /\ UNCHANGED <<monitored, probes, retries>>
EscapeStage ==
    /\ monitoring.hop # "none" /\ monitoring' = HopSelected("none")
    /\ UNCHANGED <<monitored, probes, retries>>

ProbeForm == monitoring.mounted /\ HasSnapshot /\ monitoring.hop \in Probeable

TypeHopTarget(text) ==
    /\ ProbeForm /\ text # monitoring.custom
    /\ monitoring' = [monitoring EXCEPT !.custom = text, !.refused = text # NoText /\ text \notin GoodTargets]
    /\ UNCHANGED <<monitored, probes, retries>>

\* runProbe: one at a time for the mounted screen.
RunHopProbe(target, screen) ==
    IF screen.running THEN UNCHANGED <<monitoring, probes>>
    ELSE /\ monitoring' = [screen EXCEPT !.running = TRUE]
         /\ probes' = probes \cup {[mount |-> screen.mount, hop |-> screen.hop, target |-> target]}

HandleQuickProbe ==
    /\ ProbeForm /\ ~monitoring.running
    /\ IF Latest.target # NoText THEN RunHopProbe(Latest.target, [monitoring EXCEPT !.refused = FALSE])
       ELSE monitoring' = [monitoring EXCEPT !.refused = TRUE] /\ UNCHANGED probes
    /\ UNCHANGED <<monitored, retries>>
RunStageProbe ==
    /\ ProbeForm /\ ~monitoring.running /\ ~monitoring.refused
    /\ LET target == IF monitoring.custom # NoText THEN monitoring.custom ELSE Latest.target
       IN /\ target # NoText
          /\ IF target \in GoodTargets THEN RunHopProbe(target, monitoring)
             ELSE monitoring' = [monitoring EXCEPT !.refused = TRUE] /\ UNCHANGED probes
    /\ UNCHANGED <<monitored, retries>>

\* The answer: a result or a failure, both shown as a result of the stage that was asked.
ProbeAnswers(probe, status) ==
    /\ probe \in probes /\ probes' = probes \ {probe}
    /\ monitoring' = IF monitoring.mounted /\ probe.mount = monitoring.mount
                     THEN [monitoring EXCEPT !.running = FALSE,
                              !.result = {[hop |-> probe.hop, target |-> probe.target, status |-> status]}]
                     ELSE monitoring
    /\ UNCHANGED <<monitored, retries>>

\* What the drawer of the selected hop shows of the last result.
ShownResult == {r \in monitoring.result : r.hop = monitoring.hop}

RetryConnection ==
    /\ monitoring.mounted /\ monitored.error # "none" /\ ~monitoring.retrying
    /\ monitoring' = [monitoring EXCEPT !.retrying = TRUE]
    /\ retries' = retries \cup {monitoring.mount}
    /\ UNCHANGED <<monitored, probes>>
Retried(screen, mount) == IF screen.mounted /\ screen.mount = mount THEN [screen EXCEPT !.retrying = FALSE] ELSE screen
RetryAnswers(mount, snapshot) ==
    /\ mount \in retries /\ retries' = retries \ {mount}
    /\ monitored' = [latest |-> {snapshot}, error |-> "none"]
    /\ monitoring' = Retried(Redrawn(monitoring, snapshot), mount)
    /\ UNCHANGED probes
RetryFails(mount) ==
    /\ mount \in retries /\ retries' = retries \ {mount}
    /\ monitored' = [monitored EXCEPT !.error = "failed"]
    /\ monitoring' = Retried(monitoring, mount)
    /\ UNCHANGED probes

MonitoringNext ==
    \/ \E s \in Snapshots : LiveSnapshot(s)
    \/ LiveFailure \/ OpenMonitoring \/ LeaveMonitoring
    \/ \E m \in LineageFilters : SetLineageFilter(m)
    \/ \E p \in 0..Cardinality(Processes) : TurnPage(p)
    \/ InspectSubsystem \/ EscapeStage \/ HandleQuickProbe \/ RunStageProbe \/ RetryConnection
    \/ \E h \in HopKinds : HandleStageClick(h)
    \/ \E i \in DOMAIN Hops : \E stop \in TabStops(i) : HandleTabKey(i, stop)
    \/ \E x \in TypedTargets : TypeHopTarget(x)
    \/ \E p \in probes, st \in {"success", "error"} : ProbeAnswers(p, st)
    \/ \E m \in retries : RetryFails(m) \/ \E s \in Snapshots : RetryAnswers(m, s)

-----------------------------------------------------------------------------------
MonitoringTypeOK ==
    /\ monitored.latest \subseteq Snapshots /\ Cardinality(monitored.latest) <= 1
    /\ monitored.error \in {"none", "failed"}
    /\ monitoring.mount \in 0..MaxMounts
    /\ monitoring.hop \in HopKinds \cup {"none"} /\ monitoring.mode \in LineageFilters
    /\ {monitoring.mounted, monitoring.running, monitoring.refused, monitoring.retrying} \subseteq BOOLEAN
    /\ probes \subseteq [mount : 1..MaxMounts, hop : Probeable, target : TypedTargets \cup {s.target : s \in Snapshots}]
    /\ retries \subseteq 1..MaxMounts

\* There is a history for every process number of the latest snapshot and for no other, each
\* ends in the rate shown beside it and none grows past its bound, in whatever order live
\* snapshots, retried ones and mounts come (buildDomainFromSnapshot).  A number is all a
\* history is kept by: one given to another process between two snapshots keeps its points.
HistoriesAreCurrent ==
    monitoring.mounted /\ HasSnapshot =>
        /\ DOMAIN monitoring.histories = DOMAIN Latest.rates
        /\ \A p \in DOMAIN Latest.rates :
              /\ Len(monitoring.histories[p]) \in 1..MaxHistory
              /\ monitoring.histories[p][Len(monitoring.histories[p])] = Latest.rates[p]

\* The buttons of the probe forms are held exactly while a probe this mount asked for is under
\* way, and there is one at most: an answer for a screen that was left releases nothing here.
OneProbeOfThisScreen ==
    /\ monitoring.running <=> \E p \in probes : p.mount = monitoring.mount /\ monitoring.mounted
    /\ monitoring.mounted => Cardinality({p \in probes : p.mount = monitoring.mount}) <= 1
    /\ monitoring.retrying <=> monitoring.mounted /\ monitoring.mount \in retries

\* The page of processes shown has rows whenever there is a process, however many left while a
\* later page was open (ProcessAttributesCard).
ShownPageHasRows ==
    monitoring.mounted /\ HasSnapshot /\ DOMAIN Latest.rates # {} =>
        RowsOn(ShownPage, Cardinality(DOMAIN Latest.rates)) > 0

\* Under every filter the graph drawn is closed: an edge that is drawn has both its ends drawn,
\* and every node drawn can be traced to a row of the lineage that names it.
DrawnGraphIsClosed ==
    monitoring.mounted /\ HasSnapshot =>
        LET graph == FilteredGraph(Latest.edges, monitoring.mode)
        IN /\ \A i \in graph.edges :
                {Latest.edges[i].source, Latest.edges[i].destination} \subseteq graph.nodes
           /\ \A n \in graph.nodes : LET row == Latest.edges[FindMatchingLineage(Latest.edges, n)]
                                     IN n \in {row.source, row.destination}

\* A probe goes out only to a target that reads as an address or a name, or to the one the engine
\* itself gave for the chain: nothing typed and refused is ever sent.
RefusedTargetsStay ==
    [][\A p \in probes' \ probes : p.target \in GoodTargets \/ p.target = Latest.target]_monitoringVars
=============================================================================
