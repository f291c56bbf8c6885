--------------------------- MODULE EvidenceScreens ---------------------------
(***************************************************************************)
(* The screens on which the user reads what was observed, and what they    *)
(* derive it with: the client store, the dashboard with its figures and    *)
(* its strip of hops, the timeline, the journey, the applications, the     *)
(* monitoring and the diagnostics with their diagnostic engine.            *)
(*                                                                         *)
(* The timeline, the journey and the applications share the navigation     *)
(* target, which any of them and the menu may change.  Beyond it no two of *)
(* these parts write the same state, and App.tsx renders one screen at a   *)
(* time: "reading" says which part is looked at, the others stay as they   *)
(* were at first.                                                          *)
(***************************************************************************)
EXTENDS ClientStore, Dashboard, Kpi, ProbeStrip, Timeline, Journey, Apps, Monitoring,
        Diagnosis, Diagnostics

VARIABLE reading   \* the part looked at

Parts == {"store", "dashboard", "kpi", "strip", "timeline", "journey", "apps", "monitoring",
          "diagnosis", "diagnostics"}

\* The navigation apart, a screen's variables are its own.
timelineOwn == <<eventFeed, timeline>>
journeyOwn == <<evidence, journey, journeyCalls>>
appsOwn == <<owners, apps, attributions>>

evidenceVars == <<reading, storeVars, dashboardVars, kpiVars, stripVars, nav, timelineOwn,
                  journeyOwn, appsOwn, monitoringVars, diagnosisVars, diagnosticsVars>>

\* Which of its first states a part that is not looked at is in makes no difference.
Unread ==
    /\ reading # "diagnosis" => pipeline.source = "live" /\ pipeline.laterSource = "live"
    /\ reading # "journey" => evidence.depth = "basic"

EvidenceInit ==
    /\ reading \in Parts
    /\ StoreInit /\ DashboardInit /\ KpiInit /\ ProbeStripInit
    /\ TimelineInit /\ JourneyInit /\ AppsInit /\ MonitoringInit
    /\ DiagnosisInit /\ DiagnosticsInit
    /\ Unread

\* Only the variables of this part change.
OnlyPart(name) ==
    /\ reading = name /\ UNCHANGED reading
    /\ IF name = "store" THEN TRUE ELSE UNCHANGED storeVars
    /\ IF name = "dashboard" THEN TRUE ELSE UNCHANGED dashboardVars
    /\ IF name = "kpi" THEN TRUE ELSE UNCHANGED kpiVars
    /\ IF name = "strip" THEN TRUE ELSE UNCHANGED stripVars
    /\ IF name \in {"timeline", "journey", "apps"} THEN TRUE ELSE UNCHANGED nav
    /\ IF name = "timeline" THEN TRUE ELSE UNCHANGED timelineOwn
    /\ IF name = "journey" THEN TRUE ELSE UNCHANGED journeyOwn
    /\ IF name = "apps" THEN TRUE ELSE UNCHANGED appsOwn
    /\ IF name = "monitoring" THEN TRUE ELSE UNCHANGED monitoringVars
    /\ IF name = "diagnosis" THEN TRUE ELSE UNCHANGED diagnosisVars
    /\ IF name = "diagnostics" THEN TRUE ELSE UNCHANGED diagnosticsVars

EvidenceNext ==
    \/ reading = "store" /\ StoreNext /\ OnlyPart("store")
    \/ reading = "dashboard" /\ DashboardNext /\ OnlyPart("dashboard")
    \/ reading = "kpi" /\ KpiNext /\ OnlyPart("kpi")
    \/ reading = "strip" /\ ProbeStripNext /\ OnlyPart("strip")
    \/ reading = "timeline" /\ TimelineNext /\ OnlyPart("timeline")
    \/ reading = "journey" /\ JourneyNext /\ OnlyPart("journey")
    \/ reading = "apps" /\ AppsNext /\ OnlyPart("apps")
    \/ reading = "monitoring" /\ MonitoringNext /\ OnlyPart("monitoring")
    \/ reading = "diagnosis" /\ DiagnosisNext /\ OnlyPart("diagnosis")
    \/ reading = "diagnostics" /\ DiagnosticsNext /\ OnlyPart("diagnostics")

EvidenceSpec == EvidenceInit /\ [][EvidenceNext]_evidenceVars

-----------------------------------------------------------------------------
EvidenceTypeOK ==
    /\ reading \in Parts
    /\ StoreTypeOK /\ DashboardTypeOK /\ KpiTypeOK /\ StripTypeOK /\ TimelineTypeOK
    /\ JourneyTypeOK /\ AppsTypeOK /\ MonitoringTypeOK /\ DiagnosisTypeOK /\ DiagnosticsTypeOK

\* Nothing waits for ever: a busy probe, a skeleton, a held button or a retry stands only
\* while the query that ends it is under way, whatever was cleared, left or asked again.
WaitHasCause ==
    /\ BusyIsTheCurrentRun /\ SkeletonHasCause /\ OneProbeOfThisScreen /\ RetryHasCause
    /\ HeldHopIsProbed

\* What is shown belongs together and is the current one, in any order of snapshots, answers
\* and steps of the reader: a journey asked for alone and its session, stage and journey,
\* conduit and numbered process, history and process number, figure and snapshot, result and
\* hop, sample and snapshot.
ShownBelongsTogether ==
    /\ SamplesMatchSnapshot /\ PushKeepsNewest /\ ShownJourneyIsWanted /\ ReadStageExists
    /\ StageIsTheQuery /\ ClearedStaysCleared /\ ConduitsKeepTheirProcess
    /\ FollowedFlowIsOpen /\ HistoriesAreCurrent /\ ShownPageHasRows /\ DrawnGraphIsClosed
    /\ MemoizedKpiIsFresh /\ HealthIsOfTheSnapshot /\ ResultsStandUnderTheirHop

\* What is concluded follows from what was observed: every diagnosis has evidence, nothing
\* severe comes of simulated figures, silent hops are no loss, the advice answers the
\* diagnoses, and the summary is of the diagnosis or else of the first finding.
ConclusionsAreEvidenced ==
    /\ DiagnosesAreEvidenced /\ SimulatedIsNeverSevere /\ SilentHopsAreNoLoss
    /\ RecommendationsFollow /\ FindingsAreNotHidden

\* What the reader chose, typed or followed is what comes of it: a chosen event stays, a
\* followed one is shown, evidence leads to its card, a refused target is never sent, and
\* no projection strips a card of its detail or lets an attribution grow.
ReaderIsFollowed ==
    /\ ChosenStaysShown /\ FollowedIsShown /\ EvidenceLeadsToItsCard /\ RefusedTargetsStay
    /\ DetailNeverStripped /\ ChangesAreEmitted /\ AttributionOnlyWeakens
=============================================================================
