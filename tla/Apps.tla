------------------------------------ MODULE Apps ------------------------------------
(***************************************************************************)
(* The applications screen (hooks/useAppsController.ts, screens/Apps).     *)
(* Every monitor snapshot regroups the flows by the process the engine     *)
(* gives them: a flow is first unattributed, then a numbered process, then *)
(* a named one, so groups appear, change their key and go while a reader   *)
(* has one open, or has followed evidence to one flow of it.  The effect   *)
(* that drops what is held for another captureSessionId never runs: it is  *)
(* set once, and resetSession (state/store.ts) is called by tests only.    *)
(***************************************************************************)
EXTENDS Navigation, FiniteSets

CONSTANTS
    FlowDest,     \* the flows (from 1) and the endpoint each one talks to
    Owners,       \* the processes: [pid, name]; pid 0 is none, name "PID" is a bare number
    NameInside,   \* the pairs <<a, b>> of different names where b contains a
    AppTerms,     \* what may be searched for
    MaxVisible    \* how many flows an open group lists (24 in the code)

Unowned == [pid |-> 0, name |-> "unattributed_flows"]
Absent == [pid |-> -1, name |-> "absent"]
AppFlows == DOMAIN FlowDest
AnyApp == ""           \* the empty search

ASSUME AppsConstants ==
    /\ AppFlows \subseteq Nat \ {0} /\ AnyApp \in AppTerms /\ MaxVisible \in Nat
    /\ \A o \in Owners : o.pid \in Nat \ {0}

VARIABLES
    owners,       \* the snapshot: the process of each flow; <<>> before the first
    apps,         \* what the mounted screen holds
    attributions  \* its cache: the confidence each flow was last given

appsVars == <<nav, owners, apps, attributions>>

Ranks == [high |-> 0, low |-> 1, unknown |-> 2]
ConfidenceFilters == {"all", "high", "low", "unknown"}

\* resolveConservativeConfidence.
Weaker(a, b) == IF Ranks[a] < Ranks[b] THEN b ELSE a

\* deriveConfidence: nobody, a process known by its number only, or by its name.
ConfidenceOf(owner) == IF owner.pid = 0 THEN "unknown" ELSE IF owner.name = "PID" THEN "low" ELSE "high"

\* The lineage of a snapshot: one conduit for each endpoint and process.
Conduits(snap) == {[dest |-> FlowDest[f], owner |-> snap[f]] : f \in {f \in DOMAIN snap : snap[f] # Absent}}

SameName(a, b) == a = b \/ <<a, b>> \in NameInside \/ <<b, a>> \in NameInside

\* aggregate_processes: the engine looks a pid up once for a snapshot, so it has one name in it.
EngineSnapshots ==
    {snap \in [AppFlows -> Owners \cup {Unowned, Absent}] :
        \A f, g \in AppFlows : snap[f].pid = snap[g].pid => snap[f] = snap[g]}

\* correlateLineageForProcess: the conduits shown under a process; untagged ones all go to it
\* when there is no other process, or it is nobody.
CorrelateLineage(owner, snap) ==
    LET all == Conduits(snap)
        rows == {c.owner : c \in all}
        Tagged(c) == c.owner.pid # 0
        Belongs(c) ==
            IF owner.pid # 0 /\ Tagged(c) THEN c.owner.pid = owner.pid
            ELSE \/ Tagged(c) /\ owner.pid = 0 /\ SameName(c.owner.name, owner.name)
                 \/ ~Tagged(c) /\ owner.pid = 0
    IN IF \E c \in all : Tagged(c) THEN {c \in all : Belongs(c)}
       ELSE IF rows = {owner} \/ owner.pid = 0 THEN all ELSE {}

\* allGroupedProcesses, the order aside.
Groups(snap) ==
    {[owner |-> o, flows |-> {f \in DOMAIN snap : snap[f] = o}, confidence |-> ConfidenceOf(o),
      lineage |-> CorrelateLineage(o, snap)] :
        o \in {snap[f] : f \in DOMAIN snap} \ {Absent}}

AppsFresh(target) ==
    [mounted |-> FALSE, term |-> AnyApp, filter |-> "all", expanded |-> {}, inspected |-> target,
     handled |-> 0, touched |-> FALSE]
NoAttributions == [f \in AppFlows |-> "none"]

AppsInit == NavInit /\ owners = <<>> /\ apps = AppsFresh(0) /\ attributions = NoAttributions

AppTarget == TargetFor("apps", nav)

MatchesApp(g, term) ==
    term = AnyApp \/ term = g.owner.name \/ term = g.confidence \/ \E c \in g.lineage : c.dest = term

\* activeGroupedProcesses, filteredGroupedProcesses.
ActiveGroups(snap, target) == {g \in Groups(snap) : target # 0 => target \in g.flows}
ListedGroups(snap, screen, target) ==
    {g \in ActiveGroups(snap, target) : /\ screen.filter \in {"all", g.confidence}
                                        /\ MatchesApp(g, screen.term)}
NowGroups == ListedGroups(owners, apps, AppTarget)

RowIsOpen(g, screen) == g.owner \in screen.expanded \/ screen.inspected \in g.flows

\* ProcessRow: the flows an open row lists, the inspected one always among them.
VisibleFlows(g, screen) ==
    {f \in g.flows : Cardinality({e \in g.flows : e < f}) < MaxVisible \/ f = screen.inspected}

AppsView ==
    IF ~apps.mounted THEN "elsewhere" ELSE IF owners = <<>> THEN "skeleton"
    ELSE IF ActiveGroups(owners, AppTarget) = {} THEN "empty"
    ELSE IF NowGroups = {} THEN "no_match" ELSE "table"

\* AppsSummary, over the groups before the filters.
AppsSummary ==
    LET groups == ActiveGroups(owners, AppTarget)
    IN [apps |-> Cardinality(groups), flows |-> Cardinality(UNION {g.flows : g \in groups}),
        by |-> [c \in DOMAIN Ranks |-> Cardinality({g \in groups : g.confidence = c})]]

\* A tile or a button pressed twice shows everything again.
PressedFilter(option) == IF option = "all" \/ apps.filter = option THEN "all" ELSE option

\* The effect that opens the group of the flow evidence was followed to, once.
TargetOpened(screen, snap, target) ==
    LET groups == {g \in ListedGroups(snap, screen, target) : target \in g.flows}
        g == CHOOSE g \in groups : TRUE
    IN IF target = 0 THEN [screen EXCEPT !.handled = 0]
       ELSE IF screen.handled = target \/ groups = {} THEN screen
       ELSE [screen EXCEPT !.handled = target, !.inspected = target, !.expanded = @ \cup {g.owner},
                           !.touched = FALSE]

\* What the render of a snapshot leaves in the cache.
Cached(snap) ==
    [f \in AppFlows |-> IF f \notin DOMAIN snap \/ snap[f] = Absent THEN attributions[f]
                        ELSE IF attributions[f] = "none" THEN ConfidenceOf(snap[f])
                        ELSE Weaker(attributions[f], ConfidenceOf(snap[f]))]

\* A monitor snapshot: the flows of the window, with their processes as the engine knows them.
SnapshotArrives(snap) ==
    /\ owners' = snap
    /\ IF apps.mounted
       THEN /\ attributions' = Cached(snap)
            /\ apps' = TargetOpened(apps, snap, AppTarget)
       ELSE UNCHANGED <<apps, attributions>>
    /\ UNCHANGED nav

SetAppsSearch(term) ==
    /\ AppsView \in {"no_match", "table"} /\ term # apps.term
    /\ apps' = TargetOpened([apps EXCEPT !.term = term], owners, AppTarget)
    /\ UNCHANGED <<nav, owners, attributions>>

SetConfidenceFilter(option) ==
    /\ AppsView \in {"no_match", "table"}
    /\ apps' = TargetOpened([apps EXCEPT !.filter = PressedFilter(option)], owners, AppTarget)
    /\ UNCHANGED <<nav, owners, attributions>>

ClearAppsFilters ==
    /\ AppsView = "no_match" /\ (apps.term # AnyApp \/ apps.filter # "all")
    /\ apps' = TargetOpened([apps EXCEPT !.term = AnyApp, !.filter = "all"], owners, AppTarget)
    /\ UNCHANGED <<nav, owners, attributions>>

\* handleToggleExpand: closing a group also closes the flow inspected in it.
HandleToggleExpand(g) ==
    /\ AppsView = "table" /\ g \in NowGroups
    /\ apps' = [apps EXCEPT
                  !.expanded = IF g.owner \in @ THEN @ \ {g.owner}
                               ELSE IF apps.inspected \in g.flows THEN @ ELSE @ \cup {g.owner},
                  !.inspected = IF @ \in g.flows THEN 0 ELSE @,
                  !.touched = TRUE]
    /\ UNCHANGED <<nav, owners, attributions>>

\* handleInspectFlow; the plate's own close button is the same as pressing it again.
HandleInspectFlow(f) ==
    /\ AppsView = "table" /\ \E g \in NowGroups : RowIsOpen(g, apps) /\ f \in VisibleFlows(g, apps)
    /\ apps' = [apps EXCEPT !.inspected = IF @ = f THEN 0 ELSE f, !.touched = TRUE]
    /\ UNCHANGED <<nav, owners, attributions>>

\* Any change of screen or target; clearing the filter is the one the screen itself offers.
AppsMove(n) ==
    /\ n # nav
    /\ nav' = n
    /\ LET target == TargetFor("apps", n)
           screen == IF apps.mounted THEN apps ELSE [AppsFresh(target) EXCEPT !.mounted = TRUE]
       IN IF n.screen # "apps" THEN apps' = AppsFresh(0) /\ attributions' = NoAttributions
          ELSE /\ apps' = TargetOpened(screen, owners, target)
               /\ attributions' = Cached(owners)
    /\ UNCHANGED owners

AppsNext ==
    \/ \E snap \in EngineSnapshots : SnapshotArrives(snap)
    \/ \E term \in AppTerms : SetAppsSearch(term)
    \/ \E option \in ConfidenceFilters : SetConfidenceFilter(option)
    \/ ClearAppsFilters
    \/ \E g \in NowGroups : HandleToggleExpand(g)
    \/ \E f \in AppFlows : HandleInspectFlow(f)
    \/ \E s \in Screens : AppsMove(Switched(s))
    \/ \E r \in Refs : AppsMove(Followed(r))
    \/ apps.mounted /\ AppTarget # 0 /\ AppsMove(Untargeted)

-----------------------------------------------------------------------------
AppsTypeOK ==
    /\ NavTypeOK /\ apps.term \in AppTerms /\ apps.filter \in ConfidenceFilters
    /\ apps.expanded \subseteq Owners \cup {Unowned}
    /\ apps.inspected \in AppFlows \cup {0} \cup {r.id : r \in Refs}
    /\ attributions \in [AppFlows -> DOMAIN Ranks \cup {"none"}]
    /\ apps.mounted => nav.screen = "apps"

\* Every conduit of a snapshot is shown under the process it belongs to, and under no other
\* process: those of the same name never bleed into each other.  The bucket of nobody has no
\* number, so it lists besides its own the conduits of a process named like it, in part or in
\* whole ("flow" is inside "unattributed_flows"), and those of no other.
ConduitsKeepTheirProcess ==
    /\ \A g \in Groups(owners) : \A c \in g.lineage :
          c.owner = g.owner \/ (g.owner = Unowned /\ SameName(c.owner.name, Unowned.name))
    /\ \A c \in Conduits(owners) : \E g \in Groups(owners) : g.owner = c.owner /\ c \in g.lineage

\* Evidence that is followed to a flow opens it: whenever the flow is listed, however late its
\* first snapshot, however often it is given to another process since, its row is open and its
\* plate is shown, until the reader opens or closes a row or a flow.
FollowedFlowIsOpen ==
    apps.mounted /\ AppTarget # 0 /\ ~apps.touched
        => \A g \in NowGroups : apps.inspected = AppTarget /\ RowIsOpen(g, apps)

\* While the screen stays, the confidence kept for a flow only falls (NET-DATA-003).
AttributionOnlyWeakens ==
    [][ apps.mounted /\ apps'.mounted
        => \A f \in AppFlows : attributions[f] # "none"
             => attributions'[f] # "none" /\ Ranks[attributions[f]] <= Ranks[attributions'[f]] ]_appsVars
=============================================================================
