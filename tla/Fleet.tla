--------------------------------- MODULE Fleet ---------------------------------
(***************************************************************************)
(* The fleet screen (hooks/useFleetController.ts and screens/Fleet).       *)
(* Refresh is offered while the first load still runs, so several answers  *)
(* may be on their way and end in any order.                               *)
(***************************************************************************)
EXTENDS Integers, FiniteSets

CONSTANTS
    Hosts,         \* [name, status] records the engine may report
    MaxSyncs       \* bound: queries in flight

\* What the words of a status make of it: the first list that has one of them decides.
NormalizeFleetStatus(words) ==
    IF words \cap {"online", "active", "ready"} # {} THEN "online"
    ELSE IF words \cap {"degraded", "syncing", "warning"} # {} THEN "degraded"
    ELSE IF words \cap {"offline", "error", "failed"} # {} THEN "offline"
    ELSE "unknown"

StatusPriority == [offline |-> 0, degraded |-> 1, online |-> 2, unknown |-> 3]

ASSUME FleetConstants ==
    /\ \A h \in Hosts : DOMAIN h = {"name", "words"}
    /\ MaxSyncs \in Nat \ {0}

VARIABLES fleet, syncs   \* what the mounted screen holds; the queries in flight

fleetVars == <<fleet, syncs>>

FleetFresh == [hosts |-> {}, loaded |-> FALSE, refreshing |-> FALSE,
               notice |-> FALSE, synced |-> FALSE, filter |-> "all", search |-> Hosts]

FleetInit == fleet = FleetFresh /\ syncs = 1

StatusOf(h) == NormalizeFleetStatus(h.words)

\* The list as it is shown: the filter and the search, then problems before the rest.  A
\* search stands for the hosts whose text has it: the empty one for all of them.
FilteredHosts == {h \in fleet.hosts : fleet.filter \in {"all", StatusOf(h)} /\ h \in fleet.search}
ShownBefore(h, k) == StatusPriority[StatusOf(h)] < StatusPriority[StatusOf(k)]
FleetSummary ==
    [s \in DOMAIN StatusPriority |-> Cardinality({h \in fleet.hosts : StatusOf(h) = s})]

\* A node's card: the colour of its border; the agent id is masked at beginner depth.
FleetNodeCard(h, shows) ==
    [colour |-> [online |-> "good", degraded |-> "notable", offline |-> "finding",
                 unknown |-> "subtext"][StatusOf(h)],
     id |-> IF shows THEN "full" ELSE "masked"]

FleetView ==
    [refresh |-> ~fleet.refreshing,
     time |-> fleet.synced,
     reset |-> fleet.loaded /\ fleet.hosts # {} /\ FilteredHosts = {},
     body |-> IF ~fleet.loaded THEN "skeletons"
              ELSE IF fleet.hosts = {} THEN "standalone"
              ELSE IF FilteredHosts = {} THEN "no match" ELSE "nodes"]

SetStatusFilter(s) ==
    /\ fleet' = [fleet EXCEPT !.filter = s]
    /\ UNCHANGED syncs

SetFleetSearch(found) ==
    /\ fleet' = [fleet EXCEPT !.search = found]
    /\ UNCHANGED syncs

ResetFleetFilters ==
    /\ FleetView.reset
    /\ fleet' = [fleet EXCEPT !.filter = "all", !.search = Hosts]
    /\ UNCHANGED syncs

DismissFleetNotice ==
    /\ fleet.notice
    /\ fleet' = [fleet EXCEPT !.notice = FALSE]
    /\ UNCHANGED syncs

\* fetchHosts(false), up to its await.
RefreshFleet ==
    /\ FleetView.refresh /\ syncs < MaxSyncs
    /\ fleet' = [fleet EXCEPT !.refreshing = TRUE, !.notice = FALSE]
    /\ syncs' = syncs + 1

\* fetchHosts, after its await: any answer ends the refresh of all of them.
FleetAnswered(kind, hosts) ==
    /\ syncs > 0
    /\ syncs' = syncs - 1
    /\ fleet' = [fleet EXCEPT !.hosts = IF kind = "ok" THEN hosts ELSE {},
                              !.synced = @ \/ kind = "ok",
                              !.notice = @ \/ kind # "ok",
                              !.loaded = TRUE, !.refreshing = FALSE]

LeaveFleet == fleet' = FleetFresh /\ syncs' = 1

FleetNext ==
    \/ \E s \in {"all", "online", "degraded", "offline"} : SetStatusFilter(s)
    \/ \E found \in SUBSET Hosts : SetFleetSearch(found)
    \/ ResetFleetFilters \/ DismissFleetNotice \/ RefreshFleet \/ LeaveFleet
    \/ \E hosts \in SUBSET Hosts : FleetAnswered("ok", hosts)
    \/ \E kind \in {"other", "failed"} : FleetAnswered(kind, {})

-----------------------------------------------------------------------------
FleetTypeOK ==
    /\ fleet \in [hosts : SUBSET Hosts, loaded : BOOLEAN, refreshing : BOOLEAN, notice : BOOLEAN,
                  synced : BOOLEAN, filter : {"all", "online", "degraded", "offline"},
                  search : SUBSET Hosts]
    /\ syncs \in 0 .. MaxSyncs

\* The screen waits, with skeletons or a spinning button, only while an answer is still
\* to come, whichever of several answers comes first.
FleetWaitHasCause == ~fleet.loaded \/ fleet.refreshing => syncs > 0
=============================================================================
