------------------------------- MODULE LiveData -------------------------------
(***************************************************************************)
(* The data pump of the UI: useLiveData.ts (polling, triggered refreshes,  *)
(* live events), the disclosure depth (modes/DisclosureContext.tsx) and    *)
(* the time range of the monitoring preferences.                           *)
(*                                                                         *)
(* Simplifications.  The store (module ClientStore) is reduced to the      *)
(* depth its cards were projected at and the range its snapshot covers.    *)
(* The engine answers a query with the kind asked for, or an error.  The   *)
(* shell runs commands concurrently (async fn command in                   *)
(* src-tauri/src/main.rs), so setDepth commands may take effect in any     *)
(* order, and its events carry its own depth and its default range.        *)
(***************************************************************************)
EXTENDS Integers

CONSTANTS
    Depths,    \* disclosure depths
    Ranges,    \* time ranges of the monitoring screen
    MaxFails,  \* bound: queries that fail
    MaxOld     \* bound: registrations of ended effects not yet resolved

ASSUME LiveConstants ==
    /\ Depths # {} /\ "none" \notin Depths
    /\ Ranges # {} /\ Ranges \cap {"none", "default"} = {}
    /\ MaxFails \in Nat
    /\ MaxOld \in Nat

VARIABLES
    tauri,         \* inTauri(): the desktop shell, or a browser over HTTP
    mounted,       \* the Shell component is mounted (it is not after a render error)
    depth,         \* the disclosure depth of the UI
    depthCommands, \* setDepth commands on their way
    engineDepth,   \* the depth the shell projects its events at
    range,         \* the preferred time range
    run,           \* the refresh in flight, or NoRun
    refreshing,    \* isRefreshing
    pending,       \* pendingRefresh
    activeDepth,   \* activeDepth
    feedDepth,     \* depth of the cards in the store
    monitorRange,  \* range of the snapshot in the store
    failed,        \* the store's error is set
    listener,      \* the current effect's event listener
    oldListeners,  \* registered by ended effects, not yet removed
    fails

liveVars == <<tauri, mounted, depth, depthCommands, engineDepth, range, run, refreshing,
              pending, activeDepth, feedDepth, monitorRange, failed, listener,
              oldListeners, fails>>

\* A run belongs to the current effect, to an ended one (its cancelled() answers true)
\* or to triggerLiveRefresh, which nothing cancels.
NoRun == [owner |-> "none", depth |-> "none", range |-> "none",
          feed |-> "none", monitor |-> "none"]
Launch(owner, d) == [owner |-> owner, depth |-> d, range |-> range',
                     feed |-> "wait", monitor |-> "wait"]

\* Mutants: an ended effect does not cancel its run; a failed query holds it for ever.
NeverCancelled == FALSE
OnlySuccesses == run.feed = "ok" /\ run.monitor = "ok"
Cancelled == run.owner = "ended"
Settled == run.feed # "wait" /\ run.monitor # "wait"

\* Mutant: only the refresh that starts at once takes the depth over.
DepthOfTheStarted(owner, d, current) ==
    /\ activeDepth' = IF refreshing THEN activeDepth ELSE d
    /\ IF refreshing
       THEN pending' = TRUE /\ run' = current /\ UNCHANGED refreshing
       ELSE run' = Launch(owner, d) /\ refreshing' = TRUE /\ UNCHANGED pending

\* refresh(): while a refresh is in flight it only asks for another one.
Refresh(owner, d, current) ==
    /\ activeDepth' = d
    /\ IF refreshing
       THEN pending' = TRUE /\ run' = current /\ UNCHANGED refreshing
       ELSE run' = Launch(owner, d) /\ refreshing' = TRUE /\ UNCHANGED pending

LiveInit ==
    /\ tauri \in BOOLEAN
    /\ mounted = TRUE
    /\ depth \in Depths
    /\ depthCommands = {depth}
    /\ engineDepth \in Depths
    /\ range \in Ranges
    /\ run = [owner |-> "effect", depth |-> depth, range |-> range,
              feed |-> "wait", monitor |-> "wait"]
    /\ refreshing = TRUE
    /\ pending = FALSE
    /\ activeDepth = depth
    /\ feedDepth = "none"
    /\ monitorRange = "none"
    /\ failed = FALSE
    /\ listener = IF tauri THEN "importing" ELSE "off"
    /\ oldListeners = 0
    /\ fails = 0

storeUnchanged == UNCHANGED <<feedDepth, monitorRange, failed>>
depthUnchanged == UNCHANGED <<depth, depthCommands, engineDepth>>
listenerUnchanged == UNCHANGED <<listener, oldListeners>>

\* setInterval: the poll of the mounted effect.
Poll ==
    /\ mounted
    /\ UNCHANGED range
    /\ Refresh("effect", depth, run)
    /\ UNCHANGED <<tauri, mounted, fails>> /\ depthUnchanged /\ storeUnchanged /\ listenerUnchanged

\* The monitoring screen stores another time range and triggers a refresh.
SetTimeRange(r) ==
    /\ mounted
    /\ range' = r
    /\ Refresh("trigger", activeDepth, run)
    /\ UNCHANGED <<tauri, mounted, fails>> /\ depthUnchanged /\ storeUnchanged /\ listenerUnchanged

\* The cleanup of the effect: its run is cancelled, its listeners are removed, or
\* will be once their registration resolves.
EndedRun == IF run.owner = "effect" THEN [run EXCEPT !.owner = "ended"] ELSE run
OldAfterCleanup == IF listener = "registered" THEN oldListeners + 1 ELSE oldListeners

\* setDepth: the depth is sent to the engine and the effect starts again.
SetDepth(d) ==
    /\ mounted /\ d # depth
    /\ OldAfterCleanup <= MaxOld
    /\ depth' = d
    /\ depthCommands' = depthCommands \cup {d}
    /\ oldListeners' = OldAfterCleanup
    /\ listener' = IF tauri THEN "importing" ELSE "off"
    /\ UNCHANGED range
    /\ Refresh("effect", d, EndedRun)
    /\ UNCHANGED <<tauri, mounted, engineDepth, fails>> /\ storeUnchanged

\* A render error: the boundary unmounts the shell; Retry Screen mounts it again.
RenderError ==
    /\ mounted
    /\ OldAfterCleanup <= MaxOld
    /\ mounted' = FALSE
    /\ run' = EndedRun
    /\ oldListeners' = OldAfterCleanup
    /\ listener' = "off"
    /\ UNCHANGED <<tauri, range, refreshing, pending, activeDepth, fails>>
    /\ depthUnchanged /\ storeUnchanged

RetryScreen ==
    /\ ~mounted
    /\ mounted' = TRUE
    /\ listener' = IF tauri THEN "importing" ELSE "off"
    /\ UNCHANGED range
    /\ Refresh("effect", depth, run)
    /\ UNCHANGED <<tauri, oldListeners, fails>> /\ depthUnchanged /\ storeUnchanged

\* The two queries of a run are answered independently of each other.
AnswerFeed(ok) ==
    /\ run.feed = "wait"
    /\ ok \/ fails < MaxFails
    /\ run' = [run EXCEPT !.feed = IF ok THEN "ok" ELSE "failed"]
    /\ fails' = IF ok THEN fails ELSE fails + 1
    /\ UNCHANGED <<tauri, mounted, range, refreshing, pending, activeDepth>>
    /\ depthUnchanged /\ storeUnchanged /\ listenerUnchanged

AnswerMonitor(ok) ==
    /\ run.monitor = "wait"
    /\ ok \/ fails < MaxFails
    /\ run' = [run EXCEPT !.monitor = IF ok THEN "ok" ELSE "failed"]
    /\ fails' = IF ok THEN fails ELSE fails + 1
    /\ UNCHANGED <<tauri, mounted, range, refreshing, pending, activeDepth>>
    /\ depthUnchanged /\ storeUnchanged /\ listenerUnchanged

\* allSettled: a run that is not cancelled stores what it has, one transition for
\* cards, snapshot and error; only the desktop shell reports an error.
StoreRun ==
    LET errored == tauri /\ "failed" \in {run.feed, run.monitor}
    IN IF Cancelled THEN storeUnchanged
       ELSE /\ feedDepth' = IF run.feed = "ok" THEN run.depth ELSE feedDepth
            /\ monitorRange' = IF run.monitor = "ok" THEN run.range ELSE monitorRange
            /\ failed' = IF "ok" \in {run.feed, run.monitor} THEN errored ELSE failed \/ errored

\* The finally block: a refresh asked for meanwhile starts, unless this one was
\* cancelled; then it is left to the next poll.
FinishRun ==
    /\ refreshing /\ Settled
    /\ StoreRun
    /\ UNCHANGED range
    /\ IF pending /\ ~Cancelled
       THEN pending' = FALSE /\ run' = Launch(run.owner, activeDepth) /\ refreshing' = TRUE
       ELSE run' = NoRun /\ refreshing' = FALSE /\ UNCHANGED pending
    /\ UNCHANGED <<tauri, mounted, activeDepth, fails>> /\ depthUnchanged /\ listenerUnchanged

\* listen(): imported, registered with the shell, resolved; an ended effect gives its
\* registration back when it resolves.
ListenStep ==
    /\ listener \in {"importing", "registered"}
    /\ listener' = IF listener = "importing" THEN "registered" ELSE "on"
    /\ UNCHANGED <<tauri, mounted, range, run, refreshing, pending, activeDepth, oldListeners, fails>>
    /\ depthUnchanged /\ storeUnchanged

\* Mutant: a registration is given back again.
RemovedAgain ==
    /\ oldListeners' = oldListeners - 1
    /\ UNCHANGED <<tauri, mounted, range, run, refreshing, pending, activeDepth, listener, fails>>
    /\ depthUnchanged /\ storeUnchanged

OldListenerRemoved ==
    /\ oldListeners > 0
    /\ oldListeners' = oldListeners - 1
    /\ UNCHANGED <<tauri, mounted, range, run, refreshing, pending, activeDepth, listener, fails>>
    /\ depthUnchanged /\ storeUnchanged

Listening == listener \in {"registered", "on"} \/ oldListeners > 0

\* A feed-delta or monitor-snapshot event.
LiveEvent ==
    /\ Listening
    /\ \/ feedDepth' = engineDepth /\ UNCHANGED monitorRange
       \/ monitorRange' = "default" /\ UNCHANGED feedDepth
    /\ UNCHANGED <<tauri, mounted, range, run, refreshing, pending, activeDepth, failed, fails>>
    /\ depthUnchanged /\ listenerUnchanged

\* The shell executes a setDepth command.
DepthCommand(d) ==
    /\ d \in depthCommands
    /\ engineDepth' = d
    /\ depthCommands' = depthCommands \ {d}
    /\ UNCHANGED <<tauri, mounted, depth, range, run, refreshing, pending, activeDepth, fails>>
    /\ storeUnchanged /\ listenerUnchanged

LiveNext ==
    \/ Poll
    \/ \E r \in Ranges : SetTimeRange(r)
    \/ \E d \in Depths : SetDepth(d) \/ DepthCommand(d)
    \/ RenderError \/ RetryScreen
    \/ \E ok \in BOOLEAN : AnswerFeed(ok) \/ AnswerMonitor(ok)
    \/ FinishRun
    \/ ListenStep \/ OldListenerRemoved \/ LiveEvent

\* The timer ticks, promises are settled and the shell runs its commands.  Nothing is
\* assumed of the user or of the live events.
LiveFairness ==
    /\ WF_liveVars(Poll)
    /\ WF_liveVars(AnswerFeed(TRUE) \/ AnswerFeed(FALSE))
    /\ WF_liveVars(AnswerMonitor(TRUE) \/ AnswerMonitor(FALSE))
    /\ WF_liveVars(FinishRun)
    /\ WF_liveVars(ListenStep)
    /\ WF_liveVars(OldListenerRemoved)

LiveSpec == LiveInit /\ [][LiveNext]_liveVars /\ LiveFairness

-----------------------------------------------------------------------------
LiveTypeOK ==
    /\ tauri \in BOOLEAN /\ mounted \in BOOLEAN
    /\ depth \in Depths /\ engineDepth \in Depths /\ depthCommands \subseteq Depths
    /\ range \in Ranges
    /\ run \in {NoRun} \cup
         [owner : {"effect", "ended", "trigger"}, depth : Depths, range : Ranges,
          feed : {"wait", "ok", "failed"}, monitor : {"wait", "ok", "failed"}]
    /\ refreshing \in BOOLEAN /\ pending \in BOOLEAN
    /\ activeDepth \in Depths
    /\ feedDepth \in Depths \cup {"none"}
    /\ monitorRange \in Ranges \cup {"none", "default"}
    /\ failed \in BOOLEAN
    /\ listener \in {"off", "importing", "registered", "on"}
    /\ oldListeners \in 0 .. MaxOld
    /\ fails \in 0 .. MaxFails

\* isRefreshing is set exactly while a refresh is in flight, through cancellation,
\* failure, relaunch and remount: were it ever left set, no poll would run again.
FlagFollowsRun == refreshing <=> run.owner # "none"

\* Whatever is triggered or polled is at the depth of the UI: a run of the current
\* effect never asks for another depth, and neither does the next refresh.
RefreshAtUiDepth ==
    /\ run.owner = "effect" => run.depth = depth
    /\ activeDepth = depth

\* Once its effect has ended, a run changes nothing in the store: what it was asked
\* for is not what is shown any more.
EndedRunIsSilent ==
    [][run.owner = "ended" /\ run' # run =>
          UNCHANGED <<feedDepth, monitorRange, failed>>]_liveVars

\* Once the user leaves the depth alone, a refresh asked for while another was in
\* flight is made, also when the run it waited for was cancelled: the request is left
\* to the next poll, never dropped.
RequestedRefreshRuns ==
    \A d \in Depths : <>[](mounted /\ depth = d) => []<>(~pending)

\* If the user settles on a depth and the shell has taken it over, the feed settles on
\* cards of that depth, whatever was in flight before.
FeedSettlesOnDepth ==
    \A d \in Depths :
        <>[](mounted /\ depth = d /\ (tauri => engineDepth = d)) => <>[](feedDepth = d)

\* If the user settles on a time range (and leaves the depth alone), its snapshot is
\* shown again and again; in the browser, where no event interferes, it stays.
MonitorSettlesOnRange ==
    \A r \in Ranges, d \in Depths :
        <>[](mounted /\ range = r /\ depth = d) =>
            /\ []<>(monitorRange = r)
            /\ <>[](monitorRange = r \/ (tauri /\ monitorRange = "default"))

\* An effect that ended takes no event for ever: its registration is given back.
OldListenersGo == []<>(oldListeners = 0)

\* A refresh is what the flag and the depth say it is.
RefreshIsHonest == FlagFollowsRun /\ RefreshAtUiDepth

\* When the user leaves it alone, the pump settles: requests are served, the shown
\* data are those asked for, and nothing of ended effects stays registered.
LiveSettles ==
    /\ RequestedRefreshRuns
    /\ FeedSettlesOnDepth
    /\ MonitorSettlesOnRange
    /\ OldListenersGo
=============================================================================
