---------------------------- MODULE LiveDataProofs ----------------------------
(***************************************************************************)
(* What holds of the data pump for any set of depths and ranges, and any   *)
(* bounds: its type, that the flag isRefreshing is set exactly while a     *)
(* refresh is in flight, that refreshes are at the depth of the UI, and    *)
(* that a run whose effect has ended leaves the store alone.  The          *)
(* invariant is inductive as it stands.                                    *)
(***************************************************************************)
EXTENDS LiveData, TLAPS

Runs == [owner : {"effect", "ended", "trigger"}, depth : Depths, range : Ranges,
         feed : {"wait", "ok", "failed"}, monitor : {"wait", "ok", "failed"}]

LiveInv == LiveTypeOK /\ RefreshIsHonest

\* A run that is launched is one of the runs, as long as its owner and its depth are.
LEMMA LaunchType ==
    ASSUME LiveTypeOK, UNCHANGED range,
           NEW owner \in {"effect", "ended", "trigger"}, NEW d \in Depths
    PROVE  /\ Launch(owner, d) \in Runs
           /\ Launch(owner, d).owner = owner /\ Launch(owner, d).depth = d
  BY DEF LiveTypeOK, Launch, Runs

\* NoRun is told from a run by its owner.
LEMMA RunType ==
    ASSUME LiveTypeOK
    PROVE  /\ run = NoRun \/ run \in Runs
           /\ run.owner = "none" <=> run = NoRun
           /\ run \in Runs <=> run.owner # "none"
  BY DEF LiveTypeOK, NoRun, Runs

\* What refresh() leaves behind, given the run an effect's cleanup left (useLiveData.ts:39).
LEMMA RefreshKeeps ==
    ASSUME LiveInv, LiveConstants, UNCHANGED range, NEW owner \in {"effect", "trigger"}, NEW d \in Depths,
           NEW current, Refresh(owner, d, current),
           current \in {NoRun} \cup Runs, current.owner # "none" <=> run.owner # "none",
           current.owner = "effect" => current.depth = d
    PROVE  /\ run' \in {NoRun} \cup Runs /\ refreshing' \in BOOLEAN /\ pending' \in BOOLEAN
           /\ activeDepth' = d
           /\ refreshing' <=> run'.owner # "none"
           /\ run'.owner = "effect" => run'.depth = d
  <1>1. CASE refreshing
    BY <1>1 DEF LiveInv, RefreshIsHonest, FlagFollowsRun, Refresh, LiveTypeOK
  <1>2. CASE ~refreshing
    <2>1. run' = Launch(owner, d) /\ refreshing' = TRUE /\ pending' = pending /\ activeDepth' = d
      BY <1>2 DEF Refresh
    <2>2. run' \in Runs /\ run'.owner = owner /\ run'.depth = d
      BY <2>1, LaunchType DEF LiveInv
    <2> QED BY <2>1, <2>2 DEF LiveInv, LiveTypeOK
  <1> QED BY <1>1, <1>2

\* The effect's cleanup leaves a run that is no longer the effect's (useLiveData.ts:126).
LEMMA EndedRunType ==
    ASSUME LiveTypeOK
    PROVE  /\ EndedRun \in {NoRun} \cup Runs
           /\ EndedRun.owner # "effect"
           /\ EndedRun.owner # "none" <=> run.owner # "none"
  <1>1. CASE run = NoRun
    BY <1>1 DEF EndedRun, NoRun
  <1>2. CASE run \in Runs
    BY <1>2 DEF EndedRun, Runs
  <1> QED BY <1>1, <1>2, RunType

LEMMA Start == ASSUME LiveConstants, LiveInit PROVE LiveInv
  <1>1. run \in Runs /\ run.owner = "effect" /\ run.depth = depth
    BY DEF LiveInit, Runs
  <1>2. 0 \in 0 .. MaxOld /\ 0 \in 0 .. MaxFails
    BY DEF LiveConstants
  <1>3. listener \in {"off", "importing", "registered", "on"}
    BY DEF LiveInit
  <1>4. LiveTypeOK
    BY <1>1, <1>2, <1>3 DEF LiveInit, LiveTypeOK, Runs
  <1>5. RefreshIsHonest
    BY <1>1 DEF LiveInit, RefreshIsHonest, FlagFollowsRun, RefreshAtUiDepth
  <1> QED BY <1>4, <1>5 DEF LiveInv

\* Each step keeps the invariant: the four that refresh by RefreshKeeps, the others by themselves.
LEMMA Step == ASSUME LiveConstants, LiveInv, [LiveNext]_liveVars PROVE LiveInv'
  <1> USE DEF LiveInv
  <1> DEFINE Rest == /\ tauri' \in BOOLEAN /\ mounted' \in BOOLEAN
                     /\ depth' \in Depths /\ engineDepth' \in Depths /\ depthCommands' \subseteq Depths
                     /\ range' \in Ranges
                     /\ feedDepth' \in Depths \cup {"none"}
                     /\ monitorRange' \in Ranges \cup {"none", "default"}
                     /\ failed' \in BOOLEAN
                     /\ listener' \in {"off", "importing", "registered", "on"}
                     /\ oldListeners' \in 0 .. MaxOld /\ fails' \in 0 .. MaxFails
             Flight == /\ run' \in {NoRun} \cup Runs /\ refreshing' \in BOOLEAN /\ pending' \in BOOLEAN
                       /\ activeDepth' = depth'
                       /\ refreshing' <=> run'.owner # "none"
                       /\ run'.owner = "effect" => run'.depth = depth'
  <1>a. ASSUME Rest, Flight PROVE LiveInv'
    <2>1. LiveTypeOK'
      BY <1>a DEF LiveTypeOK, Runs
    <2>2. RefreshIsHonest'
      BY <1>a DEF RefreshIsHonest, FlagFollowsRun, RefreshAtUiDepth
    <2> QED BY <2>1, <2>2
  <1>b. ASSUME UNCHANGED <<run, refreshing, pending, activeDepth, depth>> PROVE Flight
    BY <1>b, RunType DEF LiveTypeOK, RefreshIsHonest, FlagFollowsRun, RefreshAtUiDepth
  <1>1. CASE Poll
    <2>1. Rest
      BY <1>1 DEF Poll, LiveTypeOK, depthUnchanged, storeUnchanged, listenerUnchanged
    <2>2. run.owner = "effect" => run.depth = depth
      BY DEF RefreshIsHonest, RefreshAtUiDepth
    <2>3. depth \in Depths /\ run \in {NoRun} \cup Runs
      BY RunType DEF LiveTypeOK
    <2>4. UNCHANGED <<range, depth>> /\ Refresh("effect", depth, run)
      BY <1>1 DEF Poll, depthUnchanged
    <2>5. Flight
      BY <2>2, <2>3, <2>4, RefreshKeeps
    <2> QED BY <1>a, <2>1, <2>5
  <1>2. ASSUME NEW r \in Ranges, SetTimeRange(r) PROVE LiveInv'
    <2>1. Rest
      BY <1>2 DEF SetTimeRange, LiveTypeOK, depthUnchanged, storeUnchanged, listenerUnchanged
    <2>2. activeDepth = depth /\ depth \in Depths /\ UNCHANGED depth
      BY <1>2 DEF RefreshIsHonest, RefreshAtUiDepth, LiveTypeOK, SetTimeRange, depthUnchanged
    <2>3. run \in {NoRun} \cup Runs
      BY RunType
    <2>4. Refresh("trigger", activeDepth, run)
      BY <1>2 DEF SetTimeRange
    <2>5. CASE refreshing
      BY <1>a, <2>1, <2>2, <2>3, <2>4, <2>5
         DEF Refresh, RefreshIsHonest, FlagFollowsRun, RefreshAtUiDepth, LiveTypeOK
    <2>6. CASE ~refreshing
      <3>1. run' = [owner |-> "trigger", depth |-> activeDepth, range |-> range',
                    feed |-> "wait", monitor |-> "wait"]
            /\ refreshing' = TRUE /\ pending' = pending /\ activeDepth' = activeDepth
        BY <2>4, <2>6 DEF Refresh, Launch
      <3>2. run' \in Runs /\ run'.owner = "trigger"
        BY <2>1, <2>2, <3>1 DEF Runs
      <3> QED BY <1>a, <2>1, <2>2, <3>1, <3>2 DEF LiveTypeOK
    <2> QED BY <2>5, <2>6
  <1>3. ASSUME NEW d \in Depths, SetDepth(d) PROVE LiveInv'
    <2>1. OldAfterCleanup \in 0 .. MaxOld
      BY <1>3 DEF SetDepth, OldAfterCleanup, LiveTypeOK, LiveConstants
    <2>2. Rest
      BY <1>3, <2>1 DEF SetDepth, LiveTypeOK, storeUnchanged
    <2>3. UNCHANGED range /\ depth' = d /\ Refresh("effect", d, EndedRun)
      BY <1>3 DEF SetDepth
    <2>4. Flight
      BY <2>3, EndedRunType, RefreshKeeps
    <2> QED BY <1>a, <2>2, <2>4
  <1>4. ASSUME NEW d \in Depths, DepthCommand(d) PROVE LiveInv'
    <2>1. Rest
      BY <1>4 DEF DepthCommand, LiveTypeOK, storeUnchanged, listenerUnchanged
    <2>2. Flight
      BY <1>4, <1>b DEF DepthCommand
    <2> QED BY <1>a, <2>1, <2>2
  <1>5. CASE RenderError
    <2>1. OldAfterCleanup \in 0 .. MaxOld
      BY <1>5 DEF RenderError, OldAfterCleanup, LiveTypeOK, LiveConstants
    <2>2. Rest
      BY <1>5, <2>1 DEF RenderError, LiveTypeOK, depthUnchanged, storeUnchanged
    <2>3. run' = EndedRun /\ UNCHANGED <<refreshing, pending, activeDepth, depth>>
      BY <1>5 DEF RenderError, depthUnchanged
    <2>4. Flight
      BY <2>3, EndedRunType DEF LiveTypeOK, RefreshIsHonest, FlagFollowsRun, RefreshAtUiDepth
    <2> QED BY <1>a, <2>2, <2>4
  <1>6. CASE RetryScreen
    <2>1. Rest
      BY <1>6 DEF RetryScreen, LiveTypeOK, depthUnchanged, storeUnchanged
    <2>2. run.owner = "effect" => run.depth = depth
      BY DEF RefreshIsHonest, RefreshAtUiDepth
    <2>3. depth \in Depths /\ run \in {NoRun} \cup Runs
      BY RunType DEF LiveTypeOK
    <2>4. UNCHANGED <<range, depth>> /\ Refresh("effect", depth, run)
      BY <1>6 DEF RetryScreen, depthUnchanged
    <2>5. Flight
      BY <2>2, <2>3, <2>4, RefreshKeeps
    <2> QED BY <1>a, <2>1, <2>5
  <1>7. ASSUME NEW ok \in BOOLEAN, AnswerFeed(ok) \/ AnswerMonitor(ok) PROVE LiveInv'
    <2>1. fails' \in 0 .. MaxFails
      BY <1>7 DEF AnswerFeed, AnswerMonitor, LiveTypeOK, LiveConstants
    <2>2. Rest
      BY <1>7, <2>1 DEF AnswerFeed, AnswerMonitor, LiveTypeOK, depthUnchanged,
                        storeUnchanged, listenerUnchanged
    <2>3. run \in Runs
      BY <1>7, RunType DEF AnswerFeed, AnswerMonitor, NoRun
    <2>4. run' \in Runs /\ run'.owner = run.owner /\ run'.depth = run.depth
      BY <1>7, <2>3 DEF AnswerFeed, AnswerMonitor, Runs
    <2>5. UNCHANGED <<refreshing, pending, activeDepth, depth>>
      BY <1>7 DEF AnswerFeed, AnswerMonitor, depthUnchanged
    <2>6. Flight
      BY <2>4, <2>5 DEF LiveTypeOK, RefreshIsHonest, FlagFollowsRun, RefreshAtUiDepth
    <2> QED BY <1>a, <2>2, <2>6
  <1>8. CASE FinishRun
    <2>1. run \in Runs
      BY <1>8, RunType DEF FinishRun, RefreshIsHonest, FlagFollowsRun
    <2>2. /\ feedDepth' \in Depths \cup {"none"}
          /\ monitorRange' \in Ranges \cup {"none", "default"}
          /\ failed' \in BOOLEAN
      BY <1>8, <2>1 DEF FinishRun, StoreRun, storeUnchanged, LiveTypeOK, Runs
    <2>3. Rest
      BY <1>8, <2>2 DEF FinishRun, LiveTypeOK, depthUnchanged, listenerUnchanged
    <2>4. UNCHANGED <<activeDepth, depth, range>> /\ activeDepth = depth
      BY <1>8 DEF FinishRun, depthUnchanged, RefreshIsHonest, RefreshAtUiDepth
    <2>5. CASE pending /\ ~Cancelled
      <3>1. run.owner \in {"effect", "ended", "trigger"} /\ activeDepth \in Depths
        BY <2>1 DEF Runs, LiveTypeOK
      <3>2. /\ Launch(run.owner, activeDepth) \in Runs
            /\ Launch(run.owner, activeDepth).owner = run.owner
            /\ Launch(run.owner, activeDepth).depth = activeDepth
        BY <2>4, <3>1, LaunchType
      <3>3. run' = Launch(run.owner, activeDepth) /\ pending' = FALSE /\ refreshing' = TRUE
        BY <1>8, <2>5 DEF FinishRun
      <3>4. Flight
        BY <2>4, <3>1, <3>2, <3>3
      <3> QED BY <1>a, <2>3, <3>4
    <2>6. CASE ~(pending /\ ~Cancelled)
      <3>1. run' = NoRun /\ refreshing' = FALSE /\ UNCHANGED pending
        BY <1>8, <2>6 DEF FinishRun
      <3>2. Flight
        BY <2>4, <3>1 DEF NoRun, LiveTypeOK
      <3> QED BY <1>a, <2>3, <3>2
    <2> QED BY <2>5, <2>6
  <1>9. CASE ListenStep \/ OldListenerRemoved \/ LiveEvent
    <2>1. oldListeners' \in 0 .. MaxOld /\ listener' \in {"off", "importing", "registered", "on"}
      BY <1>9 DEF ListenStep, OldListenerRemoved, LiveEvent, listenerUnchanged, LiveTypeOK,
                  LiveConstants
    <2>2. Rest
      BY <1>9, <2>1 DEF ListenStep, OldListenerRemoved, LiveEvent, LiveTypeOK, depthUnchanged,
                        storeUnchanged
    <2>3. Flight
      BY <1>9, <1>b DEF ListenStep, OldListenerRemoved, LiveEvent, depthUnchanged
    <2> QED BY <1>a, <2>2, <2>3
  <1>10. CASE UNCHANGED liveVars
    BY <1>10 DEF liveVars, LiveTypeOK, RefreshIsHonest, FlagFollowsRun, RefreshAtUiDepth
  <1> QED BY <1>1, <1>2, <1>3, <1>4, <1>5, <1>6, <1>7, <1>8, <1>9, <1>10 DEF LiveNext

\* A run whose effect has ended is only answered, or ends without storing anything: the
\* flag it holds keeps every other refresh from replacing it.
LEMMA SilentStep ==
    ASSUME LiveInv, [LiveNext]_liveVars, run.owner = "ended", run' # run
    PROVE  UNCHANGED <<feedDepth, monitorRange, failed>>
  <1>1. refreshing /\ run.owner # "effect" /\ EndedRun = run
    BY DEF LiveInv, RefreshIsHonest, FlagFollowsRun, EndedRun
  <1>2. ASSUME NEW owner, NEW d, Refresh(owner, d, run) PROVE FALSE
    BY <1>1, <1>2 DEF Refresh
  <1>3. ~Poll /\ ~RetryScreen /\ ~RenderError
    BY <1>1, <1>2 DEF Poll, RetryScreen, RenderError
  <1>4. \A r \in Ranges : ~SetTimeRange(r)
    BY <1>2 DEF SetTimeRange
  <1>5. \A d \in Depths : ~SetDepth(d) /\ ~DepthCommand(d)
    BY <1>1, <1>2 DEF SetDepth, DepthCommand
  <1>6. ~ListenStep /\ ~OldListenerRemoved /\ ~LiveEvent
    BY DEF ListenStep, OldListenerRemoved, LiveEvent
  <1>7. ASSUME NEW ok \in BOOLEAN, AnswerFeed(ok) \/ AnswerMonitor(ok)
        PROVE  UNCHANGED <<feedDepth, monitorRange, failed>>
    BY <1>7 DEF AnswerFeed, AnswerMonitor, storeUnchanged
  <1>8. CASE FinishRun
    BY <1>8 DEF FinishRun, StoreRun, Cancelled, storeUnchanged
  <1> QED BY <1>3, <1>4, <1>5, <1>6, <1>7, <1>8 DEF LiveNext, liveVars

\* Every state of the pump has its invariant, for any depths, ranges and bounds.
THEOREM LiveInvariant == LiveSpec => []LiveInv
  <1>1. LiveInit => LiveInv
    BY Start, LiveConstants
  <1>2. LiveInv /\ [LiveNext]_liveVars => LiveInv'
    BY Step, LiveConstants
  <1> QED BY <1>1, <1>2, PTL DEF LiveSpec

\* The variables of the pump keep their types through every effect, answer, cancellation
\* and remount (useLiveData.ts, LiveDataStore.ts).
THEOREM LiveTypes == LiveSpec => []LiveTypeOK
  <1>1. LiveInv => LiveTypeOK
    BY DEF LiveInv
  <1> QED BY <1>1, LiveInvariant, PTL

\* isRefreshing is set exactly while a refresh is in flight, so no cancellation, failure,
\* relaunch or remount can leave it set with nobody to clear it; and what is asked for is
\* at the depth the user sees (useLiveData.ts:39-99).
THEOREM RefreshStaysHonest == LiveSpec => []RefreshIsHonest
  <1>1. LiveInv => RefreshIsHonest
    BY DEF LiveInv
  <1> QED BY <1>1, LiveInvariant, PTL

\* The answers of a refresh whose effect has ended never reach the store, however late
\* they are (useLiveData.ts:52, the cancelled() test).
THEOREM EndedRunStaysSilent == LiveSpec => EndedRunIsSilent
  <1>1. LiveInv /\ [LiveNext]_liveVars =>
          [run.owner = "ended" /\ run' # run => UNCHANGED <<feedDepth, monitorRange, failed>>]_liveVars
    BY SilentStep
  <1> QED BY <1>1, LiveInvariant, PTL DEF LiveSpec, EndedRunIsSilent
===============================================================================
