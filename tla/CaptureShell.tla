---------------------------- MODULE CaptureShell ----------------------------
(***************************************************************************)
(* The desktop shell's capture lifecycle (src-tauri/src/main.rs and ipc/): *)
(* callers that start and stop captures, change the depth, poll the        *)
(* monitor and shut the shell down, on threads of their own, and the       *)
(* capture threads that run live_loop.                                     *)
(*                                                                         *)
(* Abstractions:                                                           *)
(*  - of the mutexes, capture, app_handle and store are kept.  stats, depth*)
(*    and correlator are taken alone for one access or under store's lock, *)
(*    so nobody waits for one of them who would not wait for store;        *)
(*  - a section that takes one of the kept locks only is one step;         *)
(*  - frames are "none", "new" (not committed) or "stored";                *)
(*  - a duration is a step that may happen at any moment it is awaited;    *)
(*  - the store starts empty, and the UI's app_handle is set.              *)
(***************************************************************************)
EXTENDS Naturals, FiniteSets

CONSTANTS
    Callers,      \* threads that execute commands and queries
    MaxCaptures   \* bound: capture threads ever spawned

Nobody == "nobody"   \* no caller

ASSUME ShellAssumption ==
    /\ Callers # {} /\ Nobody \notin Callers
    /\ MaxCaptures \in Nat

VARIABLES
    capture,        \* AppState::capture: the capture whose control is there, 0 for None
    holder,         \* holder[l]: who holds lock l, if anyone
    durable,        \* the store has its durable mirror
    shutting_down,
    spawned,        \* capture threads spawned so far
    thread,         \* phase of each capture thread
    stop,           \* stop[g]: the stop flag of capture g
    frames,         \* frames[g]: what the pipeline of capture g has
    pc,             \* pc[c]: where caller c is in the call it makes
    ctrl,           \* ctrl[c]: the capture c starts, or whose control it took
    running,        \* running[c]: the capture_running caller c has read
    in_shutdown,    \* in_shutdown[c]: the call of c is shutdown()
    filled,         \* the store has sessions, stats has received frames
    told,           \* telemetry state of the last monitor snapshot made for the UI
    \* History.
    stopped,        \* captures whose stop returned Ok
    overwritten     \* captures over whose control a timed-out stop put its own

locks   == <<capture, holder>>
threads == <<spawned, thread, stop, frames>>
calls   == <<pc, ctrl, running, in_shutdown>>
history == <<stopped, overwritten>>
vars == <<locks, durable, shutting_down, threads, calls, filled, told, history>>

Captures == 1 .. MaxCaptures
Locks == {"capture", "app_handle", "store"}

Phases == {"idle", "start_handle", "start_spawn", "start_wait", "stop_take",
           "stop_wait", "stop_put_back", "stop_handle", "stop_store", "stop_read",
           "depth_read", "depth_emit", "query_read", "shut_look", "shut_store"}
ThreadPhases == {"none", "opening", "failed", "running", "committed", "finishing",
                 "draining", "emitting", "exited", "panicked"}

Init ==
    /\ capture = 0
    /\ holder = [l \in Locks |-> Nobody]
    /\ durable = TRUE
    /\ shutting_down = FALSE
    /\ spawned = 0
    /\ thread = [g \in Captures |-> "none"]
    /\ stop = [g \in Captures |-> FALSE]
    /\ frames = [g \in Captures |-> "none"]
    /\ pc = [c \in Callers |-> "idle"]
    /\ ctrl = [c \in Callers |-> 0]
    /\ running = [c \in Callers |-> FALSE]
    /\ in_shutdown = [c \in Callers |-> FALSE]
    /\ filled = FALSE
    /\ told = "none"
    /\ stopped = {}
    /\ overwritten = {}

Free(l) == holder[l] = Nobody
\* evaluate_telemetry_state: Active and Stale are both "live".
Telemetry(capture_running, seen) == IF capture_running /\ seen THEN "live" ELSE "standby"
Goto(c, from, to) ==
    /\ pc[c] = from
    /\ pc' = [pc EXCEPT ![c] = to]
\* The capture part of a call is over: shutdown() goes on with the storage.
After(c) == IF in_shutdown[c] THEN "shut_store" ELSE "idle"
Over(g) == thread[g] \in {"exited", "panicked"}

-----------------------------------------------------------------------------
(* start_capture: the capture lock is held throughout.                     *)

StartCalled(c) ==
    /\ Free("capture")
    /\ capture = 0
    /\ spawned < MaxCaptures
    /\ Goto(c, "idle", "start_handle")
    /\ holder' = [holder EXCEPT !["capture"] = c]
    /\ UNCHANGED <<capture, durable, shutting_down, threads, ctrl, running, in_shutdown,
                   filled, told, history>>

StartClonesHandle(c) ==
    /\ Free("app_handle")
    /\ Goto(c, "start_handle", "start_spawn")
    /\ UNCHANGED <<locks, durable, shutting_down, threads, ctrl, running, in_shutdown,
                   filled, told, history>>

StartSpawns(c) ==
    /\ spawned < MaxCaptures
    /\ Goto(c, "start_spawn", "start_wait")
    /\ spawned' = spawned + 1
    /\ thread' = [thread EXCEPT ![spawned + 1] = "opening"]
    /\ ctrl' = [ctrl EXCEPT ![c] = spawned + 1]
    /\ UNCHANGED <<locks, durable, shutting_down, stop, frames, running, in_shutdown,
                   filled, told, history>>

StartReturns(c) ==
    /\ Goto(c, "start_wait", "idle")
    /\ \/ thread[ctrl[c]] \notin {"opening", "failed"} /\ capture' = ctrl[c]
       \/ thread[ctrl[c]] = "failed" /\ UNCHANGED capture
    /\ holder' = [holder EXCEPT !["capture"] = Nobody]
    /\ ctrl' = [ctrl EXCEPT ![c] = 0]
    /\ UNCHANGED <<durable, shutting_down, threads, running, in_shutdown, filled, told, history>>

-----------------------------------------------------------------------------
(* stop_capture.                                                           *)

StopCalled(c) ==
    /\ Goto(c, "idle", "stop_take")
    /\ UNCHANGED <<locks, durable, shutting_down, threads, ctrl, running, in_shutdown,
                   filled, told, history>>

StopFindsNone(c) ==
    /\ Free("capture")
    /\ capture = 0
    /\ Goto(c, "stop_take", After(c))
    /\ UNCHANGED <<locks, durable, shutting_down, threads, ctrl, running, in_shutdown,
                   filled, told, history>>

\* Mutant: the control is read instead of taken.
LeftInPlace == capture
TakenOut    == 0

StopTakes(c) ==
    /\ Free("capture")
    /\ capture # 0
    /\ Goto(c, "stop_take", "stop_wait")
    /\ ctrl' = [ctrl EXCEPT ![c] = capture]
    /\ capture' = TakenOut
    /\ stop' = [stop EXCEPT ![capture] = TRUE]
    /\ UNCHANGED <<holder, durable, shutting_down, spawned, thread, frames, running,
                   in_shutdown, filled, told, history>>

\* The completion signal is sent when live_loop is left, by return or panic.
Signalled(g) == Over(g)

StopJoins(c) ==
    /\ Goto(c, "stop_wait", IF thread[ctrl[c]] = "panicked" THEN After(c) ELSE "stop_handle")
    /\ Signalled(ctrl[c])
    /\ stopped' = IF thread[ctrl[c]] = "panicked" THEN stopped ELSE stopped \union {ctrl[c]}
    /\ ctrl' = [ctrl EXCEPT ![c] = 0]
    /\ UNCHANGED <<locks, durable, shutting_down, threads, running, in_shutdown, filled, told,
                   overwritten>>

\* Mutant: the wait has no limit.
WaitsForever(c) == FALSE
WaitEnds(c)     == ~Signalled(ctrl[c])

StopTimesOut(c) ==
    /\ Goto(c, "stop_wait", "stop_put_back")
    /\ WaitEnds(c)
    /\ UNCHANGED <<locks, durable, shutting_down, threads, ctrl, running, in_shutdown,
                   filled, told, history>>

\* Mutant: the control is dropped instead.
Forgotten(c) == 0
PutBack(c)   == ctrl[c]

StopPutsBack(c) ==
    /\ Free("capture")
    /\ Goto(c, "stop_put_back", After(c))
    /\ capture' = PutBack(c)
    /\ overwritten' = overwritten \union ({capture} \ {0})
    /\ ctrl' = [ctrl EXCEPT ![c] = 0]
    /\ UNCHANGED <<holder, durable, shutting_down, threads, running, in_shutdown, filled, told,
                   stopped>>

StopLocksHandle(c) ==
    /\ Free("app_handle")
    /\ Goto(c, "stop_handle", "stop_store")
    /\ holder' = [holder EXCEPT !["app_handle"] = c]
    /\ UNCHANGED <<capture, durable, shutting_down, threads, ctrl, running, in_shutdown,
                   filled, told, history>>

StopLocksStore(c) ==
    /\ Free("store")
    /\ Goto(c, "stop_store", "stop_read")
    /\ holder' = [holder EXCEPT !["store"] = c]
    /\ UNCHANGED <<capture, durable, shutting_down, threads, ctrl, running, in_shutdown,
                   filled, told, history>>

StopEmits(c) ==
    /\ Free("capture")
    /\ Goto(c, "stop_read", After(c))
    /\ told' = "standby"
    /\ holder' = [holder EXCEPT !["app_handle"] = Nobody, !["store"] = Nobody]
    /\ UNCHANGED <<capture, durable, shutting_down, threads, ctrl, running, in_shutdown,
                   filled, history>>

-----------------------------------------------------------------------------
(* Command::SetDepth and Query::MonitorSnapshot.                           *)

DepthCalled(c) ==
    /\ Free("app_handle")
    /\ Goto(c, "idle", "depth_read")
    /\ UNCHANGED <<locks, durable, shutting_down, threads, ctrl, running, in_shutdown,
                   filled, told, history>>

DepthReads(c) ==
    /\ Free("capture")
    /\ Goto(c, "depth_read", "depth_emit")
    /\ running' = [running EXCEPT ![c] = (capture # 0)]
    /\ UNCHANGED <<locks, durable, shutting_down, threads, ctrl, in_shutdown, filled, told, history>>

\* The time of the last batch, which the command does not know.
\* Mutant: it stands for a recent one.
RecentBatch == TRUE
NoBatch     == FALSE

DepthEmits(c) ==
    /\ Free("store")
    /\ Goto(c, "depth_emit", "idle")
    /\ told' = Telemetry(running[c], NoBatch)
    /\ UNCHANGED <<locks, durable, shutting_down, threads, ctrl, running, in_shutdown,
                   filled, history>>

QueryCalled(c) ==
    /\ Free("store")
    /\ Goto(c, "idle", "query_read")
    /\ holder' = [holder EXCEPT !["store"] = c]
    /\ UNCHANGED <<capture, durable, shutting_down, threads, ctrl, running, in_shutdown,
                   filled, told, history>>

QueryReads(c) ==
    /\ Free("capture")
    /\ Goto(c, "query_read", "idle")
    /\ told' = IF capture # 0 /\ filled THEN "live" ELSE "standby"
    /\ holder' = [holder EXCEPT !["store"] = Nobody]
    /\ UNCHANGED <<capture, durable, shutting_down, threads, ctrl, running, in_shutdown,
                   filled, history>>

-----------------------------------------------------------------------------
(* AppState::shutdown, once.                                               *)

ShutdownCalled(c) ==
    /\ ~shutting_down
    /\ Goto(c, "idle", "shut_look")
    /\ shutting_down' = TRUE
    /\ in_shutdown' = [in_shutdown EXCEPT ![c] = TRUE]
    /\ UNCHANGED <<locks, durable, threads, ctrl, running, filled, told, history>>

ShutdownLooks(c) ==
    /\ Free("capture")
    /\ Goto(c, "shut_look", IF capture # 0 THEN "stop_take" ELSE "shut_store")
    /\ UNCHANGED <<locks, durable, shutting_down, threads, ctrl, running, in_shutdown,
                   filled, told, history>>

\* Flush, then stop and drop the mirror, under the store's lock.
ShutdownStorage(c) ==
    /\ Free("store")
    /\ Goto(c, "shut_store", "idle")
    /\ durable' = FALSE
    /\ in_shutdown' = [in_shutdown EXCEPT ![c] = FALSE]
    /\ UNCHANGED <<locks, shutting_down, threads, ctrl, running, filled, told, history>>

-----------------------------------------------------------------------------
(* The capture thread: open_capture, then live_loop.                       *)

Opens(g) ==
    /\ thread[g] = "opening"
    /\ \E outcome \in {"running", "failed"} : thread' = [thread EXCEPT ![g] = outcome]
    /\ UNCHANGED <<locks, durable, shutting_down, spawned, stop, frames, calls, filled, told, history>>

ReadsFrames(g) ==
    /\ thread[g] = "running"
    /\ frames' = [frames EXCEPT ![g] = "new"]
    /\ UNCHANGED <<locks, durable, shutting_down, spawned, thread, stop, calls, filled, told, history>>

\* Mutant: what could not be committed is dropped.
Dropped(g)   == IF durable THEN frames[g] ELSE "dropped"
Committed(g) == IF frames[g] = "new" THEN "stored" ELSE frames[g]

\* commit_to_store; a store without its mirror answers Ok.
CommitsWith(g, result) ==
    /\ Free("store")
    /\ frames' = [frames EXCEPT ![g] = result]
    /\ filled' = (filled \/ frames[g] = "new")

\* The tick: rebuild_and_commit, then emit_live_snapshot.
Commits(g) ==
    /\ thread[g] = "running"
    /\ thread' = [thread EXCEPT ![g] = "committed"]
    /\ CommitsWith(g, Committed(g))
    /\ UNCHANGED <<locks, durable, shutting_down, spawned, stop, calls, told, history>>

Emits(g) ==
    /\ thread[g] = "committed"
    /\ Free("store")
    /\ thread' = [thread EXCEPT ![g] = "running"]
    /\ told' = Telemetry(TRUE, frames[g] # "none")
    /\ UNCHANGED <<locks, durable, shutting_down, spawned, stop, frames, calls, filled,
                   history>>

\* The stop flag is seen, or the source closed or failed.
LeavesLoop(g) ==
    /\ thread[g] = "running"
    /\ thread' = [thread EXCEPT ![g] = "finishing"]
    /\ UNCHANGED <<locks, durable, shutting_down, spawned, stop, frames, calls, filled, told, history>>

Panics(g) ==
    /\ thread[g] = "running"
    /\ thread' = [thread EXCEPT ![g] = "panicked"]
    /\ UNCHANGED <<locks, durable, shutting_down, spawned, stop, frames, calls, filled, told, history>>

\* LiveLoopContext::finish takes the store twice.
\* Mutant: the last commit is left to the tick that will not come.
Abandoned(g) == frames[g]
Flushed(g)   == Committed(g)

Finishes(g) ==
    /\ thread[g] = "finishing"
    /\ thread' = [thread EXCEPT ![g] = "draining"]
    /\ CommitsWith(g, Flushed(g))
    /\ UNCHANGED <<locks, durable, shutting_down, spawned, stop, calls, told, history>>

Drains(g) ==
    /\ thread[g] = "draining"
    /\ Free("store")
    /\ thread' = [thread EXCEPT ![g] = "emitting"]
    /\ UNCHANGED <<locks, durable, shutting_down, spawned, stop, frames, calls, filled,
                   told, history>>

EmitsLast(g) ==
    /\ thread[g] = "emitting"
    /\ Free("store")
    /\ thread' = [thread EXCEPT ![g] = "exited"]
    /\ told' = Telemetry(FALSE, FALSE)
    /\ UNCHANGED <<locks, durable, shutting_down, spawned, stop, frames, calls, filled,
                   history>>

-----------------------------------------------------------------------------
CallBegins(c) ==
    \/ StartCalled(c) \/ StopCalled(c) \/ DepthCalled(c) \/ QueryCalled(c)
    \/ ShutdownCalled(c)

CallSteps(c) ==
    \/ StartClonesHandle(c) \/ StartSpawns(c) \/ StartReturns(c)
    \/ StopFindsNone(c) \/ StopTakes(c) \/ StopJoins(c) \/ StopTimesOut(c)
    \/ StopPutsBack(c) \/ StopLocksHandle(c) \/ StopLocksStore(c) \/ StopEmits(c)
    \/ DepthReads(c) \/ DepthEmits(c) \/ QueryReads(c)
    \/ ShutdownLooks(c) \/ ShutdownStorage(c)

ThreadSteps(g) ==
    \/ Opens(g) \/ ReadsFrames(g) \/ Commits(g) \/ Emits(g) \/ LeavesLoop(g)
    \/ Panics(g) \/ Finishes(g) \/ Drains(g) \/ EmitsLast(g)

Next ==
    \/ \E c \in Callers : CallBegins(c) \/ CallSteps(c)
    \/ \E g \in Captures : ThreadSteps(g)

Spec == Init /\ [][Next]_vars

\* A call that waits for nobody goes on, and a timeout expires; the capture
\* threads may stall for ever.
CallsProgress == Spec /\ \A c \in Callers : WF_vars(CallSteps(c))

\* Moreover the source opens or fails, a stop flag is seen and the final
\* commits are made.
LeavesWhenAsked(g) == stop[g] /\ LeavesLoop(g)
FairSpec ==
    /\ CallsProgress
    /\ \A g \in Captures :
          WF_vars(\/ Opens(g) \/ Emits(g) \/ LeavesWhenAsked(g)
                  \/ Finishes(g) \/ Drains(g) \/ EmitsLast(g))

-----------------------------------------------------------------------------
(* Properties.                                                             *)

\* Types.
TypeOK ==
    /\ capture \in 0 .. MaxCaptures
    /\ holder \in [Locks -> Callers \union {Nobody}]
    /\ durable \in BOOLEAN
    /\ shutting_down \in BOOLEAN
    /\ spawned \in 0 .. MaxCaptures
    /\ thread \in [Captures -> ThreadPhases]
    /\ stop \in [Captures -> BOOLEAN]
    /\ frames \in [Captures -> {"none", "new", "stored"}]
    /\ pc \in [Callers -> Phases]
    /\ ctrl \in [Callers -> 0 .. MaxCaptures]
    /\ running \in [Callers -> BOOLEAN]
    /\ in_shutdown \in [Callers -> BOOLEAN]
    /\ filled \in BOOLEAN
    /\ told \in {"none", "live", "standby"}
    /\ stopped \subseteq Captures
    /\ overwritten \subseteq Captures

Active(g) == thread[g] \in {"running", "committed", "finishing", "draining", "emitting"}

\* A capture's control is in one place only: two stops never wait for the
\* same thread, and none waits for the thread a later stop could take.
OneStopper ==
    \A c \in Callers :
        ctrl[c] # 0 => /\ capture # ctrl[c]
                       /\ \A d \in Callers \ {c} : ctrl[d] # ctrl[c]

\* A stop that returned Ok has waited for the thread's last commit: nothing
\* the capture read is left behind in its pipeline.
StopCommitsAll ==
    \A g \in stopped : thread[g] = "exited" /\ frames[g] # "new"

\* main.rs:99, capture is the handle to the running live capture: as long as
\* its thread runs, the control is there or with the stop or start that has it.
\* False of the code (run shell_put_back).
ControlKept ==
    \A g \in Captures : Active(g) => capture = g \/ \E c \in Callers : ctrl[c] = g

\* What the code keeps of it, whoever calls what: a running capture loses its
\* control in one way only, a stop that timed out puts its own over it (main.rs:700);
\* and of two captures that write to the store side by side, one has been told to
\* stop or has lost its control that way.
ControlAccounted ==
    /\ \A g \in Captures :
          Active(g) => capture = g \/ g \in overwritten \/ \E c \in Callers : ctrl[c] = g
    /\ \A g, h \in Captures :
          (Active(g) /\ Active(h) /\ g # h) => stop[g] \/ stop[h] \/ {g, h} \cap overwritten # {}

\* When all calls have returned and no capture runs, the last snapshot made for
\* the UI does not show live telemetry (a capture that panicked makes none).
LastSnapshotIsTrue ==
    (/\ \A c \in Callers : pc[c] = "idle"
     /\ capture = 0
     /\ \A g \in Captures : ~Active(g) /\ thread[g] # "panicked")
        => told # "live"

\* stop_capture and shutdown return, whatever the capture thread does.
InStop(c) == pc[c] \in {"stop_take", "stop_wait", "stop_put_back", "stop_handle",
                        "stop_store", "stop_read"}
StopReturns     == \A c \in Callers : InStop(c) ~> ~InStop(c)
ShutdownReturns == \A c \in Callers : in_shutdown[c] ~> ~in_shutdown[c]

\* Every stop and every shutdown comes back.
CallsReturn == StopReturns /\ ShutdownReturns
=============================================================================
