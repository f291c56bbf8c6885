-------------------------- MODULE CaptureShellProofs --------------------------
(***************************************************************************)
(* What holds of the shell for any number of callers and captures: types,  *)
(* that the control of a capture is in one place only, that a stop which   *)
(* returned Ok left nothing of the capture uncommitted, that the last      *)
(* snapshot the UI is given is true, and that a running capture loses its  *)
(* control only to that of a stop which timed out.                         *)
(*                                                                         *)
(* ShellInv adds which captures a control may name, in which phases a      *)
(* caller has one, and what a thread past its last commit has left.        *)
(* LiveHasCause says who will still correct a snapshot that shows live     *)
(* telemetry, and AccountInv where the control of a living thread is in    *)
(* every phase of every caller.                                            *)
(***************************************************************************)
EXTENDS CaptureShell, TLAPS

\* Controls are of captures that have been spawned, and the phases that use one have one.
ControlsAreSpawned ==
    /\ capture <= spawned
    /\ \A c \in Callers :
          /\ ctrl[c] <= spawned
          /\ pc[c] \in {"start_wait", "stop_wait", "stop_put_back"} => ctrl[c] # 0

\* A thread that is past LiveLoopContext::finish has committed what it read.
ThreadsCommit ==
    \A g \in Captures :
        /\ g > spawned => thread[g] = "none"
        /\ thread[g] \in {"draining", "emitting", "exited"} => frames[g] # "new"

ShellInv ==
    /\ TypeOK
    /\ ControlsAreSpawned /\ OneStopper
    /\ ThreadsCommit /\ StopCommitsAll

\* Nothing has been called or spawned.
LEMMA ShellStarts == ASSUME Init PROVE ShellInv
  <1> USE ShellAssumption DEF Init, Captures
  <1>1. TypeOK
    <2>1. /\ "idle" \in Phases /\ "none" \in ThreadPhases
          /\ 0 \in 0 .. MaxCaptures
      BY DEF Phases, ThreadPhases
    <2> QED BY <2>1 DEF TypeOK
  <1>2. ControlsAreSpawned /\ OneStopper
    BY DEF ControlsAreSpawned, OneStopper
  <1>3. ThreadsCommit /\ StopCommitsAll
    BY DEF ThreadsCommit, StopCommitsAll
  <1> QED BY <1>1, <1>2, <1>3 DEF ShellInv

\* What the steps of a call leave of the types.
LEMMA CallTypes ==
    ASSUME ShellInv, NEW c \in Callers, CallBegins(c) \/ CallSteps(c) PROVE TypeOK'
  <1> USE ShellAssumption DEF ShellInv, TypeOK, Captures, Goto, Locks, Phases, After,
                              locks, threads, calls, history
  <1>1. CASE StartCalled(c) BY <1>1 DEF StartCalled
  <1>2. CASE StopCalled(c) BY <1>2 DEF StopCalled
  <1>3. CASE DepthCalled(c) BY <1>3 DEF DepthCalled
  <1>4. CASE QueryCalled(c) BY <1>4 DEF QueryCalled
  <1>5. CASE ShutdownCalled(c) BY <1>5 DEF ShutdownCalled
  <1>6. CASE StartClonesHandle(c) BY <1>6 DEF StartClonesHandle
  <1>7. CASE StartSpawns(c) BY <1>7 DEF StartSpawns, ThreadPhases
  <1>8. CASE StartReturns(c) BY <1>8 DEF StartReturns
  <1>9. CASE StopFindsNone(c) BY <1>9 DEF StopFindsNone
  <1>10. CASE StopTakes(c) BY <1>10 DEF StopTakes, TakenOut
  <1>11. CASE StopJoins(c)
    <2>1. ctrl[c] # 0
      BY <1>11 DEF StopJoins, ControlsAreSpawned
    <2>2. ctrl[c] \in Captures
      BY <2>1
    <2>3. stopped' \subseteq Captures
      BY <1>11, <2>2 DEF StopJoins
    <2> QED BY <1>11, <2>3 DEF StopJoins
  <1>12. CASE StopTimesOut(c) BY <1>12 DEF StopTimesOut
  <1>13. CASE StopPutsBack(c) BY <1>13 DEF StopPutsBack, PutBack
  <1>14. CASE StopLocksHandle(c) BY <1>14 DEF StopLocksHandle
  <1>15. CASE StopLocksStore(c) BY <1>15 DEF StopLocksStore
  <1>16. CASE StopEmits(c) BY <1>16 DEF StopEmits
  <1>17. CASE DepthReads(c) BY <1>17 DEF DepthReads
  <1>18. CASE DepthEmits(c) BY <1>18 DEF DepthEmits, Telemetry
  <1>19. CASE QueryReads(c) BY <1>19 DEF QueryReads
  <1>20. CASE ShutdownLooks(c) BY <1>20 DEF ShutdownLooks
  <1>21. CASE ShutdownStorage(c) BY <1>21 DEF ShutdownStorage
  <1> QED BY <1>1, <1>2, <1>3, <1>4, <1>5, <1>6, <1>7, <1>8, <1>9, <1>10, <1>11, <1>12,
             <1>13, <1>14, <1>15, <1>16, <1>17, <1>18, <1>19, <1>20, <1>21
          DEF CallBegins, CallSteps

\* And those of a capture thread.
LEMMA ThreadTypes ==
    ASSUME ShellInv, NEW g \in Captures, ThreadSteps(g) PROVE TypeOK'
  <1> USE DEF ShellInv, TypeOK, ThreadPhases, locks, calls, history
  <1>1. CASE Opens(g) BY <1>1 DEF Opens
  <1>2. CASE ReadsFrames(g) BY <1>2 DEF ReadsFrames
  <1>3. CASE Commits(g) BY <1>3 DEF Commits, CommitsWith, Committed
  <1>4. CASE Emits(g) BY <1>4 DEF Emits, Telemetry
  <1>5. CASE LeavesLoop(g) BY <1>5 DEF LeavesLoop
  <1>6. CASE Panics(g) BY <1>6 DEF Panics
  <1>7. CASE Finishes(g) BY <1>7 DEF Finishes, CommitsWith, Flushed, Committed
  <1>8. CASE Drains(g) BY <1>8 DEF Drains
  <1>9. CASE EmitsLast(g) BY <1>9 DEF EmitsLast, Telemetry
  <1> QED BY <1>1, <1>2, <1>3, <1>4, <1>5, <1>6, <1>7, <1>8, <1>9 DEF ThreadSteps

\* A control is in one place: only the steps that spawn, take, return or put back move one.
LEMMA CallControls ==
    ASSUME ShellInv, NEW c \in Callers, CallBegins(c) \/ CallSteps(c)
    PROVE  (ControlsAreSpawned /\ OneStopper)'
  <1> USE ShellAssumption DEF ShellInv, ControlsAreSpawned, OneStopper, Captures, TypeOK,
                              Goto, After, locks, threads, calls
  <1>1. CASE \/ StartCalled(c) \/ StopCalled(c) \/ DepthCalled(c) \/ QueryCalled(c)
             \/ ShutdownCalled(c) \/ StartClonesHandle(c) \/ StopFindsNone(c)
    BY <1>1 DEF StartCalled, StopCalled, DepthCalled, QueryCalled, ShutdownCalled,
                StartClonesHandle, StopFindsNone
  <1>2. CASE StartSpawns(c)
    BY <1>2 DEF StartSpawns
  <1>3. CASE StartReturns(c)
    BY <1>3 DEF StartReturns
  <1>4. CASE StopTakes(c)
    BY <1>4 DEF StopTakes, TakenOut
  <1>5. CASE StopJoins(c)
    BY <1>5 DEF StopJoins
  <1>6. CASE StopTimesOut(c)
    BY <1>6 DEF StopTimesOut
  <1>7. CASE StopPutsBack(c)
    BY <1>7 DEF StopPutsBack, PutBack
  <1>8. CASE StopLocksHandle(c) \/ StopLocksStore(c) \/ StopEmits(c)
    BY <1>8 DEF StopLocksHandle, StopLocksStore, StopEmits
  <1>9. CASE DepthReads(c) \/ DepthEmits(c) \/ QueryReads(c)
    BY <1>9 DEF DepthReads, DepthEmits, QueryReads
  <1>10. CASE ShutdownLooks(c) \/ ShutdownStorage(c)
    BY <1>10 DEF ShutdownLooks, ShutdownStorage
  <1> QED BY <1>1, <1>2, <1>3, <1>4, <1>5, <1>6, <1>7, <1>8, <1>9, <1>10
          DEF CallBegins, CallSteps

\* A call touches the threads when it spawns one, and believes one when it has joined it.
LEMMA CallCommits ==
    ASSUME ShellInv, NEW c \in Callers, CallBegins(c) \/ CallSteps(c)
    PROVE  (ThreadsCommit /\ StopCommitsAll)'
  <1> USE ShellAssumption DEF ShellInv, ThreadsCommit, StopCommitsAll, Captures, threads,
                              history
  <1>1. CASE StartSpawns(c)
    BY <1>1 DEF StartSpawns, TypeOK
  <1>2. CASE StopJoins(c)
    <2>1. ctrl[c] # 0
      BY <1>2 DEF StopJoins, Goto, ControlsAreSpawned
    <2>2. ctrl[c] \in Captures
      BY <2>1 DEF TypeOK
    <2> QED BY <1>2, <2>2 DEF StopJoins, Signalled, Over
  <1>3. CASE ~StartSpawns(c) /\ ~StopJoins(c)
    <2>1. UNCHANGED <<spawned, thread, frames, stopped>>
      BY <1>3 DEF CallBegins, CallSteps, StartCalled, StopCalled, DepthCalled, QueryCalled,
                  ShutdownCalled, StartClonesHandle, StopFindsNone, StartReturns, StopTakes,
                  StopTimesOut, StopPutsBack, StopLocksHandle, StopLocksStore, StopEmits,
                  DepthReads, DepthEmits, QueryReads, ShutdownLooks, ShutdownStorage, history
    <2> QED BY <2>1
  <1> QED BY <1>1, <1>2, <1>3

\* A thread leaves the controls alone; it is past its last commit only after Finishes,
\* and one that has been joined takes no step.
LEMMA ThreadKeeps ==
    ASSUME ShellInv, NEW g \in Captures, ThreadSteps(g)
    PROVE  (ControlsAreSpawned /\ OneStopper /\ ThreadsCommit /\ StopCommitsAll)'
  <1>1. UNCHANGED <<capture, spawned, pc, ctrl, stopped>>
    BY DEF ThreadSteps, Opens, ReadsFrames, Commits, Emits, LeavesLoop, Panics, Finishes,
           Drains, EmitsLast, locks, calls, history
  <1>2. (ControlsAreSpawned /\ OneStopper)'
    BY <1>1 DEF ShellInv, ControlsAreSpawned, OneStopper
  <1>3. thread[g] \notin {"none", "exited"}
    BY DEF ThreadSteps, Opens, ReadsFrames, Commits, Emits, LeavesLoop, Panics, Finishes,
           Drains, EmitsLast
  <1>4. /\ thread' = [thread EXCEPT ![g] = thread'[g]]
        /\ frames' = [frames EXCEPT ![g] = frames'[g]]
        /\ thread'[g] \in {"draining", "emitting", "exited"} => frames'[g] # "new"
    <2> USE DEF ShellInv, TypeOK
    <2>1. CASE Opens(g) \/ ReadsFrames(g) \/ LeavesLoop(g) \/ Panics(g)
      BY <2>1 DEF Opens, ReadsFrames, LeavesLoop, Panics
    <2>2. CASE Commits(g) \/ Emits(g)
      BY <2>2 DEF Commits, CommitsWith, Emits
    <2>3. CASE Finishes(g)
      BY <2>3 DEF Finishes, CommitsWith, Flushed, Committed
    <2>4. CASE Drains(g) \/ EmitsLast(g)
      BY <2>4 DEF Drains, EmitsLast, ThreadsCommit
    <2> QED BY <2>1, <2>2, <2>3, <2>4 DEF ThreadSteps
  <1>5. ThreadsCommit'
    BY <1>1, <1>3, <1>4 DEF ShellInv, TypeOK, ThreadsCommit
  <1>6. StopCommitsAll'
    BY <1>1, <1>3, <1>4 DEF ShellInv, TypeOK, StopCommitsAll
  <1> QED BY <1>2, <1>5, <1>6

\* The invariant holds in every state, for any number of callers and captures.
THEOREM ShellInvariant == Spec => []ShellInv
  <1>1. Init => ShellInv
    BY ShellStarts
  <1>2. ShellInv /\ [Next]_vars => ShellInv'
    <2> SUFFICES ASSUME ShellInv, [Next]_vars PROVE ShellInv'
      OBVIOUS
    <2>1. ASSUME NEW c \in Callers, CallBegins(c) \/ CallSteps(c) PROVE ShellInv'
      BY <2>1, CallTypes, CallControls, CallCommits DEF ShellInv
    <2>2. ASSUME NEW g \in Captures, ThreadSteps(g) PROVE ShellInv'
      BY <2>2, ThreadTypes, ThreadKeeps DEF ShellInv
    <2>3. CASE UNCHANGED vars
      BY <2>3 DEF vars, locks, threads, calls, history, ShellInv, TypeOK, ControlsAreSpawned,
                  OneStopper, ThreadsCommit, StopCommitsAll
    <2> QED BY <2>1, <2>2, <2>3 DEF Next
  <1> QED BY <1>1, <1>2, PTL DEF Spec

\* Every variable of the shell keeps its type, whoever calls what.
THEOREM ShellTypes == Spec => []TypeOK
  <1>1. ShellInv => TypeOK
    BY DEF ShellInv
  <1> QED BY <1>1, ShellInvariant, PTL

\* Two stops never wait for the same capture thread, and none for a thread whose control
\* a later stop may still take: stop_capture takes the control out under the lock, and a
\* timed-out stop puts back its own (main.rs:674-703).
THEOREM StopperIsAlone == Spec => []OneStopper
  <1>1. ShellInv => OneStopper
    BY DEF ShellInv
  <1> QED BY <1>1, ShellInvariant, PTL

\* After a stop that returned Ok nothing the capture read is left in its pipeline, whatever
\* else was called meanwhile (LiveLoopContext::finish).
THEOREM StopCommits == Spec => []StopCommitsAll
  <1>1. ShellInv => StopCommitsAll
    BY DEF ShellInv
  <1> QED BY <1>1, ShellInvariant, PTL

-----------------------------------------------------------------------------
(* The last snapshot.  Whoever tells the UI of live telemetry is followed  *)
(* by somebody who takes it back: the thread that ends, or the stop that   *)
(* took the control.  Until then one of them is there.                     *)

Stopping(c) == pc[c] \in {"stop_wait", "stop_put_back", "stop_handle", "stop_store", "stop_read"}

\* As long as the UI is told of live telemetry, a thread runs or has panicked, a control is
\* there to be taken, or a stop that took one has not told the UI yet.
LiveHasCause ==
    told = "live" =>
        \/ \E g \in Captures : Active(g) \/ thread[g] = "panicked"
        \/ capture # 0
        \/ \E c \in Callers : Stopping(c)

\* What a call does to a snapshot that shows live telemetry ...
LEMMA CallTellsTrue ==
    ASSUME ShellInv, LiveHasCause, NEW c \in Callers, CallBegins(c) \/ CallSteps(c)
    PROVE  LiveHasCause'
  <1> USE DEF ShellInv, TypeOK, LiveHasCause, Stopping, Active, Goto, Captures,
              locks, threads, calls
  <1>1. CASE StartSpawns(c)
    <2>1. /\ thread' = [thread EXCEPT ![spawned + 1] = "opening"]
          /\ UNCHANGED <<told, capture>> /\ thread[spawned + 1] = "none"
          /\ pc' = [pc EXCEPT ![c] = "start_wait"] /\ pc[c] = "start_spawn"
      BY <1>1, ShellAssumption DEF StartSpawns, ThreadsCommit
    <2> QED BY <2>1
  <1>2. CASE StartReturns(c)
    <2>1. UNCHANGED <<told, thread>> /\ pc[c] = "start_wait" /\ pc' = [pc EXCEPT ![c] = "idle"]
      BY <1>2 DEF StartReturns
    <2>2. capture' = capture \/ capture' # 0
      BY <1>2 DEF StartReturns, ControlsAreSpawned
    <2> QED BY <2>1, <2>2
  <1>3. CASE StopTakes(c)
    BY <1>3 DEF StopTakes
  <1>4. CASE StopJoins(c)
    <2>1. UNCHANGED <<told, thread, capture>> /\ pc[c] = "stop_wait"
      BY <1>4 DEF StopJoins
    <2>2. ctrl[c] \in Captures
      BY <2>1 DEF ControlsAreSpawned
    <2>3. thread[ctrl[c]] # "panicked" => Stopping(c)'
      BY <1>4 DEF StopJoins
    <2>4. \A d \in Callers \ {c} : pc'[d] = pc[d]
      BY <1>4 DEF StopJoins
    <2> QED BY <2>1, <2>2, <2>3, <2>4
  <1>5. CASE StopPutsBack(c)
    <2>1. capture' # 0
      BY <1>5 DEF StopPutsBack, PutBack, ControlsAreSpawned
    <2> QED BY <2>1
  <1>6. CASE StopEmits(c)
    BY <1>6 DEF StopEmits
  <1>7. CASE DepthEmits(c)
    BY <1>7 DEF DepthEmits, Telemetry, NoBatch
  <1>8. CASE QueryReads(c)
    BY <1>8 DEF QueryReads
  <1>9. CASE \/ StopTimesOut(c) \/ StopLocksHandle(c) \/ StopLocksStore(c)
    BY <1>9 DEF StopTimesOut, StopLocksHandle, StopLocksStore
  <1>10. CASE \/ StartCalled(c) \/ StopCalled(c) \/ DepthCalled(c) \/ QueryCalled(c)
              \/ ShutdownCalled(c) \/ StartClonesHandle(c) \/ StopFindsNone(c)
              \/ DepthReads(c) \/ ShutdownLooks(c) \/ ShutdownStorage(c)
    <2>1. UNCHANGED <<told, thread, capture>> /\ ~Stopping(c)
      BY <1>10 DEF StartCalled, StopCalled, DepthCalled, QueryCalled, ShutdownCalled,
                   StartClonesHandle, StopFindsNone, DepthReads, ShutdownLooks, ShutdownStorage
    <2>2. \A d \in Callers \ {c} : pc'[d] = pc[d]
      BY <1>10 DEF StartCalled, StopCalled, DepthCalled, QueryCalled, ShutdownCalled,
                   StartClonesHandle, StopFindsNone, DepthReads, ShutdownLooks, ShutdownStorage
    <2> QED BY <2>1, <2>2
  <1> QED BY <1>1, <1>2, <1>3, <1>4, <1>5, <1>6, <1>7, <1>8, <1>9, <1>10
          DEF CallBegins, CallSteps

\* ... and what a thread does.
LEMMA ThreadTellsTrue ==
    ASSUME ShellInv, LiveHasCause, NEW g \in Captures, ThreadSteps(g)
    PROVE  LiveHasCause'
  <1> USE DEF ShellInv, TypeOK, LiveHasCause, Stopping, Active, locks, calls
  <1>1. CASE Opens(g) \/ ReadsFrames(g) \/ LeavesLoop(g) \/ Panics(g)
    BY <1>1 DEF Opens, ReadsFrames, LeavesLoop, Panics
  <1>2. CASE Commits(g) \/ Finishes(g) \/ Drains(g)
    BY <1>2 DEF Commits, CommitsWith, Finishes, Drains
  <1>3. CASE Emits(g)
    BY <1>3 DEF Emits
  <1>4. CASE EmitsLast(g)
    BY <1>4 DEF EmitsLast, Telemetry
  <1> QED BY <1>1, <1>2, <1>3, <1>4 DEF ThreadSteps

\* When all calls have returned and no capture runs, the last snapshot the UI was given does
\* not show live telemetry, for any number of callers (emit_live_snapshot, main.rs:713).
THEOREM LastSnapshotStaysTrue == Spec => []LastSnapshotIsTrue
  <1>1. Init => LiveHasCause
    BY DEF Init, LiveHasCause
  <1>2. ShellInv /\ LiveHasCause /\ [Next]_vars => LiveHasCause'
    <2> SUFFICES ASSUME ShellInv, LiveHasCause, [Next]_vars PROVE LiveHasCause'
      OBVIOUS
    <2>1. CASE UNCHANGED vars
      BY <2>1 DEF vars, locks, threads, calls, history, LiveHasCause, Stopping, Active
    <2> QED BY <2>1, CallTellsTrue, ThreadTellsTrue DEF Next
  <1>3. LiveHasCause => LastSnapshotIsTrue
    BY DEF LiveHasCause, LastSnapshotIsTrue, Stopping
  <1> QED BY <1>1, <1>2, <1>3, ShellInvariant, PTL DEF Spec

-----------------------------------------------------------------------------
(* Where the control of a living thread is.  A start holds the capture lock *)
(* from its first line to its last and finds no control there, so whatever *)
(* lives beside the thread it spawns is being stopped, or lost its control *)
(* to the put-back of a stop that timed out.                               *)

Starting(c) == pc[c] \in {"start_handle", "start_spawn", "start_wait"}
StopWaits(c) == pc[c] \in {"stop_wait", "stop_put_back"}
Living(g) == thread[g] = "opening" \/ Active(g)

\* A start has the lock and an empty slot; a stop that has a control has set its flag.
CallsHold ==
    \A c \in Callers :
        /\ Starting(c) => capture = 0 /\ holder["capture"] = c
        /\ StopWaits(c) => stop[ctrl[c]]
        /\ ctrl[c] # 0 => pc[c] = "start_wait" \/ StopWaits(c)

LivingAccounted ==
    \A g \in Captures :
        /\ Living(g) => capture = g \/ g \in overwritten \/ \E c \in Callers : ctrl[c] = g
        /\ thread[g] = "opening" => \E c \in Callers : pc[c] = "start_wait" /\ ctrl[c] = g

PairsAccounted ==
    \A g, h \in Captures :
        (Living(g) /\ Living(h) /\ g # h) => stop[g] \/ stop[h] \/ {g, h} \cap overwritten # {}

AccountInv == ShellInv /\ CallsHold /\ LivingAccounted /\ PairsAccounted

\* Only a start takes the capture lock for more than one step.
LEMMA CallsStillHold ==
    ASSUME AccountInv, NEW c \in Callers, CallBegins(c) \/ CallSteps(c)
    PROVE  CallsHold'
  <1> USE ShellAssumption DEF AccountInv, ShellInv, TypeOK, CallsHold, ControlsAreSpawned,
          Starting, StopWaits, Goto, After, Free, Captures, Locks, locks, threads, calls
  <1>1. CASE StartCalled(c) BY <1>1 DEF StartCalled
  <1>2. CASE StartClonesHandle(c) BY <1>2 DEF StartClonesHandle
  <1>3. CASE StartSpawns(c) BY <1>3 DEF StartSpawns
  <1>4. CASE StartReturns(c) BY <1>4 DEF StartReturns
  <1>5. CASE StopTakes(c) BY <1>5 DEF StopTakes, TakenOut
  <1>6. CASE StopJoins(c) BY <1>6 DEF StopJoins
  <1>7. CASE StopTimesOut(c) BY <1>7 DEF StopTimesOut
  <1>8. CASE StopPutsBack(c) BY <1>8 DEF StopPutsBack, PutBack
  <1>9. CASE \/ StopCalled(c) \/ DepthCalled(c) \/ QueryCalled(c) \/ ShutdownCalled(c)
             \/ StopFindsNone(c)
    BY <1>9 DEF StopCalled, DepthCalled, QueryCalled, ShutdownCalled, StopFindsNone
  <1>10. CASE StopLocksHandle(c) \/ StopLocksStore(c) \/ StopEmits(c)
    BY <1>10 DEF StopLocksHandle, StopLocksStore, StopEmits
  <1>11. CASE DepthReads(c) \/ DepthEmits(c) \/ QueryReads(c)
    BY <1>11 DEF DepthReads, DepthEmits, QueryReads
  <1>12. CASE ShutdownLooks(c) \/ ShutdownStorage(c)
    BY <1>12 DEF ShutdownLooks, ShutdownStorage
  <1> QED BY <1>1, <1>2, <1>3, <1>4, <1>5, <1>6, <1>7, <1>8, <1>9, <1>10, <1>11, <1>12
          DEF CallBegins, CallSteps

\* The steps that move no control and no thread.
LEMMA OtherCallsMoveNothing ==
    ASSUME TypeOK, NEW c \in Callers, CallBegins(c) \/ CallSteps(c),
           ~StartSpawns(c), ~StartReturns(c), ~StopTakes(c), ~StopJoins(c), ~StopPutsBack(c)
    PROVE  /\ UNCHANGED <<capture, thread, stop, ctrl, overwritten>>
           /\ pc[c] # "start_wait" /\ \A d \in Callers \ {c} : pc'[d] = pc[d]
  <1> USE DEF TypeOK, Goto, After, locks, threads, calls, history
  <1>1. CASE CallBegins(c)
    BY <1>1 DEF CallBegins, StartCalled, StopCalled, DepthCalled, QueryCalled, ShutdownCalled
  <1>2. CASE StartClonesHandle(c) \/ StopFindsNone(c) \/ StopTimesOut(c)
    BY <1>2 DEF StartClonesHandle, StopFindsNone, StopTimesOut
  <1>3. CASE StopLocksHandle(c) \/ StopLocksStore(c) \/ StopEmits(c)
    BY <1>3 DEF StopLocksHandle, StopLocksStore, StopEmits
  <1>4. CASE DepthReads(c) \/ DepthEmits(c) \/ QueryReads(c)
    BY <1>4 DEF DepthReads, DepthEmits, QueryReads
  <1>5. CASE ShutdownLooks(c) \/ ShutdownStorage(c)
    BY <1>5 DEF ShutdownLooks, ShutdownStorage
  <1> QED BY <1>1, <1>2, <1>3, <1>4, <1>5 DEF CallSteps

\* A control moves between the slot and a call, or out of the slot when another is put there.
LEMMA CallKeepsAccount ==
    ASSUME AccountInv, NEW c \in Callers, CallBegins(c) \/ CallSteps(c)
    PROVE  LivingAccounted' /\ PairsAccounted'
  <1>6. CASE ~StartSpawns(c) /\ ~StartReturns(c) /\ ~StopTakes(c) /\ ~StopJoins(c)
             /\ ~StopPutsBack(c)
    <2>1. /\ UNCHANGED <<capture, thread, stop, ctrl, overwritten>>
          /\ pc[c] # "start_wait" /\ \A d \in Callers \ {c} : pc'[d] = pc[d]
      BY <1>6, OtherCallsMoveNothing DEF AccountInv, ShellInv
    <2>2. \A g \in Captures : Living(g)' <=> Living(g)
      BY <2>1 DEF Living, Active
    <2>3. \A d \in Callers : pc[d] = "start_wait" => pc'[d] = "start_wait"
      BY <2>1
    <2>4. LivingAccounted'
      BY <2>1, <2>2, <2>3 DEF AccountInv, LivingAccounted
    <2>5. PairsAccounted'
      BY <2>1, <2>2 DEF AccountInv, PairsAccounted
    <2> QED BY <2>4, <2>5
  <1> USE ShellAssumption DEF AccountInv, ShellInv, TypeOK, CallsHold, LivingAccounted,
          PairsAccounted, ControlsAreSpawned, Starting, StopWaits, Living, Active, Goto,
          Captures, locks, threads, calls, history
  <1>1. CASE StartSpawns(c)
    <2>1. /\ thread' = [thread EXCEPT ![spawned + 1] = "opening"]
          /\ ctrl' = [ctrl EXCEPT ![c] = spawned + 1] /\ pc' = [pc EXCEPT ![c] = "start_wait"]
          /\ UNCHANGED <<capture, stop, overwritten>>
          /\ capture = 0 /\ ctrl[c] = 0 /\ spawned + 1 \in Captures
      BY <1>1 DEF StartSpawns
    <2>2. ASSUME NEW h \in Captures, Living(h) PROVE stop[h] \/ h \in overwritten
      <3>1. CASE h \in overwritten
        BY <3>1
      <3>2. ASSUME NEW d \in Callers, ctrl[d] = h PROVE stop[h]
        <4>1. d # c /\ (pc[d] = "start_wait" \/ StopWaits(d))
          BY <2>1, <3>2
        <4>2. pc[d] # "start_wait"
          BY <1>1, <4>1 DEF StartSpawns
        <4> QED BY <3>2, <4>1, <4>2
      <3> QED BY <2>1, <2>2, <3>1, <3>2
    <2>3. LivingAccounted'
      BY <2>1
    <2>4. PairsAccounted'
      BY <2>1, <2>2
    <2> QED BY <2>3, <2>4
  <1>2. CASE StartReturns(c)
    BY <1>2 DEF StartReturns
  <1>3. CASE StopTakes(c)
    BY <1>3 DEF StopTakes, TakenOut
  <1>4. CASE StopJoins(c)
    BY <1>4 DEF StopJoins, Signalled, Over
  <1>5. CASE StopPutsBack(c)
    BY <1>5 DEF StopPutsBack, PutBack
  <1> QED BY <1>1, <1>2, <1>3, <1>4, <1>5, <1>6

\* A thread does not come back to life, and touches no caller.
LEMMA ThreadKeepsAccount ==
    ASSUME AccountInv, NEW g \in Captures, ThreadSteps(g)
    PROVE  AccountInv'
  <1>1. ShellInv'
    BY ThreadTypes, ThreadKeeps DEF AccountInv, ShellInv
  <1>2. UNCHANGED <<capture, holder, pc, ctrl, stop, overwritten>>
    BY DEF ThreadSteps, Opens, ReadsFrames, Commits, Emits, LeavesLoop, Panics, Finishes,
           Drains, EmitsLast, locks, calls, history
  <1>3. /\ thread' = [thread EXCEPT ![g] = thread'[g]]
        /\ Living(g) /\ thread'[g] # "opening"
    <2> USE DEF AccountInv, ShellInv, TypeOK, Living, Active
    <2>1. CASE Opens(g) \/ ReadsFrames(g) \/ LeavesLoop(g) \/ Panics(g)
      BY <2>1 DEF Opens, ReadsFrames, LeavesLoop, Panics
    <2>2. CASE Commits(g) \/ Emits(g) \/ Finishes(g)
      BY <2>2 DEF Commits, CommitsWith, Emits, Finishes
    <2>3. CASE Drains(g) \/ EmitsLast(g)
      BY <2>3 DEF Drains, EmitsLast
    <2> QED BY <2>1, <2>2, <2>3 DEF ThreadSteps
  <1>4. CallsHold'
    BY <1>2 DEF AccountInv, CallsHold, Starting, StopWaits
  <1>5. \A h \in Captures : Living(h)' => Living(h)
    BY <1>3 DEF AccountInv, ShellInv, TypeOK, Living, Active
  <1>6. LivingAccounted' /\ PairsAccounted'
    BY <1>2, <1>3, <1>5 DEF AccountInv, ShellInv, TypeOK, LivingAccounted, PairsAccounted
  <1> QED BY <1>1, <1>4, <1>6 DEF AccountInv

\* For any number of callers a running capture loses its control in one way only, to the
\* put-back of a stop that timed out (main.rs:700), and of two captures that write to the
\* store side by side one has been told to stop or has lost its control that way.
THEOREM ControlIsAccounted == Spec => []ControlAccounted
  <1>1. Init => AccountInv
    BY ShellStarts, ShellAssumption DEF Init, AccountInv, CallsHold, LivingAccounted,
       PairsAccounted, Starting, StopWaits, Living, Active
  <1>2. AccountInv /\ [Next]_vars => AccountInv'
    <2> SUFFICES ASSUME AccountInv, [Next]_vars PROVE AccountInv'
      OBVIOUS
    <2>1. CASE UNCHANGED vars
      BY <2>1 DEF vars, locks, threads, calls, history, AccountInv, CallsHold, LivingAccounted,
                  PairsAccounted, Starting, StopWaits, Living, Active, ShellInv, TypeOK,
                  ControlsAreSpawned, OneStopper, ThreadsCommit, StopCommitsAll
    <2>2. ASSUME NEW c \in Callers, CallBegins(c) \/ CallSteps(c) PROVE AccountInv'
      BY <2>2, CallTypes, CallControls, CallCommits, CallsStillHold, CallKeepsAccount
         DEF AccountInv, ShellInv
    <2> QED BY <2>1, <2>2, ThreadKeepsAccount DEF Next
  <1>3. AccountInv => ControlAccounted
    BY DEF AccountInv, LivingAccounted, PairsAccounted, Living, ControlAccounted
  <1> QED BY <1>1, <1>2, <1>3, PTL DEF Spec
===============================================================================
