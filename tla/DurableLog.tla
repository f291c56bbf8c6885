----------------------------- MODULE DurableLog -----------------------------
(***************************************************************************)
(* The durable write-behind mirror of netpulse-storage (durable.rs): the   *)
(* callers of a shared DurableLog handle, the bounded command channel, and *)
(* the writer thread that applies the commands to SQLite in FIFO order.    *)
(*                                                                         *)
(* Abstractions:                                                           *)
(*  - a record is the number of its acceptance by the channel, 1, 2, ...;  *)
(*    whether SQLite accepts it is a nondeterministic choice;              *)
(*  - taking a record off the channel and applying it is one step;         *)
(*  - a duration is a step that may happen at any moment it is awaited.    *)
(***************************************************************************)
EXTENDS Integers, Sequences

CONSTANTS
    Clients,      \* threads that hold the DurableLog handle
    Capacity,     \* DURABLE_QUEUE_CAPACITY
    MaxRecords,   \* bound: records the channel accepts
    MaxFlushes,   \* bound: flush calls per client
    MaxRefusals   \* bound: failures after which no further refused enqueue is explored

ASSUME LogAssumption ==
    /\ Clients # {}
    /\ Capacity \in Nat \ {0}
    /\ MaxRecords \in Nat
    /\ MaxFlushes \in Nat
    /\ MaxRefusals \in Nat

VARIABLES
    opened,         \* DurableLog::open: "waiting", "ok", "err", "dropped"
    tx,             \* the channel's content, oldest first
    receiver,       \* the writer still owns its end of the channel
    requested_stop, connected, closed, queued, applied, failed, last_error,
    handle,         \* the writer's JoinHandle has not been taken yet
    writer,         \* phase of the writer thread
    raising,        \* the writer is between the two stores of record_failure
    pc,             \* pc[c]: where client c is in the call it makes
    ticket,         \* ticket[c]: number of the flush call client c makes
    mark,           \* mark[c]: records accepted when that call began
    reply,          \* reply[c]: what the reply channel of that call holds
    db,             \* records committed to the SQLite file
    synced,         \* records up to this one survive a power loss
    \* History.
    accepted,       \* records for which try_send returned Ok
    attempted,      \* records the writer has taken off the channel
    promised        \* largest mark of a flush that returned Ok

shared == <<requested_stop, connected, closed, queued, applied, failed, last_error>>
calls  == <<pc, ticket, mark, reply>>
disk   == <<db, synced>>
vars   == <<opened, tx, receiver, shared, handle, writer, raising, calls, disk,
            accepted, attempted, promised>>

Record(r)        == [type |-> "record", rec |-> r]
Barrier(c, t, m) == [type |-> "barrier", who |-> c, ticket |-> t, mark |-> m]
StopCommand      == [type |-> "stop"]
Command ==
    [type : {"record"}, rec : Nat]
    \union [type : {"barrier"}, who : Clients, ticket : Nat, mark : Nat]
    \union {StopCommand}

ClientPhases == {"idle", "counting", "failing", "flush_send", "flush_wait",
                 "flush_ok", "stop_send", "take", "join", "dead"}
WriterPhases == {"connecting", "verifying", "running", "draining", "final",
                 "closing", "closed", "exited"}

Larger(a, b) == IF a > b THEN a ELSE b

Goto(c, from, to) ==
    /\ pc[c] = from
    /\ pc' = [pc EXCEPT ![c] = to]

Init ==
    /\ opened = "waiting"
    /\ tx = << >>
    /\ receiver = TRUE
    /\ requested_stop = FALSE
    /\ connected = FALSE
    /\ closed = FALSE
    /\ queued = 0
    /\ applied = 0
    /\ failed = 0
    /\ last_error = FALSE
    /\ handle = TRUE
    /\ writer = "connecting"
    /\ raising = FALSE
    /\ pc = [c \in Clients |-> "idle"]
    /\ ticket = [c \in Clients |-> 0]
    /\ mark = [c \in Clients |-> 0]
    /\ reply = [c \in Clients |-> "none"]
    /\ db = {}
    /\ synced = 0
    /\ accepted = 0
    /\ attempted = 0
    /\ promised = 0

\* The bounded channel takes one more command.
\* Mutant: one command too many.
RoomOffByOne == Len(tx) <= Capacity
RoomLeft     == Len(tx) < Capacity

-----------------------------------------------------------------------------
(* The caller's side.                                                      *)

\* open() gives up after READY_TIMEOUT: it asks the writer to stop and drops
\* its end of the channel.
OpenTimesOut ==
    /\ opened = "waiting"
    /\ opened' = "err"
    /\ requested_stop' = TRUE
    /\ UNCHANGED <<tx, receiver, connected, closed, queued, applied, failed, last_error,
                   handle, writer, raising, calls, disk, accepted, attempted, promised>>

EnqueueAccepted(c) ==
    /\ opened = "ok"
    /\ accepted < MaxRecords
    /\ receiver
    /\ RoomLeft
    /\ Goto(c, "idle", "counting")
    /\ tx' = Append(tx, Record(accepted + 1))
    /\ accepted' = accepted + 1
    /\ UNCHANGED <<opened, receiver, shared, handle, writer, raising, ticket, mark, reply,
                   disk, attempted, promised>>

\* The counter is raised after the send: the writer may have applied the
\* record by then.
CountQueued(c) ==
    /\ Goto(c, "counting", "idle")
    /\ queued' = queued + 1
    /\ UNCHANGED <<opened, tx, receiver, requested_stop, connected, closed, applied, failed,
                   last_error, handle, writer, raising, ticket, mark, reply, disk,
                   accepted, attempted, promised>>

\* Full, or the writer is gone: first store of record_failure.
EnqueueRefused(c) ==
    /\ opened = "ok"
    /\ failed < MaxRefusals
    /\ ~receiver \/ ~RoomLeft
    /\ Goto(c, "idle", "failing")
    /\ failed' = failed + 1
    /\ UNCHANGED <<opened, tx, receiver, requested_stop, connected, closed, queued, applied,
                   last_error, handle, writer, raising, ticket, mark, reply, disk,
                   accepted, attempted, promised>>

SetLastError(c) ==
    /\ Goto(c, "failing", "idle")
    /\ last_error' = TRUE
    /\ UNCHANGED <<opened, tx, receiver, requested_stop, connected, closed, queued, applied,
                   failed, handle, writer, raising, ticket, mark, reply, disk,
                   accepted, attempted, promised>>

FlushCalled(c) ==
    /\ opened = "ok"
    /\ ticket[c] < MaxFlushes
    /\ Goto(c, "idle", "flush_send")
    /\ ticket' = [ticket EXCEPT ![c] = @ + 1]
    /\ mark' = [mark EXCEPT ![c] = accepted]
    /\ reply' = [reply EXCEPT ![c] = "none"]
    /\ UNCHANGED <<opened, tx, receiver, shared, handle, writer, raising, disk,
                   accepted, attempted, promised>>

\* A blocking send: it waits for room, and no timeout bounds it.
FlushSendsBarrier(c) ==
    /\ receiver
    /\ RoomLeft
    /\ Goto(c, "flush_send", "flush_wait")
    /\ tx' = Append(tx, Barrier(c, ticket[c], mark[c]))
    /\ UNCHANGED <<opened, receiver, shared, handle, writer, raising, ticket, mark, reply,
                   disk, accepted, attempted, promised>>

Disconnected == ~receiver

FlushFindsNoWriter(c) ==
    /\ Disconnected
    /\ Goto(c, "flush_send", "idle")
    /\ UNCHANGED <<opened, tx, receiver, shared, handle, writer, raising, ticket, mark, reply,
                   disk, accepted, attempted, promised>>

\* recv_timeout elapses, or the barrier was discarded with the channel.
FlushTimesOut(c) ==
    /\ Goto(c, "flush_wait", "idle")
    /\ UNCHANGED <<opened, tx, receiver, shared, handle, writer, raising, ticket, mark, reply,
                   disk, accepted, attempted, promised>>

FlushHearsError(c) ==
    /\ reply[c] = "err"
    /\ Goto(c, "flush_wait", "idle")
    /\ UNCHANGED <<opened, tx, receiver, shared, handle, writer, raising, ticket, mark, reply,
                   disk, accepted, attempted, promised>>

FlushHearsOk(c) ==
    /\ reply[c] = "ok"
    /\ Goto(c, "flush_wait", "flush_ok")
    /\ UNCHANGED <<opened, tx, receiver, shared, handle, writer, raising, ticket, mark, reply,
                   disk, accepted, attempted, promised>>

\* clear_error, and flush returns Ok.
FlushReturnsOk(c) ==
    /\ Goto(c, "flush_ok", "idle")
    /\ last_error' = FALSE
    /\ promised' = Larger(promised, mark[c])
    /\ UNCHANGED <<opened, tx, receiver, requested_stop, connected, closed, queued, applied,
                   failed, handle, writer, raising, ticket, mark, reply, disk,
                   accepted, attempted>>

ShutdownCalled(c) ==
    /\ opened = "ok"
    /\ Goto(c, "idle", "stop_send")
    /\ requested_stop' = TRUE
    /\ UNCHANGED <<opened, tx, receiver, connected, closed, queued, applied, failed,
                   last_error, handle, writer, raising, ticket, mark, reply, disk,
                   accepted, attempted, promised>>

ShutdownSendsStop(c) ==
    /\ Goto(c, "stop_send", "take")
    /\ \/ receiver /\ RoomLeft /\ tx' = Append(tx, StopCommand)
       \/ ~receiver /\ UNCHANGED tx
    /\ UNCHANGED <<opened, receiver, shared, handle, writer, raising, ticket, mark, reply,
                   disk, accepted, attempted, promised>>

\* Only the first caller finds the handle and joins; any other one reports
\* the health at once.
ShutdownTakesHandle(c) ==
    /\ Goto(c, "take", IF handle THEN "join" ELSE "idle")
    /\ handle' = FALSE
    /\ UNCHANGED <<opened, tx, receiver, shared, writer, raising, ticket, mark, reply, disk,
                   accepted, attempted, promised>>

ShutdownJoins(c) ==
    /\ writer = "exited"
    /\ Goto(c, "join", "idle")
    /\ UNCHANGED <<opened, tx, receiver, shared, handle, writer, raising, ticket, mark, reply,
                   disk, accepted, attempted, promised>>

\* The last owner drops the handle: a best-effort Stop, and the sending end
\* of the channel is gone.
Drop ==
    /\ opened = "ok"
    /\ \A c \in Clients : pc[c] = "idle"
    /\ opened' = "dropped"
    /\ requested_stop' = TRUE
    /\ tx' = IF receiver /\ RoomLeft THEN Append(tx, StopCommand) ELSE tx
    /\ UNCHANGED <<receiver, connected, closed, queued, applied, failed, last_error,
                   handle, writer, raising, calls, disk, accepted, attempted, promised>>

-----------------------------------------------------------------------------
(* The writer thread.                                                      *)

WriterGoto(from, to) ==
    /\ ~raising
    /\ writer = from
    /\ writer' = to

\* Second store of a record_failure the writer has begun.
WriterSetsLastError ==
    /\ raising
    /\ raising' = FALSE
    /\ last_error' = TRUE
    /\ UNCHANGED <<opened, tx, receiver, requested_stop, connected, closed, queued, applied,
                   failed, handle, writer, calls, disk, accepted, attempted, promised>>

\* Runtime, connection and snapshot succeed; a caller still waiting gets it.
WriterConnects ==
    /\ WriterGoto("connecting", "verifying")
    /\ connected' = TRUE
    /\ opened' = IF opened = "waiting" THEN "ok" ELSE opened
    /\ UNCHANGED <<tx, receiver, requested_stop, closed, queued, applied, failed, last_error,
                   handle, raising, calls, disk, accepted, attempted, promised>>

WriterCannotConnect ==
    /\ WriterGoto("connecting", "exited")
    /\ closed' = TRUE
    /\ receiver' = FALSE
    /\ opened' = "err"
    /\ UNCHANGED <<tx, requested_stop, connected, queued, applied, failed, last_error,
                   handle, raising, calls, disk, accepted, attempted, promised>>

\* PRAGMA integrity_check: a failure is recorded and writing goes on.
WriterVerifies ==
    /\ WriterGoto("verifying", "running")
    /\ \/ UNCHANGED <<failed, raising>>
       \/ failed' = failed + 1 /\ raising' = TRUE
    /\ UNCHANGED <<opened, tx, receiver, requested_stop, connected, closed, queued, applied,
                   last_error, handle, calls, disk, accepted, attempted, promised>>

\* The writer receives the oldest command; recv_timeout and try_recv agree.
Receives(type) ==
    /\ ~raising
    /\ writer \in {"running", "draining"}
    /\ tx # << >>
    /\ Head(tx).type = type
    /\ tx' = Tail(tx)

\* Mutant: the failure is logged and not counted.
ApplyFailsUncounted == raising' = TRUE /\ UNCHANGED <<db, applied, failed>>
ApplyFails == failed' = failed + 1 /\ raising' = TRUE /\ UNCHANGED <<db, applied>>

\* apply_record.
WriterApplies ==
    /\ Receives("record")
    /\ attempted' = Head(tx).rec
    /\ \/ /\ db' = db \union {Head(tx).rec}
          /\ applied' = applied + 1
          /\ UNCHANGED <<failed, raising>>
       \/ ApplyFails
    /\ UNCHANGED <<opened, receiver, requested_stop, connected, closed, queued, last_error,
                   handle, writer, calls, synced, accepted, promised>>

\* Mutant: earlier failures do not fail the checkpoint.
CheckpointBlindly == synced' = attempted

\* checkpoint() succeeds only if nothing has failed and the WAL is synced.
CheckpointOk  == failed = 0 /\ synced' = attempted
CheckpointErr == UNCHANGED synced

\* The reply is lost when the flush that sent the barrier has given up.
Answer(b, result) ==
    reply' = IF pc[b.who] = "flush_wait" /\ ticket[b.who] = b.ticket
             THEN [reply EXCEPT ![b.who] = result] ELSE reply

WriterAnswersBarrier ==
    /\ Receives("barrier")
    /\ \/ CheckpointOk /\ Answer(Head(tx), "ok")
       \/ CheckpointErr /\ Answer(Head(tx), "err")
    /\ UNCHANGED <<opened, receiver, shared, handle, writer, raising, pc, ticket, mark, db,
                   accepted, attempted, promised>>

WriterReceivesStop ==
    /\ Receives("stop")
    /\ writer' = IF writer = "running" THEN "draining" ELSE "final"
    /\ UNCHANGED <<opened, receiver, shared, handle, raising, calls, disk,
                   accepted, attempted, promised>>

\* Mutant: the flag is checked before the channel, and ends the writer.
WriterObeysFlag ==
    /\ requested_stop
    /\ WriterGoto("running", "final")
    /\ UNCHANGED <<opened, tx, receiver, shared, handle, raising, calls, disk,
                   accepted, attempted, promised>>

\* An empty channel: the poll interval elapses and the stop flag is set, or
\* the sending end is gone.
WriterFindsStopRequest ==
    /\ tx = << >>
    /\ requested_stop \/ opened \in {"err", "dropped"}
    /\ WriterGoto("running", "draining")
    /\ UNCHANGED <<opened, tx, receiver, shared, handle, raising, calls, disk,
                   accepted, attempted, promised>>

Drained == tx = << >>

WriterDrained ==
    /\ Drained
    /\ WriterGoto("draining", "final")
    /\ UNCHANGED <<opened, tx, receiver, shared, handle, raising, calls, disk,
                   accepted, attempted, promised>>

WriterCheckpointsLast ==
    /\ WriterGoto("final", "closing")
    /\ \/ CheckpointOk /\ UNCHANGED <<failed, raising>>
       \/ CheckpointErr /\ failed' = failed + 1 /\ raising' = TRUE
    /\ UNCHANGED <<opened, tx, receiver, requested_stop, connected, closed, queued, applied,
                   last_error, handle, calls, db, accepted, attempted, promised>>

WriterCloses ==
    /\ WriterGoto("closing", "closed")
    /\ closed' = TRUE
    /\ UNCHANGED <<opened, tx, receiver, requested_stop, connected, queued, applied, failed,
                   last_error, handle, raising, calls, disk, accepted, attempted, promised>>

\* The receiving end is dropped with everything still in the channel.
WriterExits ==
    /\ WriterGoto("closed", "exited")
    /\ receiver' = FALSE
    /\ tx' = << >>
    /\ UNCHANGED <<opened, shared, handle, raising, calls, disk,
                   accepted, attempted, promised>>

\* The process is killed or the machine loses power: SQLite in WAL mode with
\* synchronous = NORMAL keeps a prefix that covers the last synced WAL.
Crash ==
    /\ opened \in {"ok", "dropped"}
    /\ \E c \in Clients : pc[c] # "dead"
    /\ pc' = [c \in Clients |-> "dead"]
    /\ writer' = "exited"
    /\ receiver' = FALSE
    /\ raising' = FALSE
    /\ tx' = << >>
    /\ \E kept \in synced .. attempted : db' = {r \in db : r <= kept}
    /\ UNCHANGED <<opened, shared, handle, ticket, mark, reply, synced,
                   accepted, attempted, promised>>

-----------------------------------------------------------------------------

ClientStep(c) ==
    \/ CountQueued(c) \/ SetLastError(c)
    \/ FlushSendsBarrier(c) \/ FlushFindsNoWriter(c)
    \/ FlushHearsError(c) \/ FlushHearsOk(c) \/ FlushReturnsOk(c)
    \/ ShutdownSendsStop(c) \/ ShutdownTakesHandle(c) \/ ShutdownJoins(c)

ClientCalls(c) ==
    EnqueueAccepted(c) \/ EnqueueRefused(c) \/ FlushCalled(c) \/ ShutdownCalled(c)

WriterStep ==
    \/ WriterSetsLastError \/ WriterConnects \/ WriterCannotConnect \/ WriterVerifies
    \/ WriterApplies \/ WriterAnswersBarrier \/ WriterReceivesStop
    \/ WriterFindsStopRequest \/ WriterDrained
    \/ WriterCheckpointsLast \/ WriterCloses \/ WriterExits

Next ==
    \/ OpenTimesOut
    \/ \E c \in Clients : ClientCalls(c) \/ ClientStep(c) \/ FlushTimesOut(c)
    \/ Drop
    \/ WriterStep
    \/ Crash

Spec == Init /\ [][Next]_vars

\* A call in progress goes on, a wait with a timeout ends.
ClientFairness ==
    \A c \in Clients : WF_vars(ClientStep(c)) /\ WF_vars(FlushTimesOut(c))

FairSpec == Spec /\ ClientFairness /\ WF_vars(WriterStep)

-----------------------------------------------------------------------------
(* What the mirror must guarantee.                                         *)

\* Every variable ranges over the values its Rust type and protocol allow.
TypeOK ==
    /\ opened \in {"waiting", "ok", "err", "dropped"}
    /\ tx \in Seq(Command) /\ Len(tx) <= Capacity
    /\ receiver \in BOOLEAN /\ handle \in BOOLEAN /\ raising \in BOOLEAN
    /\ requested_stop \in BOOLEAN /\ connected \in BOOLEAN
    /\ closed \in BOOLEAN /\ last_error \in BOOLEAN
    /\ queued \in Nat /\ applied \in Nat /\ failed \in Nat
    /\ writer \in WriterPhases
    /\ pc \in [Clients -> ClientPhases]
    /\ ticket \in [Clients -> Nat]
    /\ mark \in [Clients -> Nat]
    /\ reply \in [Clients -> {"none", "ok", "err"}]
    /\ accepted \in Nat /\ attempted \in Nat /\ promised \in Nat /\ synced \in Nat
    /\ db \subseteq Nat

Crashed == \E c \in Clients : pc[c] = "dead"
Quiet   == \A c \in Clients : pc[c] = "idle"

\* "success here means everything so far is durable" (DurableLog::flush):
\* every record accepted before a flush that returned Ok is in the database,
\* in every later state, a crash included.
PromiseKept == 1 .. promised \subseteq db

\* Why the promise is kept.  The channel holds exactly the records that were
\* accepted and not yet attempted, in order of acceptance ...
RecordsAt(i) == tx[i].type = "record"
ChannelInOrder ==
    /\ \A i \in 1 .. Len(tx) : RecordsAt(i) => tx[i].rec > attempted /\ tx[i].rec <= accepted
    /\ \A i, j \in 1 .. Len(tx) : i < j /\ RecordsAt(i) /\ RecordsAt(j) => tx[i].rec < tx[j].rec
    /\ receiver => \A r \in attempted + 1 .. accepted : \E i \in 1 .. Len(tx) : tx[i] = Record(r)

\* ... a barrier stands behind every record it covers, and carries the mark
\* of the flush call that still waits for it ...
BarriersCover ==
    \A i \in 1 .. Len(tx) : tx[i].type = "barrier" =>
        /\ tx[i].mark <= accepted
        /\ \A j \in 1 .. Len(tx) : i < j /\ RecordsAt(j) => tx[j].rec > tx[i].mark
        /\ tx[i].ticket <= ticket[tx[i].who]
        /\ tx[i].ticket = ticket[tx[i].who] => tx[i].mark = mark[tx[i].who]

\* ... the database holds every attempted record while nothing has failed,
\* and in any case every synced one ...
DatabaseComplete ==
    /\ attempted <= accepted
    /\ synced <= attempted
    /\ receiver /\ failed = 0 => 1 .. attempted \subseteq db
    /\ 1 .. synced \subseteq db
    /\ writer # "exited" => receiver

\* ... and an Ok reply is only heard for a mark that is synced.
RepliesHonest ==
    /\ promised <= synced
    /\ \A c \in Clients :
        /\ mark[c] <= accepted
        /\ pc[c] = "flush_send" => reply[c] = "none"
        /\ pc[c] = "flush_wait" /\ reply[c] = "ok" => mark[c] <= synced
        /\ pc[c] = "flush_ok" => mark[c] <= synced

IInv == TypeOK /\ ChannelInOrder /\ BarriersCover /\ DatabaseComplete /\ RepliesHonest

\* "a clean stop never drops a record" (writer_thread): when the writer has
\* stopped by itself, no call is in progress and no failure was counted, the
\* database holds every record enqueue accepted.
CleanStopKeepsAll ==
    (writer = "exited" /\ ~Crashed /\ Quiet /\ failed = 0) => db = 1 .. accepted

\* "the last error is retained" (module doc): while health reports a failure
\* and no record_failure is half done, it also reports what failed.
ErrorRetained ==
    (failed > 0 /\ ~raising /\ ~Crashed /\ \A c \in Clients : pc[c] # "failing") => last_error

\* "No silent data loss" (module doc): once the channel is empty and no call
\* is in progress, every record counted as queued has been counted as
\* applied or there are failures to account for it.
CountersReconcile ==
    (tx = << >> /\ receiver /\ Quiet) => queued <= applied + failed

\* The mirror implements its abstract promise.
Mirror == INSTANCE WriteBehind WITH stored <- db, lossy <- failed > 0
ImplementsWriteBehind == Mirror!Spec

\* A flush comes back: with Ok, with the writer's error, or by its timeout.
FlushReturns ==
    \A c \in Clients : (pc[c] = "flush_send") ~> (pc[c] \in {"idle", "dead"})

\* A shutdown comes back although the Stop may have to wait for room and the
\* writer has a backlog to drain.
ShutdownReturns ==
    \A c \in Clients : (pc[c] = "stop_send") ~> (pc[c] \in {"idle", "dead"})

\* A record enqueue accepted is attempted in the end, whatever stops the
\* writer short of a crash.
AcceptedIsAttempted ==
    \A r \in 1 .. MaxRecords : (accepted >= r) ~> (attempted >= r \/ Crashed)

\* The module's "no silent data loss": what was accepted is stored, still queued, or
\* accounted for by a failure that health reports, also after a clean stop.
NoSilentLoss == CleanStopKeepsAll /\ ErrorRetained /\ CountersReconcile

\* Nothing that was begun is left hanging: flushes and shutdowns return, and the
\* writer gets to every record that was accepted.
EverythingEnds == FlushReturns /\ ShutdownReturns /\ AcceptedIsAttempted
=============================================================================
