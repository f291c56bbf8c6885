-------------------------- MODULE DurableLogProofs --------------------------
(***************************************************************************)
(* Proofs about the durable mirror, for any channel capacity and bounds:   *)
(* its type invariant, the promise of flush, its refinement and the        *)
(* accounting of its counters for any number of clients, and that nothing  *)
(* is lost silently when one client holds the handle.                      *)
(***************************************************************************)
EXTENDS DurableLog, TLAPS, FiniteSetTheorems

-----------------------------------------------------------------------------
(* The type invariant.                                                     *)

USE DEF ClientPhases, WriterPhases

LEMMA InitType == Init => TypeOK
<1> SUFFICES ASSUME Init PROVE TypeOK  OBVIOUS
<1>1. tx \in Seq(Command) /\ Len(tx) <= Capacity  BY LogAssumption DEF Init
<1> QED  BY <1>1 DEF Init, TypeOK

\* What a client does in a call it has begun keeps the types.
LEMMA ClientStepType ==
  ASSUME TypeOK, NEW c \in Clients, ClientStep(c) \/ FlushTimesOut(c)
  PROVE  TypeOK'
<1> USE LogAssumption DEF TypeOK, shared, calls, disk, Goto
<1>1. CASE CountQueued(c)         BY <1>1 DEF CountQueued
<1>2. CASE SetLastError(c)        BY <1>2 DEF SetLastError
<1>3. CASE FlushSendsBarrier(c)
  <2>1. Barrier(c, ticket[c], mark[c]) \in Command  BY DEF Barrier, Command
  <2>2. tx' \in Seq(Command) /\ Len(tx') <= Capacity
    BY <1>3, <2>1 DEF FlushSendsBarrier, RoomLeft
  <2> QED  BY <1>3, <2>2 DEF FlushSendsBarrier
<1>4. CASE FlushFindsNoWriter(c)  BY <1>4 DEF FlushFindsNoWriter
<1>5. CASE FlushHearsError(c)     BY <1>5 DEF FlushHearsError
<1>6. CASE FlushHearsOk(c)        BY <1>6 DEF FlushHearsOk
<1>7. CASE FlushReturnsOk(c)
  <2>1. promised' \in Nat  BY <1>7 DEF FlushReturnsOk, Larger
  <2>2. pc' \in [Clients -> ClientPhases] /\ last_error' \in BOOLEAN
    BY <1>7 DEF FlushReturnsOk
  <2> QED  BY <1>7, <2>1, <2>2, ZenonT(60) DEF FlushReturnsOk
<1>8. CASE ShutdownSendsStop(c)
  <2>1. tx' \in Seq(Command) /\ Len(tx') <= Capacity
    <3>1. CASE UNCHANGED tx  BY <3>1
    <3>2. CASE RoomLeft /\ tx' = Append(tx, StopCommand)
      <4>1. StopCommand \in Command  BY DEF Command
      <4> QED  BY <3>2, <4>1 DEF RoomLeft
    <3> QED  BY <1>8, <3>1, <3>2 DEF ShutdownSendsStop
  <2> QED  BY <1>8, <2>1 DEF ShutdownSendsStop
<1>9. CASE ShutdownTakesHandle(c)
  <2>1. pc' \in [Clients -> ClientPhases]  BY <1>9 DEF ShutdownTakesHandle
  <2>2. handle' \in BOOLEAN  BY <1>9 DEF ShutdownTakesHandle
  <2> QED  BY <1>9, <2>1, <2>2, ZenonT(60) DEF ShutdownTakesHandle
<1>10. CASE ShutdownJoins(c)      BY <1>10 DEF ShutdownJoins
<1>11. CASE FlushTimesOut(c)      BY <1>11 DEF FlushTimesOut
<1> QED
  BY <1>1, <1>2, <1>3, <1>4, <1>5, <1>6, <1>7, <1>8, <1>9, <1>10, <1>11 DEF ClientStep

\* A call keeps the types.
LEMMA ClientCallsType ==
  ASSUME TypeOK, NEW c \in Clients, ClientCalls(c)
  PROVE  TypeOK'
<1> USE LogAssumption DEF TypeOK, shared, calls, disk, Goto
<1>1. CASE EnqueueAccepted(c)
  <2>1. Record(accepted + 1) \in Command  BY DEF Record, Command
  <2>2. tx' \in Seq(Command) /\ Len(tx') <= Capacity
    BY <1>1, <2>1 DEF EnqueueAccepted, RoomLeft
  <2> QED  BY <1>1, <2>2 DEF EnqueueAccepted
<1>2. CASE EnqueueRefused(c)  BY <1>2 DEF EnqueueRefused
<1>3. CASE FlushCalled(c)     BY <1>3 DEF FlushCalled
<1>4. CASE ShutdownCalled(c)  BY <1>4 DEF ShutdownCalled
<1> QED  BY <1>1, <1>2, <1>3, <1>4 DEF ClientCalls

\* Taking the oldest command leaves a channel of commands.
LEMMA ReceivesType ==
  ASSUME TypeOK, NEW type, Receives(type)
  PROVE  /\ tx' \in Seq(Command)
         /\ Len(tx') <= Capacity
         /\ Head(tx) \in Command
         /\ Len(tx) > 0
<1>1. tx # << >> /\ tx' = Tail(tx) /\ tx \in Seq(Command) /\ Len(tx) <= Capacity
  BY DEF TypeOK, Receives
<1>2. Head(tx) \in Command  BY <1>1
<1> QED  BY <1>1, <1>2, LogAssumption

LEMMA WriterStepType ==
  ASSUME TypeOK, WriterStep
  PROVE  TypeOK'
<1> USE LogAssumption DEF TypeOK, shared, calls, disk, WriterGoto
<1>1. CASE WriterSetsLastError   BY <1>1 DEF WriterSetsLastError
<1>2. CASE WriterConnects        BY <1>2 DEF WriterConnects
<1>3. CASE WriterCannotConnect   BY <1>3 DEF WriterCannotConnect
<1>4. CASE WriterVerifies
  <2>1. CASE UNCHANGED <<failed, raising>>  BY <1>4, <2>1 DEF WriterVerifies
  <2>2. CASE failed' = failed + 1 /\ raising' = TRUE
    BY <1>4, <2>2 DEF WriterVerifies
  <2> QED  BY <1>4, <2>1, <2>2 DEF WriterVerifies
<1>5. CASE WriterApplies
  <2>1. tx' \in Seq(Command) /\ Len(tx') <= Capacity /\ Head(tx).rec \in Nat
    BY <1>5, ReceivesType DEF WriterApplies, Receives, Command, StopCommand
  <2>2. CASE db' = db \union {Head(tx).rec} /\ applied' = applied + 1 /\ UNCHANGED <<failed, raising>>
    <3>1. attempted' \in Nat /\ db' \subseteq Nat  BY <1>5, <2>1, <2>2 DEF WriterApplies
    <3>2. applied' \in Nat /\ failed' \in Nat /\ raising' \in BOOLEAN  BY <2>2
    <3> QED  BY <1>5, <2>1, <3>1, <3>2 DEF WriterApplies
  <2>3. CASE ApplyFails
    BY <1>5, <2>1, <2>3 DEF WriterApplies, ApplyFails
  <2> QED  BY <1>5, <2>2, <2>3 DEF WriterApplies
<1>6. CASE WriterAnswersBarrier
  <2>1. tx' \in Seq(Command) /\ Len(tx') <= Capacity /\ Head(tx).who \in Clients
    BY <1>6, ReceivesType DEF WriterAnswersBarrier, Receives, Command, StopCommand
  <2>2. synced' \in Nat /\ reply' \in [Clients -> {"none", "ok", "err"}]
    BY <1>6, <2>1 DEF WriterAnswersBarrier, CheckpointOk, CheckpointErr, Answer
  <2> QED  BY <1>6, <2>1, <2>2 DEF WriterAnswersBarrier
<1>7. CASE WriterReceivesStop
  <2>1. tx' \in Seq(Command) /\ Len(tx') <= Capacity
    BY <1>7, ReceivesType DEF WriterReceivesStop
  <2> QED  BY <1>7, <2>1 DEF WriterReceivesStop
<1>8. CASE WriterFindsStopRequest  BY <1>8 DEF WriterFindsStopRequest
<1>9. CASE WriterDrained           BY <1>9 DEF WriterDrained
<1>10. CASE WriterCheckpointsLast
  <2>1. CASE CheckpointOk /\ UNCHANGED <<failed, raising>>
    BY <1>10, <2>1 DEF WriterCheckpointsLast, CheckpointOk
  <2>2. CASE CheckpointErr /\ failed' = failed + 1 /\ raising' = TRUE
    BY <1>10, <2>2 DEF WriterCheckpointsLast, CheckpointErr
  <2> QED  BY <1>10, <2>1, <2>2 DEF WriterCheckpointsLast
<1>11. CASE WriterCloses           BY <1>11 DEF WriterCloses
<1>12. CASE WriterExits
  <2>1. tx' \in Seq(Command) /\ Len(tx') <= Capacity  BY <1>12 DEF WriterExits
  <2> QED  BY <1>12, <2>1 DEF WriterExits
<1> QED
  BY <1>1, <1>2, <1>3, <1>4, <1>5, <1>6, <1>7, <1>8, <1>9, <1>10, <1>11, <1>12
  DEF WriterStep

LEMMA NextType ==
  ASSUME TypeOK, [Next]_vars
  PROVE  TypeOK'
<1> USE LogAssumption
<1>1. CASE OpenTimesOut  BY <1>1 DEF OpenTimesOut, TypeOK, calls, disk
<1>2. ASSUME NEW c \in Clients, ClientCalls(c) \/ ClientStep(c) \/ FlushTimesOut(c)
      PROVE  TypeOK'
  BY <1>2, ClientCallsType, ClientStepType
<1>3. CASE Drop
  <2>1. tx' \in Seq(Command) /\ Len(tx') <= Capacity
    BY <1>3 DEF Drop, RoomLeft, Command, TypeOK
  <2> QED  BY <1>3, <2>1 DEF Drop, TypeOK, calls, disk
<1>4. CASE WriterStep  BY <1>4, WriterStepType
<1>5. CASE Crash
  <2>1. tx' \in Seq(Command) /\ Len(tx') <= Capacity
    BY <1>5 DEF Crash
  <2>2. db' \subseteq Nat  BY <1>5 DEF Crash, TypeOK
  <2> QED  BY <1>5, <2>1, <2>2 DEF Crash, TypeOK, shared
<1>6. CASE UNCHANGED vars  BY <1>6 DEF vars, shared, calls, disk, TypeOK
<1> QED  BY <1>1, <1>2, <1>3, <1>4, <1>5, <1>6 DEF Next

\* Every variable of the mirror keeps its type, for every value of the
\* constants.
THEOREM TypeCorrect == Spec => []TypeOK
<1>1. Init => TypeOK  BY InitType
<1>2. TypeOK /\ [Next]_vars => TypeOK'  BY NextType
<1> QED  BY <1>1, <1>2, PTL DEF Spec

-----------------------------------------------------------------------------
(* The promise of flush: the four parts of the inductive invariant, first  *)
(* under steps that leave alone what they speak of.                        *)

LEMMA ChannelUntouched ==
  ASSUME ChannelInOrder, UNCHANGED <<tx, accepted, attempted>>, receiver' => receiver
  PROVE  ChannelInOrder'
BY DEF ChannelInOrder, RecordsAt

LEMMA BarriersUntouched ==
  ASSUME BarriersCover, UNCHANGED <<tx, accepted, ticket, mark>>
  PROVE  BarriersCover'
BY DEF BarriersCover, RecordsAt

LEMMA DatabaseUntouched ==
  ASSUME DatabaseComplete, UNCHANGED <<accepted, attempted, synced, db>>,
         receiver' => receiver, failed' = 0 => failed = 0, writer' # "exited" => receiver'
  PROVE  DatabaseComplete'
BY DEF DatabaseComplete

LEMMA RepliesUntouched ==
  ASSUME RepliesHonest, UNCHANGED <<promised, synced, mark, accepted, reply>>,
         \A c \in Clients : \/ pc'[c] = pc[c]
                            \/ pc'[c] \notin {"flush_send", "flush_wait", "flush_ok"}
  PROVE  RepliesHonest'
BY DEF RepliesHonest

\* A step of the two threads that touches none of the four parts' variables
\* but phases, failure counters and a receiver that may go.
LEMMA QuietStep ==
  ASSUME IInv, TypeOK',
         UNCHANGED <<tx, accepted, attempted, ticket, mark, reply, synced, db, promised>>,
         receiver' => receiver, failed' = 0 => failed = 0, writer' # "exited" => receiver',
         \A c \in Clients : \/ pc'[c] = pc[c]
                            \/ pc'[c] \notin {"flush_send", "flush_wait", "flush_ok"}
  PROVE  IInv'
BY ChannelUntouched, BarriersUntouched, DatabaseUntouched, RepliesUntouched DEF IInv

\* What the channel holds at a position.
LEMMA CommandAt ==
  ASSUME TypeOK, NEW i \in 1 .. Len(tx)
  PROVE  /\ tx[i].type = "record" => tx[i].rec \in Nat
         /\ tx[i].type = "barrier" =>
              tx[i].who \in Clients /\ tx[i].ticket \in Nat /\ tx[i].mark \in Nat
<1>1. tx[i] \in Command  BY DEF TypeOK
<1> QED  BY <1>1 DEF Command, StopCommand

\* Commands put at the back, or taken from the front, of the channel.
LEMMA AppendedAt ==
  ASSUME TypeOK, NEW cmd \in Command, tx' = Append(tx, cmd)
  PROVE  /\ Len(tx) \in Nat
         /\ Len(tx') = Len(tx) + 1
         /\ \A i \in 1 .. Len(tx) : tx'[i] = tx[i]
         /\ tx'[Len(tx) + 1] = cmd
BY DEF TypeOK

LEMMA TakenFrom ==
  ASSUME TypeOK, tx # << >>, tx' = Tail(tx)
  PROVE  /\ Len(tx) \in Nat \ {0}
         /\ Len(tx') = Len(tx) - 1
         /\ \A i \in 1 .. Len(tx') : tx'[i] = tx[i + 1]
         /\ Head(tx) = tx[1]
BY DEF TypeOK

\* A command other than a record joins the channel, or leaves it.
LEMMA OtherAppended ==
  ASSUME TypeOK, ChannelInOrder, NEW cmd \in Command, cmd.type # "record",
         tx' = Append(tx, cmd), UNCHANGED <<receiver, accepted, attempted>>
  PROVE  ChannelInOrder'
<1>1. \A i \in 1 .. Len(tx') :
        RecordsAt(i)' => i \in 1 .. Len(tx) /\ RecordsAt(i) /\ tx'[i] = tx[i]
  BY AppendedAt DEF RecordsAt
<1>2. \A i \in 1 .. Len(tx) : i \in 1 .. Len(tx') /\ tx'[i] = tx[i]  BY AppendedAt
<1> QED  BY <1>1, <1>2 DEF ChannelInOrder, RecordsAt

LEMMA OtherTaken ==
  ASSUME TypeOK, ChannelInOrder, tx # << >>, Head(tx).type # "record",
         tx' = Tail(tx), UNCHANGED <<receiver, accepted, attempted>>
  PROVE  ChannelInOrder'
<1>1. \A i \in 1 .. Len(tx') : i + 1 \in 1 .. Len(tx) /\ tx'[i] = tx[i + 1]  BY TakenFrom
<1>2. ASSUME NEW i \in 1 .. Len(tx), tx[i].type = "record"
      PROVE  i - 1 \in 1 .. Len(tx') /\ tx'[i - 1] = tx[i]
  BY <1>2, TakenFrom
<1>3. \A r \in attempted + 1 .. accepted : \A i \in 1 .. Len(tx) :
        tx[i] = Record(r) => tx'[i - 1] = Record(r) /\ i - 1 \in 1 .. Len(tx')
  BY <1>2 DEF Record
<1>4. receiver' => \A r \in attempted' + 1 .. accepted' : \E i \in 1 .. Len(tx') : tx'[i] = Record(r)
  BY <1>3 DEF ChannelInOrder
<1>5. \A i \in 1 .. Len(tx') : RecordsAt(i)' => tx'[i].rec > attempted' /\ tx'[i].rec <= accepted'
  BY <1>1 DEF ChannelInOrder, RecordsAt
<1>6. \A i, j \in 1 .. Len(tx') : i < j /\ RecordsAt(i)' /\ RecordsAt(j)' => tx'[i].rec < tx'[j].rec
  BY <1>1 DEF ChannelInOrder, RecordsAt
<1> QED  BY <1>4, <1>5, <1>6 DEF ChannelInOrder, RecordsAt

\* Taking a command keeps the barriers behind what they cover.
LEMMA BarriersTaken ==
  ASSUME TypeOK, BarriersCover, tx # << >>, tx' = Tail(tx), UNCHANGED <<accepted, ticket, mark>>
  PROVE  BarriersCover'
<1>1. \A i \in 1 .. Len(tx') : i + 1 \in 1 .. Len(tx) /\ tx'[i] = tx[i + 1]  BY TakenFrom
<1>2. \A i, j \in 1 .. Len(tx') : i < j => i + 1 < j + 1  OBVIOUS
<1> QED  BY <1>1, <1>2 DEF BarriersCover, RecordsAt

\* The record taken is the first one not yet attempted.
LEMMA RecordsComeInOrder ==
  ASSUME TypeOK, ChannelInOrder, receiver, tx # << >>, Head(tx).type = "record"
  PROVE  Head(tx).rec = attempted + 1 /\ Head(tx).rec <= accepted
<1> DEFINE h == Head(tx)
<1>1. h = tx[1] /\ 1 \in 1 .. Len(tx)  BY DEF TypeOK
<1>2. h.rec > attempted /\ h.rec <= accepted  BY <1>1 DEF ChannelInOrder, RecordsAt
<1>3. h.rec \in Nat  BY <1>1, CommandAt
<1>4. attempted + 1 \in attempted + 1 .. accepted  BY <1>2, <1>3 DEF TypeOK
<1>5. PICK i \in 1 .. Len(tx) : tx[i] = Record(attempted + 1)  BY <1>4 DEF ChannelInOrder
<1>6. tx[i].type = "record" /\ tx[i].rec = attempted + 1  BY <1>5 DEF Record
<1>7. i = 1 \/ h.rec < tx[i].rec
  BY <1>1, <1>6 DEF ChannelInOrder, RecordsAt
<1> QED  BY <1>1, <1>2, <1>3, <1>6, <1>7 DEF TypeOK

\* When a barrier comes to the front, everything it covers was attempted.
LEMMA BarrierAtFront ==
  ASSUME IInv, receiver, tx # << >>, Head(tx).type = "barrier"
  PROVE  Head(tx).mark <= attempted
<1> DEFINE b == Head(tx)
<1> USE DEF IInv
<1>1. b = tx[1] /\ 1 \in 1 .. Len(tx)  BY DEF TypeOK
<1>2. b.mark \in Nat  BY <1>1, CommandAt
<1>3. b.mark <= accepted  BY <1>1 DEF BarriersCover
<1>4. SUFFICES ASSUME attempted < b.mark PROVE FALSE  BY <1>2 DEF TypeOK
<1>5. attempted + 1 \in attempted + 1 .. accepted  BY <1>2, <1>3, <1>4 DEF TypeOK
<1>6. PICK i \in 1 .. Len(tx) : tx[i] = Record(attempted + 1)  BY <1>5 DEF ChannelInOrder
<1>7. tx[i].type = "record" /\ tx[i].rec = attempted + 1  BY <1>6 DEF Record
<1>8. i # 1  BY <1>1, <1>7
<1>9. tx[i].rec > b.mark  BY <1>1, <1>7, <1>8 DEF BarriersCover, RecordsAt
<1> QED  BY <1>2, <1>4, <1>7, <1>9 DEF TypeOK

-----------------------------------------------------------------------------
(* The steps that do disturb one of the four parts.                        *)

LEMMA EnqueueAcceptedKeeps ==
  ASSUME IInv, TypeOK', NEW c \in Clients, EnqueueAccepted(c)
  PROVE  IInv'
<1> USE DEF IInv
<1> DEFINE cmd == Record(accepted + 1)
<1>1. /\ tx' = Append(tx, cmd) /\ accepted' = accepted + 1 /\ receiver
      /\ pc' = [pc EXCEPT ![c] = "counting"]
      /\ UNCHANGED <<attempted, receiver, ticket, mark, reply, db, synced, failed, writer, promised>>
  BY DEF EnqueueAccepted, Goto, calls, disk, shared
<1>2. cmd \in Command /\ cmd.type = "record" /\ cmd.rec = accepted + 1
  BY DEF Record, Command, TypeOK
<1>3. /\ Len(tx) \in Nat /\ Len(tx') = Len(tx) + 1 /\ tx'[Len(tx) + 1] = cmd
      /\ \A i \in 1 .. Len(tx) : tx'[i] = tx[i]
  BY <1>1, <1>2, AppendedAt
<1>4. accepted \in Nat /\ attempted \in Nat /\ attempted <= accepted
  BY DEF TypeOK, DatabaseComplete
<1>5. ChannelInOrder'
  <2>1. \A i \in 1 .. Len(tx') : RecordsAt(i)' => tx'[i].rec > attempted /\ tx'[i].rec <= accepted + 1
    <3> SUFFICES ASSUME NEW i \in 1 .. Len(tx'), RecordsAt(i)'
                 PROVE  tx'[i].rec > attempted /\ tx'[i].rec <= accepted + 1
      OBVIOUS
    <3>1. CASE i = Len(tx) + 1  BY <3>1, <1>2, <1>3, <1>4
    <3>2. CASE i \in 1 .. Len(tx)
      <4>1. tx'[i] = tx[i] /\ tx[i].rec > attempted /\ tx[i].rec <= accepted
        BY <3>2, <1>3 DEF ChannelInOrder, RecordsAt
      <4>2. tx[i].rec \in Nat
        BY <3>2, <4>1, CommandAt DEF RecordsAt
      <4> QED  BY <4>1, <4>2, <1>4
    <3> QED  BY <3>1, <3>2, <1>3
  <2>2. ASSUME NEW i \in 1 .. Len(tx'), NEW j \in 1 .. Len(tx'), i < j, RecordsAt(i)', RecordsAt(j)'
        PROVE  tx'[i].rec < tx'[j].rec
    <3>1. i \in 1 .. Len(tx) /\ tx'[i] = tx[i]  BY <2>2, <1>3
    <3>2. tx[i].rec <= accepted /\ tx[i].rec \in Nat
      BY <2>2, <3>1, CommandAt DEF ChannelInOrder, RecordsAt
    <3>3. CASE j = Len(tx) + 1  BY <3>1, <3>2, <3>3, <1>2, <1>3, <1>4
    <3>4. CASE j \in 1 .. Len(tx)
      BY <2>2, <3>1, <3>4, <1>3 DEF ChannelInOrder, RecordsAt
    <3> QED  BY <3>3, <3>4, <1>3
  <2>3. ASSUME NEW r \in attempted + 1 .. accepted + 1
        PROVE  \E i \in 1 .. Len(tx') : tx'[i] = Record(r)
    <3>1. CASE r = accepted + 1  BY <3>1, <1>3
    <3>2. CASE r \in attempted + 1 .. accepted
      <4>1. PICK i \in 1 .. Len(tx) : tx[i] = Record(r)  BY <3>2, <1>1 DEF ChannelInOrder
      <4> QED  BY <4>1, <1>3
    <3> QED  BY <3>1, <3>2, <1>4
  <2> QED  BY <1>1, <2>1, <2>2, <2>3 DEF ChannelInOrder
<1>6. BarriersCover'
  <2> SUFFICES ASSUME NEW i \in 1 .. Len(tx'), tx'[i].type = "barrier"
               PROVE  /\ tx'[i].mark <= accepted'
                      /\ \A j \in 1 .. Len(tx') : i < j /\ RecordsAt(j)' => tx'[j].rec > tx'[i].mark
                      /\ tx'[i].ticket <= ticket'[tx'[i].who]
                      /\ tx'[i].ticket = ticket'[tx'[i].who] => tx'[i].mark = mark'[tx'[i].who]
    BY DEF BarriersCover
  <2>1. i \in 1 .. Len(tx) /\ tx'[i] = tx[i]  BY <1>2, <1>3
  <2>2. tx[i].mark \in Nat  BY <2>1, CommandAt
  <2>3. tx[i].mark <= accepted  BY <2>1 DEF BarriersCover
  <2>4. ASSUME NEW j \in 1 .. Len(tx'), i < j, RecordsAt(j)'
        PROVE  tx'[j].rec > tx'[i].mark
    <3>1. CASE j = Len(tx) + 1  BY <3>1, <2>1, <2>2, <2>3, <1>2, <1>3, <1>4
    <3>2. CASE j \in 1 .. Len(tx)
      BY <2>1, <2>4, <3>2, <1>3 DEF BarriersCover, RecordsAt
    <3> QED  BY <3>1, <3>2, <1>3
  <2>5. tx'[i].mark <= accepted'  BY <2>1, <2>2, <2>3, <1>1, <1>4
  <2>6. tx[i].ticket <= ticket[tx[i].who] /\ (tx[i].ticket = ticket[tx[i].who] => tx[i].mark = mark[tx[i].who])
    BY <2>1 DEF BarriersCover
  <2> QED  BY <2>1, <2>4, <2>5, <2>6, <1>1
<1>7. DatabaseComplete'  BY <1>1, <1>4 DEF DatabaseComplete, TypeOK
<1>8. RepliesHonest'
  <2>1. \A d \in Clients : pc'[d] = pc[d] \/ pc'[d] = "counting"  BY <1>1 DEF TypeOK
  <2> QED  BY <1>1, <1>4, <2>1 DEF RepliesHonest, TypeOK
<1> QED  BY <1>5, <1>6, <1>7, <1>8

LEMMA FlushCalledKeeps ==
  ASSUME IInv, TypeOK', NEW c \in Clients, FlushCalled(c)
  PROVE  IInv'
<1> USE DEF IInv
<1>1. /\ pc' = [pc EXCEPT ![c] = "flush_send"]
      /\ ticket' = [ticket EXCEPT ![c] = @ + 1]
      /\ mark' = [mark EXCEPT ![c] = accepted]
      /\ reply' = [reply EXCEPT ![c] = "none"]
      /\ UNCHANGED <<tx, receiver, accepted, attempted, db, synced, failed, writer, promised>>
  BY DEF FlushCalled, Goto, disk, shared
<1>2. ChannelInOrder'  BY <1>1, ChannelUntouched
<1>3. BarriersCover'
  <2> SUFFICES ASSUME NEW i \in 1 .. Len(tx), tx[i].type = "barrier"
               PROVE  /\ tx[i].mark <= accepted
                      /\ \A j \in 1 .. Len(tx) : i < j /\ RecordsAt(j) => tx[j].rec > tx[i].mark
                      /\ tx[i].ticket <= ticket'[tx[i].who]
                      /\ tx[i].ticket = ticket'[tx[i].who] => tx[i].mark = mark'[tx[i].who]
    BY <1>1 DEF BarriersCover, RecordsAt
  <2>1. tx[i].who \in Clients /\ tx[i].ticket \in Nat
    BY CommandAt
  <2>2. tx[i].ticket <= ticket[tx[i].who]  BY DEF BarriersCover
  <2>3. CASE tx[i].who = c
    BY <1>1, <2>1, <2>2, <2>3 DEF TypeOK, BarriersCover
  <2>4. CASE tx[i].who # c
    BY <1>1, <2>1, <2>2, <2>4 DEF TypeOK, BarriersCover
  <2> QED  BY <2>3, <2>4
<1>4. DatabaseComplete'  BY <1>1, DatabaseUntouched DEF DatabaseComplete
<1>5. RepliesHonest'
  <2>1. \A d \in Clients : \/ d # c /\ pc'[d] = pc[d] /\ mark'[d] = mark[d] /\ reply'[d] = reply[d]
                           \/ pc'[d] = "flush_send" /\ mark'[d] = accepted /\ reply'[d] = "none"
    BY <1>1 DEF TypeOK
  <2> QED  BY <1>1, <2>1 DEF RepliesHonest, TypeOK
<1> QED  BY <1>2, <1>3, <1>4, <1>5

LEMMA FlushSendsBarrierKeeps ==
  ASSUME IInv, TypeOK', NEW c \in Clients, FlushSendsBarrier(c)
  PROVE  IInv'
<1> USE DEF IInv
<1> DEFINE cmd == Barrier(c, ticket[c], mark[c])
<1>1. /\ tx' = Append(tx, cmd) /\ pc[c] = "flush_send"
      /\ pc' = [pc EXCEPT ![c] = "flush_wait"]
      /\ UNCHANGED <<accepted, attempted, receiver, ticket, mark, reply, db, synced, failed, writer, promised>>
  BY DEF FlushSendsBarrier, Goto, disk, shared
<1>2. /\ cmd \in Command /\ cmd.type = "barrier" /\ cmd.who = c
      /\ cmd.ticket = ticket[c] /\ cmd.mark = mark[c]
  BY DEF Barrier, Command, TypeOK
<1>3. /\ Len(tx) \in Nat /\ Len(tx') = Len(tx) + 1 /\ tx'[Len(tx) + 1] = cmd
      /\ \A i \in 1 .. Len(tx) : tx'[i] = tx[i]
  BY <1>1, <1>2, AppendedAt
<1>4. ChannelInOrder'  BY <1>1, <1>2, OtherAppended
<1>5. BarriersCover'
  <2> SUFFICES ASSUME NEW i \in 1 .. Len(tx'), tx'[i].type = "barrier"
               PROVE  /\ tx'[i].mark <= accepted
                      /\ \A j \in 1 .. Len(tx') : i < j /\ RecordsAt(j)' => tx'[j].rec > tx'[i].mark
                      /\ tx'[i].ticket <= ticket[tx'[i].who]
                      /\ tx'[i].ticket = ticket[tx'[i].who] => tx'[i].mark = mark[tx'[i].who]
    BY <1>1 DEF BarriersCover
  <2>1. CASE i = Len(tx) + 1
    <3>1. mark[c] <= accepted /\ ticket[c] <= ticket[c]  BY DEF RepliesHonest, TypeOK
    <3> QED  BY <2>1, <3>1, <1>2, <1>3
  <2>2. CASE i \in 1 .. Len(tx)
    <3>1. \A j \in 1 .. Len(tx') : RecordsAt(j)' => j \in 1 .. Len(tx) /\ RecordsAt(j) /\ tx'[j] = tx[j]
      BY <1>2, <1>3 DEF RecordsAt
    <3> QED  BY <2>2, <3>1, <1>3 DEF BarriersCover, RecordsAt
  <2> QED  BY <2>1, <2>2, <1>3
<1>6. DatabaseComplete'  BY <1>1, DatabaseUntouched DEF DatabaseComplete
<1>7. RepliesHonest'
  <2>1. reply[c] = "none"  BY <1>1 DEF RepliesHonest
  <2>2. \A d \in Clients : \/ d # c /\ pc'[d] = pc[d]
                           \/ d = c /\ pc'[d] = "flush_wait"
    BY <1>1 DEF TypeOK
  <2> QED  BY <1>1, <2>1, <2>2 DEF RepliesHonest
<1> QED  BY <1>4, <1>5, <1>6, <1>7

\* A Stop is put at the back of the channel, by shutdown or by drop.
LEMMA StopAppendedKeeps ==
  ASSUME IInv, TypeOK', tx' = Append(tx, StopCommand),
         UNCHANGED <<accepted, attempted, receiver, ticket, mark, reply, db, synced, failed, writer, promised>>,
         \A c \in Clients : \/ pc'[c] = pc[c]
                            \/ pc'[c] \notin {"flush_send", "flush_wait", "flush_ok"}
  PROVE  IInv'
<1> USE DEF IInv
<1>1. StopCommand \in Command /\ StopCommand.type = "stop"  BY DEF Command, StopCommand
<1>2. /\ Len(tx) \in Nat /\ Len(tx') = Len(tx) + 1 /\ tx'[Len(tx) + 1] = StopCommand
      /\ \A i \in 1 .. Len(tx) : tx'[i] = tx[i]
  BY <1>1, AppendedAt
<1>3. ChannelInOrder'  BY <1>1, OtherAppended
<1>4. BarriersCover'
  <2>1. \A i \in 1 .. Len(tx') : tx'[i].type # "stop" => i \in 1 .. Len(tx) /\ tx'[i] = tx[i]
    BY <1>1, <1>2
  <2> QED  BY <2>1 DEF BarriersCover, RecordsAt
<1>5. DatabaseComplete'  BY DatabaseUntouched DEF DatabaseComplete
<1>6. RepliesHonest'  BY RepliesUntouched
<1> QED  BY <1>3, <1>4, <1>5, <1>6

\* apply_record, whether SQLite accepts the record or not.
LEMMA WriterAppliesKeeps ==
  ASSUME IInv, TypeOK', WriterApplies
  PROVE  IInv'
<1> USE DEF IInv
<1> DEFINE h == Head(tx)
<1>1. /\ tx # << >> /\ h.type = "record" /\ tx' = Tail(tx) /\ attempted' = h.rec
      /\ writer \in {"running", "draining"}
      /\ UNCHANGED <<receiver, accepted, synced, pc, ticket, mark, reply, promised, writer>>
  BY DEF WriterApplies, Receives, calls
<1>2. receiver  BY <1>1 DEF DatabaseComplete
<1>3. h.rec = attempted + 1 /\ h.rec <= accepted  BY <1>1, <1>2, RecordsComeInOrder
<1>4. /\ \A i \in 1 .. Len(tx') : i + 1 \in 1 .. Len(tx) /\ tx'[i] = tx[i + 1]
      /\ h = tx[1] /\ Len(tx) \in Nat \ {0} /\ Len(tx') = Len(tx) - 1
  BY <1>1, TakenFrom
<1>5. ChannelInOrder'
  <2>1. ASSUME NEW i \in 1 .. Len(tx'), RecordsAt(i)'
        PROVE  tx'[i].rec > attempted' /\ tx'[i].rec <= accepted'
    BY <1>1, <1>4, <2>1 DEF ChannelInOrder, RecordsAt
  <2>2. ASSUME NEW i \in 1 .. Len(tx'), NEW j \in 1 .. Len(tx'), i < j, RecordsAt(i)', RecordsAt(j)'
        PROVE  tx'[i].rec < tx'[j].rec
    <3>1. i + 1 < j + 1  BY <2>2
    <3> QED  BY <1>4, <2>2, <3>1 DEF ChannelInOrder, RecordsAt
  <2>3. ASSUME NEW r \in attempted' + 1 .. accepted'
        PROVE  \E i \in 1 .. Len(tx') : tx'[i] = Record(r)
    <3>1. r \in attempted + 1 .. accepted /\ r # attempted + 1
      BY <1>1, <1>3 DEF TypeOK
    <3>2. PICK i \in 1 .. Len(tx) : tx[i] = Record(r)  BY <3>1, <1>2 DEF ChannelInOrder
    <3>3. i # 1  BY <3>1, <3>2, <1>1, <1>3, <1>4 DEF Record
    <3>4. i - 1 \in 1 .. Len(tx') /\ tx'[i - 1] = Record(r)
      <4>1. i - 1 \in 1 .. Len(tx')  BY <3>3, <1>4
      <4>2. tx'[i - 1] = tx[(i - 1) + 1]  BY <4>1, <1>4
      <4> QED  BY <4>1, <4>2, <3>2
    <3> QED  BY <3>4
  <2> QED  BY <2>1, <2>2, <2>3 DEF ChannelInOrder
<1>6. BarriersCover'  BY <1>1, BarriersTaken
<1>7. DatabaseComplete'
  <2>1. attempted' <= accepted' /\ synced' <= attempted'
    BY <1>1, <1>3 DEF DatabaseComplete, TypeOK
  <2>2. db \subseteq db'  BY DEF WriterApplies, ApplyFails
  <2>3. receiver' /\ failed' = 0 => 1 .. attempted' \subseteq db'
    <3> SUFFICES ASSUME failed' = 0 PROVE 1 .. attempted' \subseteq db'  OBVIOUS
    <3>1. failed = 0 /\ db' = db \union {attempted + 1}
      BY <1>1, <1>3 DEF WriterApplies, ApplyFails, TypeOK
    <3>2. 1 .. attempted \subseteq db  BY <3>1, <1>2 DEF DatabaseComplete
    <3> QED  BY <3>1, <3>2, <1>1, <1>3 DEF TypeOK
  <2> QED  BY <2>1, <2>2, <2>3, <1>1 DEF DatabaseComplete
<1>8. RepliesHonest'  BY <1>1, RepliesUntouched
<1> QED  BY <1>5, <1>6, <1>7, <1>8

LEMMA WriterAnswersBarrierKeeps ==
  ASSUME IInv, TypeOK', WriterAnswersBarrier
  PROVE  IInv'
<1> USE DEF IInv
<1> DEFINE b == Head(tx)
<1>1. /\ tx # << >> /\ b.type = "barrier" /\ tx' = Tail(tx)
      /\ writer \in {"running", "draining"}
      /\ UNCHANGED <<receiver, failed, writer, pc, ticket, mark, db, accepted, attempted, promised>>
  BY DEF WriterAnswersBarrier, Receives, shared
<1>2. receiver  BY <1>1 DEF DatabaseComplete
<1>3. b = tx[1] /\ 1 \in 1 .. Len(tx)  BY <1>1 DEF TypeOK
<1>4. b.who \in Clients /\ b.ticket \in Nat /\ b.mark \in Nat  BY <1>1, <1>3, CommandAt
<1>5. b.mark <= attempted  BY <1>1, <1>2, BarrierAtFront
<1>6. b.ticket = ticket[b.who] => b.mark = mark[b.who]  BY <1>1, <1>3 DEF BarriersCover
<1>7. ChannelInOrder'  BY <1>1, OtherTaken
<1>8. BarriersCover'  BY <1>1, BarriersTaken
<1>9. CASE CheckpointOk /\ Answer(b, "ok")
  <2>1. failed = 0 /\ synced' = attempted  BY <1>9 DEF CheckpointOk
  <2>2. DatabaseComplete'  BY <1>1, <1>2, <2>1 DEF DatabaseComplete, TypeOK
  <2>3. synced <= synced'  BY <2>1 DEF DatabaseComplete
  <2>4. ASSUME NEW c \in Clients
        PROVE  \/ reply'[c] = reply[c]
               \/ pc[c] = "flush_wait" /\ mark[c] <= synced'
    BY <1>4, <1>5, <1>6, <1>9, <2>1 DEF Answer, TypeOK
  <2>5. RepliesHonest'
    <3>1. \A c \in Clients : mark[c] \in Nat  BY DEF TypeOK
    <3>2. synced \in Nat /\ synced' \in Nat /\ promised \in Nat  BY DEF TypeOK
    <3> QED  BY <1>1, <2>3, <2>4, <3>1, <3>2 DEF RepliesHonest
  <2> QED  BY <1>7, <1>8, <2>2, <2>5
<1>10. CASE CheckpointErr /\ Answer(b, "err")
  <2>1. UNCHANGED synced  BY <1>10 DEF CheckpointErr
  <2>2. DatabaseComplete'  BY <1>1, <2>1, DatabaseUntouched DEF DatabaseComplete
  <2>3. \A c \in Clients : reply'[c] = reply[c] \/ (pc[c] = "flush_wait" /\ reply'[c] = "err")
    BY <1>4, <1>10 DEF Answer, TypeOK
  <2>4. RepliesHonest'  BY <1>1, <2>1, <2>3 DEF RepliesHonest
  <2> QED  BY <1>7, <1>8, <2>2, <2>4
<1> QED  BY <1>9, <1>10 DEF WriterAnswersBarrier

LEMMA WriterReceivesStopKeeps ==
  ASSUME IInv, TypeOK', WriterReceivesStop
  PROVE  IInv'
<1> USE DEF IInv
<1>1. /\ tx # << >> /\ Head(tx).type = "stop" /\ tx' = Tail(tx)
      /\ writer \in {"running", "draining"}
      /\ UNCHANGED <<receiver, failed, pc, ticket, mark, reply, db, synced, accepted, attempted, promised>>
  BY DEF WriterReceivesStop, Receives, calls, disk, shared
<1>2. ChannelInOrder'  BY <1>1, OtherTaken
<1>3. BarriersCover'  BY <1>1, BarriersTaken
<1>4. DatabaseComplete'  BY <1>1, DatabaseUntouched DEF DatabaseComplete
<1>5. RepliesHonest'  BY <1>1, RepliesUntouched
<1> QED  BY <1>2, <1>3, <1>4, <1>5

\* The last checkpoint syncs whatever was attempted, or counts a failure.
LEMMA WriterCheckpointsLastKeeps ==
  ASSUME IInv, TypeOK', WriterCheckpointsLast
  PROVE  IInv'
<1> USE DEF IInv
<1>1. /\ writer = "final" /\ writer' = "closing"
      /\ UNCHANGED <<tx, receiver, pc, ticket, mark, reply, db, accepted, attempted, promised>>
  BY DEF WriterCheckpointsLast, WriterGoto, calls
<1>2. ChannelInOrder' /\ BarriersCover'  BY <1>1, ChannelUntouched, BarriersUntouched
<1>3. CASE CheckpointOk /\ UNCHANGED failed
  <2>1. failed = 0 /\ synced' = attempted /\ receiver  BY <1>1, <1>3 DEF CheckpointOk, DatabaseComplete
  <2>2. DatabaseComplete'  BY <1>1, <1>3, <2>1 DEF DatabaseComplete, TypeOK
  <2>3. synced <= synced'  BY <2>1 DEF DatabaseComplete
  <2>4. RepliesHonest'
    <3>1. \A c \in Clients : mark[c] \in Nat  BY DEF TypeOK
    <3>2. synced \in Nat /\ synced' \in Nat /\ promised \in Nat  BY DEF TypeOK
    <3> QED  BY <1>1, <2>3, <3>1, <3>2 DEF RepliesHonest
  <2> QED  BY <1>2, <2>2, <2>4
<1>4. CASE CheckpointErr /\ failed' = failed + 1
  <2>1. UNCHANGED synced /\ failed' # 0  BY <1>4 DEF CheckpointErr, TypeOK
  <2>2. DatabaseComplete'  BY <1>1, <2>1, DatabaseUntouched DEF DatabaseComplete
  <2>3. RepliesHonest'  BY <1>1, <2>1, RepliesUntouched
  <2> QED  BY <1>2, <2>2, <2>3
<1> QED  BY <1>3, <1>4 DEF WriterCheckpointsLast

\* The channel is discarded, at the writer's exit or by a crash.
LEMMA ChannelDiscarded ==
  ASSUME IInv, tx' = << >>, ~receiver'
  PROVE  ChannelInOrder' /\ BarriersCover'
BY DEF ChannelInOrder, BarriersCover

LEMMA WriterExitsKeeps ==
  ASSUME IInv, TypeOK', WriterExits
  PROVE  IInv'
<1> USE DEF IInv
<1>1. /\ tx' = << >> /\ ~receiver' /\ writer' = "exited"
      /\ UNCHANGED <<failed, pc, ticket, mark, reply, db, synced, accepted, attempted, promised>>
  BY DEF WriterExits, WriterGoto, calls, disk, shared
<1>2. DatabaseComplete'  BY <1>1, DatabaseUntouched
<1>3. RepliesHonest'  BY <1>1, RepliesUntouched
<1> QED  BY <1>1, <1>2, <1>3, ChannelDiscarded

LEMMA CrashKeeps ==
  ASSUME IInv, TypeOK', Crash
  PROVE  IInv'
<1> USE DEF IInv
<1>1. /\ tx' = << >> /\ ~receiver' /\ writer' = "exited"
      /\ pc' = [c \in Clients |-> "dead"]
      /\ UNCHANGED <<failed, ticket, mark, reply, synced, accepted, attempted, promised>>
  BY DEF Crash, shared
<1>2. 1 .. synced \subseteq db'
  <2>1. PICK kept \in synced .. attempted : db' = {r \in db : r <= kept}  BY DEF Crash
  <2>2. \A r \in 1 .. synced : r <= kept  BY <2>1 DEF TypeOK
  <2> QED  BY <2>1, <2>2 DEF DatabaseComplete
<1>3. DatabaseComplete'  BY <1>1, <1>2 DEF DatabaseComplete
<1>4. RepliesHonest'  BY <1>1, RepliesUntouched
<1> QED  BY <1>1, <1>3, <1>4, ChannelDiscarded

-----------------------------------------------------------------------------
(* The induction step, by thread.                                          *)

LEMMA ClientKeeps ==
  ASSUME IInv, TypeOK', NEW c \in Clients, ClientCalls(c) \/ ClientStep(c) \/ FlushTimesOut(c)
  PROVE  IInv'
<1> USE DEF IInv
<1> USE DEF shared, calls, disk, Goto
<1>0. (writer # "exited" => receiver) /\ pc \in [Clients -> ClientPhases]
  BY DEF DatabaseComplete, TypeOK
<1>1. CASE EnqueueAccepted(c)     BY <1>1, EnqueueAcceptedKeeps
<1>2. CASE EnqueueRefused(c)
  <2>1. failed' # 0  BY <1>2 DEF EnqueueRefused, TypeOK
  <2> QED  BY <1>0, <1>2, <2>1, QuietStep DEF EnqueueRefused
<1>3. CASE FlushCalled(c)         BY <1>3, FlushCalledKeeps
<1>4. CASE ShutdownCalled(c)      BY <1>0, <1>4, QuietStep DEF ShutdownCalled
<1>5. CASE CountQueued(c)         BY <1>0, <1>5, QuietStep DEF CountQueued
<1>6. CASE SetLastError(c)        BY <1>0, <1>6, QuietStep DEF SetLastError
<1>7. CASE FlushSendsBarrier(c)   BY <1>7, FlushSendsBarrierKeeps
<1>8. CASE FlushFindsNoWriter(c)  BY <1>0, <1>8, QuietStep DEF FlushFindsNoWriter
<1>9. CASE FlushHearsError(c)     BY <1>0, <1>9, QuietStep DEF FlushHearsError
<1>10. CASE FlushHearsOk(c)
  <2>1. /\ UNCHANGED <<tx, receiver, failed, writer, ticket, mark, reply, db, synced, accepted, attempted, promised>>
        /\ pc[c] = "flush_wait" /\ reply[c] = "ok"
        /\ \A d \in Clients : pc'[d] = pc[d] \/ (d = c /\ pc'[d] = "flush_ok")
    BY <1>0, <1>10 DEF FlushHearsOk
  <2>2. ChannelInOrder' /\ BarriersCover' /\ DatabaseComplete'
    BY <1>0, <2>1, ChannelUntouched, BarriersUntouched, DatabaseUntouched
  <2>3. RepliesHonest'  BY <2>1 DEF RepliesHonest
  <2> QED  BY <2>2, <2>3
<1>11. CASE FlushReturnsOk(c)
  <2>1. /\ UNCHANGED <<tx, receiver, failed, writer, ticket, mark, reply, db, synced, accepted, attempted>>
        /\ pc[c] = "flush_ok" /\ promised' = Larger(promised, mark[c])
        /\ \A d \in Clients : pc'[d] = pc[d] \/ pc'[d] = "idle"
    BY <1>0, <1>11 DEF FlushReturnsOk
  <2>2. ChannelInOrder' /\ BarriersCover' /\ DatabaseComplete'
    BY <1>0, <2>1, ChannelUntouched, BarriersUntouched, DatabaseUntouched
  <2>3. promised' <= synced  BY <2>1 DEF RepliesHonest, Larger
  <2>4. RepliesHonest'  BY <2>1, <2>3 DEF RepliesHonest
  <2> QED  BY <2>2, <2>4
<1>12. CASE ShutdownSendsStop(c)
  <2>1. \A d \in Clients : pc'[d] = pc[d] \/ pc'[d] = "take"
    BY <1>0, <1>12 DEF ShutdownSendsStop
  <2>2. CASE tx' = Append(tx, StopCommand)
    BY <1>12, <2>1, <2>2, StopAppendedKeeps DEF ShutdownSendsStop
  <2>3. CASE UNCHANGED tx
    BY <1>0, <1>12, <2>1, <2>3, QuietStep DEF ShutdownSendsStop
  <2> QED  BY <1>12, <2>2, <2>3 DEF ShutdownSendsStop
<1>13. CASE ShutdownTakesHandle(c)
  <2>1. \A d \in Clients : pc'[d] = pc[d] \/ pc'[d] \in {"join", "idle"}
    BY <1>0, <1>13 DEF ShutdownTakesHandle
  <2> QED  BY <1>0, <1>13, <2>1, QuietStep DEF ShutdownTakesHandle
<1>14. CASE ShutdownJoins(c)      BY <1>0, <1>14, QuietStep DEF ShutdownJoins
<1>15. CASE FlushTimesOut(c)      BY <1>0, <1>15, QuietStep DEF FlushTimesOut
<1> QED
  BY <1>1, <1>2, <1>3, <1>4, <1>5, <1>6, <1>7, <1>8, <1>9, <1>10, <1>11, <1>12, <1>13,
     <1>14, <1>15 DEF ClientCalls, ClientStep

LEMMA WriterKeeps ==
  ASSUME IInv, TypeOK', WriterStep
  PROVE  IInv'
<1> USE DEF IInv
<1> USE DEF shared, calls, disk, WriterGoto
<1>0. (writer # "exited" => receiver) /\ failed \in Nat  BY DEF DatabaseComplete, TypeOK
<1>1. CASE WriterSetsLastError    BY <1>0, <1>1, QuietStep DEF WriterSetsLastError
<1>2. CASE WriterConnects         BY <1>0, <1>2, QuietStep DEF WriterConnects
<1>3. CASE WriterCannotConnect    BY <1>0, <1>3, QuietStep DEF WriterCannotConnect
<1>4. CASE WriterVerifies         BY <1>0, <1>4, QuietStep DEF WriterVerifies
<1>5. CASE WriterApplies          BY <1>5, WriterAppliesKeeps
<1>6. CASE WriterAnswersBarrier   BY <1>6, WriterAnswersBarrierKeeps
<1>7. CASE WriterReceivesStop     BY <1>7, WriterReceivesStopKeeps
<1>8. CASE WriterFindsStopRequest BY <1>0, <1>8, QuietStep DEF WriterFindsStopRequest
<1>9. CASE WriterDrained          BY <1>0, <1>9, QuietStep DEF WriterDrained
<1>10. CASE WriterCheckpointsLast BY <1>10, WriterCheckpointsLastKeeps
<1>11. CASE WriterCloses          BY <1>0, <1>11, QuietStep DEF WriterCloses
<1>12. CASE WriterExits           BY <1>12, WriterExitsKeeps
<1> QED
  BY <1>1, <1>2, <1>3, <1>4, <1>5, <1>6, <1>7, <1>8, <1>9, <1>10, <1>11, <1>12
  DEF WriterStep

LEMMA InitInv == Init => IInv
<1> SUFFICES ASSUME Init PROVE IInv  OBVIOUS
<1>1. TypeOK  BY InitType
<1>2. ChannelInOrder /\ BarriersCover  BY DEF Init, ChannelInOrder, BarriersCover
<1>3. DatabaseComplete /\ RepliesHonest  BY DEF Init, DatabaseComplete, RepliesHonest
<1> QED  BY <1>1, <1>2, <1>3 DEF IInv

LEMMA NextInv ==
  ASSUME IInv, [Next]_vars
  PROVE  IInv'
<1>0. TypeOK'  BY NextType DEF IInv
<1>1. writer # "exited" => receiver  BY DEF IInv, DatabaseComplete
<1>2. CASE OpenTimesOut
  BY <1>0, <1>1, <1>2, QuietStep DEF OpenTimesOut, calls, disk
<1>3. ASSUME NEW c \in Clients, ClientCalls(c) \/ ClientStep(c) \/ FlushTimesOut(c)
      PROVE  IInv'
  BY <1>0, <1>3, ClientKeeps
<1>4. CASE Drop
  <2>1. CASE tx' = Append(tx, StopCommand)
    BY <1>0, <1>4, <2>1, StopAppendedKeeps DEF Drop, calls, disk
  <2>2. CASE UNCHANGED tx
    BY <1>0, <1>1, <1>4, <2>2, QuietStep DEF Drop, calls, disk
  <2> QED  BY <1>4, <2>1, <2>2 DEF Drop
<1>5. CASE WriterStep  BY <1>0, <1>5, WriterKeeps
<1>6. CASE Crash       BY <1>0, <1>6, CrashKeeps
<1>7. CASE UNCHANGED vars
  BY <1>0, <1>1, <1>7, QuietStep DEF vars, shared, calls, disk
<1> QED  BY <1>2, <1>3, <1>4, <1>5, <1>6, <1>7 DEF Next

\* The inductive invariant: channel, barriers, database and replies agree.
THEOREM Inductive == Spec => []IInv
<1>1. IInv /\ [Next]_vars => IInv'  BY NextInv
<1> QED  BY InitInv, <1>1, PTL DEF Spec

\* Every record accepted before a flush that returned Ok is in the database
\* for good, for any number of callers, any capacity and any crash.
THEOREM FlushPromise == Spec => []PromiseKept
<1>1. IInv => PromiseKept
  <2> SUFFICES ASSUME IInv PROVE PromiseKept  OBVIOUS
  <2>1. promised <= synced /\ 1 .. synced \subseteq db
    BY DEF IInv, RepliesHonest, DatabaseComplete
  <2> QED  BY <2>1 DEF PromiseKept, IInv, TypeOK
<1> QED  BY <1>1, Inductive, PTL

-----------------------------------------------------------------------------
(* The mirror implements WriteBehind: every step is one of its steps or    *)
(* leaves its variables alone.                                             *)

LEMMA Refines ==
  ASSUME IInv, IInv', [Next]_vars
  PROVE  [Mirror!Next]_(Mirror!vars)
<1> USE DEF Mirror!vars
<1> USE DEF shared, calls, disk, WriterGoto, Goto
<1>0. /\ accepted \in Nat /\ attempted \in Nat /\ synced \in Nat /\ promised \in Nat
      /\ failed \in Nat /\ promised <= synced /\ synced <= attempted /\ db \subseteq Nat
      /\ 1 .. synced \subseteq db /\ mark \in [Clients -> Nat]
  BY DEF IInv, TypeOK, DatabaseComplete, RepliesHonest
<1>1. CASE UNCHANGED <<accepted, attempted, db, promised>> /\ (failed' = failed \/ failed' = failed + 1)
  <2>1. CASE failed' = failed  BY <1>1, <2>1
  <2>2. CASE failed' = failed + 1
    <3>1. Mirror!ReportLoss  BY <1>0, <1>1, <2>2 DEF Mirror!ReportLoss
    <3> QED  BY <3>1 DEF Mirror!Next
  <2> QED  BY <1>1, <2>1, <2>2
<1>2. CASE OpenTimesOut  BY <1>1, <1>2 DEF OpenTimesOut
<1>3. CASE Drop          BY <1>1, <1>3 DEF Drop
<1>4. ASSUME NEW c \in Clients, ClientCalls(c) \/ ClientStep(c) \/ FlushTimesOut(c)
      PROVE  [Mirror!Next]_(Mirror!vars)
  <2>1. CASE EnqueueAccepted(c)
    <3>1. Mirror!Accept  BY <2>1 DEF EnqueueAccepted, Mirror!Accept
    <3> QED  BY <3>1 DEF Mirror!Next
  <2>2. CASE FlushReturnsOk(c)
    <3>1. mark[c] <= synced /\ mark[c] \in Nat
      BY <1>0, <2>2 DEF FlushReturnsOk, IInv, RepliesHonest
    <3>2. promised' \in promised .. attempted /\ 1 .. promised' \subseteq db
      BY <1>0, <2>2, <3>1 DEF FlushReturnsOk, Larger
    <3>3. Mirror!Promise  BY <2>2, <3>2 DEF FlushReturnsOk, Mirror!Promise
    <3> QED  BY <3>3 DEF Mirror!Next
  <2>3. CASE EnqueueRefused(c)       BY <1>1, <2>3 DEF EnqueueRefused
  <2>4. CASE FlushCalled(c)          BY <1>1, <2>4 DEF FlushCalled
  <2>5. CASE ShutdownCalled(c)       BY <1>1, <2>5 DEF ShutdownCalled
  <2>6. CASE CountQueued(c)          BY <1>1, <2>6 DEF CountQueued
  <2>7. CASE SetLastError(c)         BY <1>1, <2>7 DEF SetLastError
  <2>8. CASE FlushSendsBarrier(c)    BY <1>1, <2>8 DEF FlushSendsBarrier
  <2>9. CASE FlushFindsNoWriter(c)   BY <1>1, <2>9 DEF FlushFindsNoWriter
  <2>10. CASE FlushHearsError(c)     BY <1>1, <2>10 DEF FlushHearsError
  <2>11. CASE FlushHearsOk(c)        BY <1>1, <2>11 DEF FlushHearsOk
  <2>12. CASE ShutdownSendsStop(c)   BY <1>1, <2>12 DEF ShutdownSendsStop
  <2>13. CASE ShutdownTakesHandle(c) BY <1>1, <2>13 DEF ShutdownTakesHandle
  <2>14. CASE ShutdownJoins(c)       BY <1>1, <2>14 DEF ShutdownJoins
  <2>15. CASE FlushTimesOut(c)       BY <1>1, <2>15 DEF FlushTimesOut
  <2> QED
    BY <1>4, <2>1, <2>2, <2>3, <2>4, <2>5, <2>6, <2>7, <2>8, <2>9, <2>10, <2>11, <2>12,
       <2>13, <2>14, <2>15 DEF ClientCalls, ClientStep
<1>5. CASE WriterApplies
  <2>1. tx # << >> /\ Head(tx).type = "record" /\ attempted' = Head(tx).rec /\ receiver
    BY <1>5 DEF WriterApplies, Receives, IInv, DatabaseComplete
  <2>2. attempted' = attempted + 1 /\ attempted < accepted
    BY <1>0, <2>1, RecordsComeInOrder DEF IInv
  <2>3. CASE db' = db \union {Head(tx).rec} /\ UNCHANGED failed
    <3>1. Mirror!Store  BY <1>5, <2>1, <2>2, <2>3 DEF WriterApplies, Mirror!Store
    <3> QED  BY <3>1 DEF Mirror!Next
  <2>4. CASE ApplyFails
    <3>1. Mirror!FailToStore
      BY <1>0, <1>5, <2>2, <2>4 DEF WriterApplies, ApplyFails, Mirror!FailToStore
    <3> QED  BY <3>1 DEF Mirror!Next
  <2> QED  BY <1>5, <2>3, <2>4 DEF WriterApplies
<1>6. CASE WriterStep /\ ~WriterApplies
  <2>1. UNCHANGED <<accepted, attempted, db, promised>> /\ (failed' = failed \/ failed' = failed + 1)
    BY <1>6 DEF WriterStep, WriterSetsLastError, WriterConnects, WriterCannotConnect,
       WriterVerifies, WriterAnswersBarrier, WriterReceivesStop, WriterFindsStopRequest,
       WriterDrained, WriterCheckpointsLast, WriterCloses, WriterExits
  <2> QED  BY <2>1, <1>1
<1>7. CASE Crash
  <2>1. PICK kept \in synced .. attempted : db' = {r \in db : r <= kept}  BY <1>7 DEF Crash
  <2>2. kept \in promised .. attempted  BY <1>0, <2>1
  <2>3. Mirror!Crash  BY <1>7, <2>1, <2>2 DEF Crash, Mirror!Crash
  <2> QED  BY <2>3 DEF Mirror!Next
<1>8. CASE UNCHANGED vars  BY <1>8 DEF vars
<1> QED  BY <1>2, <1>3, <1>4, <1>5, <1>6, <1>7, <1>8 DEF Next

\* The mirror with its threads, channel and counters implements the abstract
\* write-behind promise.
THEOREM Implements == Spec => ImplementsWriteBehind
<1>1. Init => Mirror!Init  BY DEF Init, Mirror!Init
<1>2. IInv /\ IInv' /\ [Next]_vars => [Mirror!Next]_(Mirror!vars)  BY Refines
<1> QED  BY <1>1, <1>2, Inductive, PTL DEF Spec, ImplementsWriteBehind, Mirror!Spec

-----------------------------------------------------------------------------
(* The books: what the counters say of the records.                        *)

\* Calls that have sent a record they did not count yet.
Counting == {c \in Clients : pc[c] = "counting"}

LedgerInv ==
  /\ IInv
  /\ attempted <= applied + failed
  /\ IsFiniteSet(Counting) /\ queued + Cardinality(Counting) <= accepted

\* The steps that move a record or count one; any other step at most counts a failure.
LEMMA Bookings ==
  ASSUME TypeOK, Next
  PROVE  \/ \E c \in Clients : EnqueueAccepted(c) \/ CountQueued(c)
         \/ WriterApplies \/ Crash
         \/ /\ UNCHANGED <<accepted, attempted, applied, queued, db>>
            /\ failed' = failed \/ failed' = failed + 1
            /\ \A d \in Clients : pc'[d] = "counting" <=> pc[d] = "counting"
<1> USE DEF shared, calls, disk, WriterGoto, Goto, TypeOK
<1> DEFINE Idle ==
  /\ UNCHANGED <<accepted, attempted, applied, queued, db>>
  /\ failed' = failed \/ failed' = failed + 1
  /\ \A d \in Clients : pc'[d] = "counting" <=> pc[d] = "counting"
<1>1. CASE OpenTimesOut  BY <1>1 DEF OpenTimesOut
<1>2. CASE Drop          BY <1>2 DEF Drop
<1>3. ASSUME NEW c \in Clients, ClientCalls(c) \/ ClientStep(c) \/ FlushTimesOut(c),
             ~EnqueueAccepted(c), ~CountQueued(c)
      PROVE  Idle
  <2>1. CASE EnqueueRefused(c)       BY <2>1 DEF EnqueueRefused
  <2>2. CASE FlushCalled(c)          BY <2>2 DEF FlushCalled
  <2>3. CASE ShutdownCalled(c)       BY <2>3 DEF ShutdownCalled
  <2>4. CASE SetLastError(c)         BY <2>4 DEF SetLastError
  <2>5. CASE FlushSendsBarrier(c)    BY <2>5 DEF FlushSendsBarrier
  <2>6. CASE FlushFindsNoWriter(c)   BY <2>6 DEF FlushFindsNoWriter
  <2>7. CASE FlushHearsError(c)      BY <2>7 DEF FlushHearsError
  <2>8. CASE FlushHearsOk(c)         BY <2>8 DEF FlushHearsOk
  <2>9. CASE FlushReturnsOk(c)       BY <2>9 DEF FlushReturnsOk
  <2>10. CASE ShutdownSendsStop(c)   BY <2>10 DEF ShutdownSendsStop
  <2>11. CASE ShutdownTakesHandle(c) BY <2>11 DEF ShutdownTakesHandle
  <2>12. CASE ShutdownJoins(c)       BY <2>12 DEF ShutdownJoins
  <2>13. CASE FlushTimesOut(c)       BY <2>13 DEF FlushTimesOut
  <2> QED
    BY <1>3, <2>1, <2>2, <2>3, <2>4, <2>5, <2>6, <2>7, <2>8, <2>9, <2>10, <2>11, <2>12,
       <2>13 DEF ClientCalls, ClientStep
<1>4. CASE WriterStep /\ ~WriterApplies
  <2>1. CASE WriterSetsLastError     BY <2>1 DEF WriterSetsLastError
  <2>2. CASE WriterConnects          BY <2>2 DEF WriterConnects
  <2>3. CASE WriterCannotConnect     BY <2>3 DEF WriterCannotConnect
  <2>4. CASE WriterVerifies          BY <2>4 DEF WriterVerifies
  <2>5. CASE WriterAnswersBarrier    BY <2>5 DEF WriterAnswersBarrier
  <2>6. CASE WriterReceivesStop      BY <2>6 DEF WriterReceivesStop
  <2>7. CASE WriterFindsStopRequest  BY <2>7 DEF WriterFindsStopRequest
  <2>8. CASE WriterDrained           BY <2>8 DEF WriterDrained
  <2>9. CASE WriterCheckpointsLast   BY <2>9 DEF WriterCheckpointsLast
  <2>10. CASE WriterCloses           BY <2>10 DEF WriterCloses
  <2>11. CASE WriterExits            BY <2>11 DEF WriterExits
  <2> QED
    BY <1>4, <2>1, <2>2, <2>3, <2>4, <2>5, <2>6, <2>7, <2>8, <2>9, <2>10, <2>11
    DEF WriterStep
<1> HIDE DEF Idle
<1>5. CASE \E c \in Clients : ClientCalls(c) \/ ClientStep(c) \/ FlushTimesOut(c)
  <2> PICK c \in Clients : ClientCalls(c) \/ ClientStep(c) \/ FlushTimesOut(c)  BY <1>5, Zenon
  <2>1. EnqueueAccepted(c) \/ CountQueued(c) \/ Idle  BY <1>3, Zenon
  <2> QED  BY <2>1, Zenon DEF Idle
<1>6. OpenTimesOut \/ Drop \/ WriterStep \/ Crash
      \/ \E c \in Clients : ClientCalls(c) \/ ClientStep(c) \/ FlushTimesOut(c)
  BY Zenon DEF Next
<1> QED  BY <1>1, <1>2, <1>4, <1>5, <1>6, Zenon

\* Every step keeps the ledger.
LEMMA LedgerNext ==
  ASSUME LedgerInv, [Next]_vars
  PROVE  LedgerInv'
<1>0. /\ IInv' /\ TypeOK /\ TypeOK' /\ pc \in [Clients -> ClientPhases]
      /\ accepted \in Nat /\ attempted \in Nat /\ applied \in Nat /\ failed \in Nat /\ queued \in Nat
      /\ IsFiniteSet(Counting) /\ Cardinality(Counting) \in Nat
  BY NextInv, FS_CardinalityType DEF LedgerInv, IInv, TypeOK
<1>1. ASSUME NEW c \in Clients, EnqueueAccepted(c) PROVE LedgerInv'
  <2>1. /\ accepted' = accepted + 1 /\ UNCHANGED <<attempted, applied, failed, queued>>
        /\ pc[c] = "idle" /\ pc' = [pc EXCEPT ![c] = "counting"]
    BY <1>1 DEF EnqueueAccepted, Goto, shared
  <2>2. Counting' = Counting \cup {c} /\ c \notin Counting  BY <1>0, <2>1 DEF Counting
  <2>3. IsFiniteSet(Counting') /\ Cardinality(Counting') = Cardinality(Counting) + 1
    BY <1>0, <2>2, FS_AddElement
  <2> QED  BY <1>0, <2>1, <2>3 DEF LedgerInv
<1>2. ASSUME NEW c \in Clients, CountQueued(c) PROVE LedgerInv'
  <2>1. /\ queued' = queued + 1 /\ UNCHANGED <<accepted, attempted, applied, failed>>
        /\ pc[c] = "counting" /\ pc' = [pc EXCEPT ![c] = "idle"]
    BY <1>2 DEF CountQueued, Goto
  <2>2. Counting' = Counting \ {c} /\ c \in Counting  BY <1>0, <2>1 DEF Counting
  <2>3. IsFiniteSet(Counting') /\ Cardinality(Counting') = Cardinality(Counting) - 1
    BY <1>0, <2>2, FS_RemoveElement
  <2> QED  BY <1>0, <2>1, <2>3 DEF LedgerInv
<1>3. CASE WriterApplies
  <2>1. /\ tx # << >> /\ Head(tx).type = "record" /\ attempted' = Head(tx).rec /\ receiver
        /\ UNCHANGED <<accepted, queued, pc>>
    BY <1>3 DEF WriterApplies, Receives, LedgerInv, IInv, DatabaseComplete, calls
  <2>2. attempted' = attempted + 1
    BY <1>0, <2>1, RecordsComeInOrder DEF LedgerInv, IInv
  <2>3. applied' + failed' = applied + failed + 1  BY <1>0, <1>3 DEF WriterApplies, ApplyFails
  <2>4. Counting' = Counting  BY <2>1 DEF Counting
  <2> QED  BY <1>0, <2>1, <2>2, <2>3, <2>4 DEF LedgerInv
<1>4. CASE Crash
  <2>1. Counting' = {} /\ UNCHANGED <<accepted, attempted, applied, failed, queued>>
    BY <1>4 DEF Crash, Counting, shared
  <2>2. IsFiniteSet({}) /\ Cardinality({}) = 0  BY FS_EmptySet
  <2> QED  BY <1>0, <2>1, <2>2 DEF LedgerInv
<1>5. CASE /\ UNCHANGED <<accepted, attempted, applied, queued, db>>
           /\ failed' = failed \/ failed' = failed + 1
           /\ \A d \in Clients : pc'[d] = "counting" <=> pc[d] = "counting"
  <2>1. Counting' = Counting  BY <1>5 DEF Counting
  <2> QED  BY <1>0, <1>5, <2>1 DEF LedgerInv
<1>6. CASE UNCHANGED vars
  <2>1. UNCHANGED <<accepted, attempted, applied, failed, queued, pc>>
    BY <1>6 DEF vars, shared, calls
  <2> QED  BY <1>0, <2>1 DEF LedgerInv, Counting
<1> QED  BY <1>0, <1>1, <1>2, <1>3, <1>4, <1>5, <1>6, Bookings

\* An empty channel leaves nothing to attempt.
LEMMA NothingLeft ==
  ASSUME IInv, receiver, \A i \in 1 .. Len(tx) : ~RecordsAt(i)
  PROVE  attempted = accepted
<1>1. accepted \in Nat /\ attempted \in Nat /\ attempted <= accepted
  BY DEF IInv, TypeOK, DatabaseComplete
<1>2. SUFFICES ASSUME attempted < accepted PROVE FALSE  BY <1>1
<1>3. PICK i \in 1 .. Len(tx) : tx[i] = Record(accepted)
  BY <1>1, <1>2 DEF IInv, ChannelInOrder
<1> QED  BY <1>3 DEF RecordsAt, Record

\* The counters reconcile for any number of callers: once the channel is empty, what was
\* counted as queued was counted as applied, or there are failures to account for it.
THEOREM CountersAlwaysReconcile == Spec => []CountersReconcile
<1>1. Init => LedgerInv
  <2> SUFFICES ASSUME Init PROVE LedgerInv  OBVIOUS
  <2>1. Counting = {} /\ accepted = 0 /\ attempted = 0 /\ applied = 0 /\ failed = 0 /\ queued = 0
    BY DEF Init, Counting
  <2> QED  BY <2>1, InitInv, FS_EmptySet DEF LedgerInv
<1>2. LedgerInv /\ [Next]_vars => LedgerInv'  BY LedgerNext
<1>3. LedgerInv => CountersReconcile
  <2> SUFFICES ASSUME LedgerInv, tx = << >>, receiver PROVE queued <= applied + failed
    BY DEF CountersReconcile
  <2>1. attempted = accepted  BY NothingLeft DEF LedgerInv
  <2>2. Cardinality(Counting) \in Nat  BY FS_CardinalityType DEF LedgerInv
  <2>3. attempted <= applied + failed /\ queued + Cardinality(Counting) <= accepted
    BY DEF LedgerInv
  <2>4. accepted \in Nat /\ applied \in Nat /\ failed \in Nat /\ queued \in Nat
    BY DEF LedgerInv, IInv, TypeOK
  <2> QED  BY <2>1, <2>2, <2>3, <2>4
<1> QED  BY <1>1, <1>2, <1>3, PTL DEF Spec

-----------------------------------------------------------------------------
(* No silent loss, when one thread holds the handle, as the store's mutex  *)
(* makes it.  With more, a record can be sent into the drain of another    *)
(* caller's shutdown, and a flush can clear the error of another's refusal.*)

OneCaller == \A c, d \in Clients : c = d

\* A stop: once one is asked for, the caller is in it until the writer has left, so that
\* nothing follows a Stop in the channel.
StopInv ==
  /\ \A c \in Clients :
       /\ pc[c] \notin {"idle", "dead"} => opened = "ok"
       /\ pc[c] \in {"stop_send", "take", "join"} => requested_stop
       /\ pc[c] = "dead" => writer = "exited"
  /\ opened = "waiting" => ~requested_stop /\ writer = "connecting"
  /\ writer = "connecting" => opened \in {"waiting", "err"} /\ tx = << >>
  /\ writer = "exited" => tx = << >> /\ ~receiver
  /\ ~handle => writer = "exited" \/ \E c \in Clients : pc[c] = "join"
  /\ requested_stop =>
       \/ opened \in {"err", "dropped"} \/ writer = "exited"
       \/ \E c \in Clients : pc[c] \in {"stop_send", "take", "join"}
  /\ writer \in {"draining", "final", "closing", "closed"} => opened # "ok" \/ requested_stop
  /\ \A i \in 1 .. Len(tx) : tx[i].type = "stop" =>
       /\ i = Len(tx)
       /\ opened = "dropped" \/ \E c \in Clients : pc[c] \in {"take", "join"}

\* The drain: the writer leaves nothing unattempted, and the database holds what it
\* attempted as long as nothing has failed.
DrainInv ==
  /\ writer \in {"final", "closing", "closed", "exited"} /\ ~Crashed => attempted = accepted
  /\ db \subseteq 1 .. attempted
  /\ failed = 0 /\ ~Crashed => 1 .. attempted \subseteq db

\* The answer: the barrier a flush waits for is the last command, so after its Ok nothing
\* can fail until the flush has cleared the error.
AnswerInv ==
  /\ \A i \in 1 .. Len(tx) : tx[i].type = "barrier" =>
       /\ pc[tx[i].who] = "flush_send" => tx[i].ticket < ticket[tx[i].who]
       /\ pc[tx[i].who] = "flush_wait" /\ tx[i].ticket = ticket[tx[i].who] => i = Len(tx)
  /\ \A c \in Clients : pc[c] = "flush_ok" \/ (pc[c] = "flush_wait" /\ reply[c] = "ok") =>
       failed = 0 /\ writer = "running" /\ tx = << >> /\ ~requested_stop

LossInv == IInv /\ StopInv /\ DrainInv /\ AnswerInv /\ ErrorRetained

\* The oldest command, and the channel after it.
LEMMA FirstCommand ==
  ASSUME TypeOK, tx # << >>
  PROVE  /\ Head(tx) = tx[1] /\ 1 \in 1 .. Len(tx) /\ Len(tx) \in Nat \ {0}
         /\ Len(tx) = 1 => Tail(tx) = << >>
<1>1. tx \in Seq(Command)  BY DEF TypeOK
<1>2. \A T : \A q \in Seq(T) : q # << >> =>
        /\ Head(q) = q[1] /\ Len(q) \in Nat \ {0}
        /\ Tail(q) \in Seq(T) /\ Len(Tail(q)) = Len(q) - 1
  OBVIOUS
<1>3. \A T : \A q \in Seq(T) : Len(q) = 0 => q = << >>  OBVIOUS
<1>4. Head(tx) = tx[1] /\ Len(tx) \in Nat \ {0}
  BY <1>1, <1>2
<1>5. Tail(tx) \in Seq(Command) /\ Len(Tail(tx)) = Len(tx) - 1
  BY <1>1, <1>2
<1>6. Len(tx) = 1 => Tail(tx) = << >>
  <2> SUFFICES ASSUME Len(tx) = 1 PROVE Tail(tx) = << >>  OBVIOUS
  <2>1. Len(Tail(tx)) = 0  BY <1>5
  <2> QED  BY <1>3, <1>5, <2>1
<1>7. 1 \in 1 .. Len(tx)  BY <1>4
<1> QED  BY <1>4, <1>6, <1>7

\* Taking the oldest command leaves a Stop at the back, with its sender still in the call.
LEMMA TailStops ==
  ASSUME TypeOK, StopInv, NEW c \in Clients, Clients = {c}, tx # << >>, tx' = Tail(tx)
  PROVE  \A i \in 1 .. Len(tx') : tx'[i].type = "stop" =>
           i = Len(tx') /\ (opened = "dropped" \/ pc[c] \in {"take", "join"})
<1> SUFFICES ASSUME NEW i \in 1 .. Len(tx'), tx'[i].type = "stop"
             PROVE  i = Len(tx') /\ (opened = "dropped" \/ pc[c] \in {"take", "join"})
  OBVIOUS
<1>1. Len(tx) \in Nat /\ Len(tx') = Len(tx) - 1 /\ tx'[i] = tx[i + 1]
  BY TakenFrom
<1>2. i + 1 \in 1 .. Len(tx)  BY <1>1
<1>3. tx[i + 1].type = "stop"  BY <1>1, Zenon
<1>4. i + 1 = Len(tx) /\ (opened = "dropped" \/ pc[c] \in {"take", "join"})
  BY <1>2, <1>3 DEF StopInv
<1>5. \A n, m \in Nat : m = n - 1 /\ i + 1 = n /\ i \in 1 .. m => i = m  OBVIOUS
<1>6. Len(tx') \in Nat  BY <1>1, TakenFrom
<1>7. i + 1 = Len(tx)  BY <1>4, Zenon
<1>8. i = Len(tx')  BY <1>1, <1>5, <1>6, <1>7
<1> QED  BY <1>4, <1>8, Zenon

\* With one caller every barrier is its own.
LEMMA OwnBarriers ==
  ASSUME TypeOK', NEW c \in Clients, Clients = {c}
  PROVE  \A i \in 1 .. Len(tx') : tx'[i].type = "barrier" => tx'[i].who = c
<1> SUFFICES ASSUME NEW i \in 1 .. Len(tx'), tx'[i].type = "barrier" PROVE tx'[i].who = c
  OBVIOUS
<1>1. tx'[i] \in Command  BY DEF TypeOK
<1> QED  BY <1>1 DEF Command, StopCommand

\* Taking the oldest command leaves the waiting flush's barrier at the back.
LEMMA TailBarriers ==
  ASSUME TypeOK, AnswerInv, tx # << >>, tx' = Tail(tx), UNCHANGED <<pc, ticket>>
  PROVE  \A i \in 1 .. Len(tx') : tx'[i].type = "barrier" =>
           /\ pc'[tx'[i].who] = "flush_send" => tx'[i].ticket < ticket'[tx'[i].who]
           /\ pc'[tx'[i].who] = "flush_wait" /\ tx'[i].ticket = ticket'[tx'[i].who] => i = Len(tx')
<1> SUFFICES ASSUME NEW i \in 1 .. Len(tx'), tx'[i].type = "barrier"
             PROVE  /\ pc[tx'[i].who] = "flush_send" => tx'[i].ticket < ticket[tx'[i].who]
                    /\ pc[tx'[i].who] = "flush_wait" /\ tx'[i].ticket = ticket[tx'[i].who]
                         => i = Len(tx')
  OBVIOUS
<1>1. tx'[i] = tx[i + 1] /\ i + 1 \in 1 .. Len(tx) /\ tx[i + 1].type = "barrier" /\ (i + 1 = Len(tx) => i = Len(tx'))
  BY TakenFrom
<1> QED  BY <1>1 DEF AnswerInv

\* The steps keep the order of the stop.
LEMMA StopInvNext ==
  ASSUME LossInv, IInv', NEW c \in Clients, Clients = {c}, Next
  PROVE  StopInv'
<1> USE DEF shared, calls, disk, WriterGoto, Goto, StopInv
<1>0. /\ IInv /\ StopInv /\ TypeOK /\ (writer # "exited" => receiver)
      /\ pc \in [Clients -> ClientPhases] /\ writer \in WriterPhases
      /\ receiver \in BOOLEAN /\ opened \in {"waiting", "ok", "err", "dropped"}
  BY DEF LossInv, IInv, TypeOK, DatabaseComplete
<1> USE <1>0
<1>1. CASE OpenTimesOut                BY <1>1 DEF OpenTimesOut
<1>2. CASE Drop                        BY <1>2 DEF Drop
<1>3. CASE Crash                       BY <1>3 DEF Crash
<1>4. CASE CountQueued(c)              BY <1>4 DEF CountQueued
<1>5. CASE SetLastError(c)             BY <1>5 DEF SetLastError
<1>6. CASE FlushSendsBarrier(c)
  <2>1. /\ tx' = Append(tx, Barrier(c, ticket[c], mark[c])) /\ pc[c] = "flush_send"
        /\ Barrier(c, ticket[c], mark[c]).type = "barrier"
        /\ Barrier(c, ticket[c], mark[c]) \in Command
    BY <1>6 DEF FlushSendsBarrier, Barrier, Command, TypeOK
  <2>2. \A i \in 1 .. Len(tx') : tx'[i].type # "stop"
    <3>1. \A i \in 1 .. Len(tx) : tx[i].type # "stop"  BY <2>1
    <3>2. /\ Len(tx) \in Nat /\ Len(tx') = Len(tx) + 1
          /\ \A i \in 1 .. Len(tx) : tx'[i] = tx[i]
          /\ tx'[Len(tx) + 1].type # "stop"
      BY <2>1, AppendedAt
    <3> QED  BY <3>1, <3>2
  <2> QED  BY <1>6, <2>2 DEF FlushSendsBarrier
<1>7. CASE FlushFindsNoWriter(c)       BY <1>7 DEF FlushFindsNoWriter
<1>8. CASE FlushHearsError(c)          BY <1>8 DEF FlushHearsError
<1>9. CASE FlushHearsOk(c)             BY <1>9 DEF FlushHearsOk
<1>10. CASE FlushReturnsOk(c)          BY <1>10 DEF FlushReturnsOk
<1>11. CASE ShutdownSendsStop(c)
  <2>1. pc[c] = "stop_send" /\ pc'[c] = "take" /\ opened = "ok"
    BY <1>11 DEF ShutdownSendsStop
  <2>2. \A i \in 1 .. Len(tx') : tx'[i].type = "stop" => i = Len(tx')
    <3>1. \A i \in 1 .. Len(tx) : tx[i].type # "stop"  BY <2>1
    <3>2. CASE tx' = Append(tx, StopCommand)
      <4>1. StopCommand \in Command  BY DEF Command
      <4> QED  BY <3>1, <3>2, <4>1, AppendedAt
    <3>3. CASE UNCHANGED tx  BY <3>1, <3>3
    <3> QED  BY <1>11, <3>2, <3>3 DEF ShutdownSendsStop
  <2> QED  BY <1>11, <2>1, <2>2 DEF ShutdownSendsStop
<1>12. CASE ShutdownTakesHandle(c)     BY <1>12 DEF ShutdownTakesHandle
<1>13. CASE ShutdownJoins(c)           BY <1>13 DEF ShutdownJoins
<1>14. CASE EnqueueAccepted(c)
  <2> PICK cmd : cmd = Record(accepted + 1)  OBVIOUS
  <2>1. /\ tx' = Append(tx, cmd) /\ pc[c] = "idle" /\ opened = "ok"
        /\ cmd.type = "record" /\ cmd \in Command
    BY <1>14 DEF EnqueueAccepted, Record, Command, TypeOK
  <2>2. \A i \in 1 .. Len(tx') : tx'[i].type # "stop"
    <3>1. \A i \in 1 .. Len(tx) : tx[i].type # "stop"  BY <2>1
    <3>2. /\ Len(tx) \in Nat /\ Len(tx') = Len(tx) + 1
          /\ \A i \in 1 .. Len(tx) : tx'[i] = tx[i]
          /\ tx'[Len(tx) + 1].type # "stop"
      BY <2>1, AppendedAt
    <3> QED  BY <3>1, <3>2
  <2> QED  BY <1>14, <2>2 DEF EnqueueAccepted
<1>15. CASE EnqueueRefused(c)          BY <1>15 DEF EnqueueRefused
<1>16. CASE FlushCalled(c)             BY <1>16 DEF FlushCalled
<1>17. CASE ShutdownCalled(c)          BY <1>17 DEF ShutdownCalled
<1>18. CASE FlushTimesOut(c)           BY <1>18 DEF FlushTimesOut
<1>19. CASE WriterSetsLastError        BY <1>19 DEF WriterSetsLastError
<1>20. CASE WriterConnects             BY <1>20 DEF WriterConnects
<1>21. CASE WriterCannotConnect        BY <1>21 DEF WriterCannotConnect
<1>22. CASE WriterVerifies             BY <1>22 DEF WriterVerifies
<1>23. CASE WriterApplies
  <2>1. tx # << >> /\ tx' = Tail(tx) /\ UNCHANGED <<opened, pc>>
    BY <1>23 DEF WriterApplies, Receives
  <2>2. \A i \in 1 .. Len(tx') : tx'[i].type = "stop" => i = Len(tx') /\ (opened = "dropped" \/ pc[c] \in {"take", "join"})
    BY <2>1, TailStops
  <2>3. UNCHANGED <<receiver, requested_stop, writer, handle>> /\ writer \in {"running", "draining"}
    BY <1>23 DEF WriterApplies, Receives
  <2> QED  BY <2>1, <2>2, <2>3
<1>24. CASE WriterAnswersBarrier
  <2>1. tx # << >> /\ tx' = Tail(tx) /\ UNCHANGED <<opened, pc>>
    BY <1>24 DEF WriterAnswersBarrier, Receives
  <2>2. \A i \in 1 .. Len(tx') : tx'[i].type = "stop" => i = Len(tx') /\ (opened = "dropped" \/ pc[c] \in {"take", "join"})
    BY <2>1, TailStops
  <2>3. UNCHANGED <<receiver, requested_stop, writer, handle>> /\ writer \in {"running", "draining"}
    BY <1>24 DEF WriterAnswersBarrier, Receives
  <2> QED  BY <2>1, <2>2, <2>3
<1>25. CASE WriterReceivesStop
  <2>1. tx # << >> /\ tx' = Tail(tx) /\ UNCHANGED <<opened, pc>>
    BY <1>25 DEF WriterReceivesStop, Receives
  <2>2. \A i \in 1 .. Len(tx') : tx'[i].type = "stop" => i = Len(tx') /\ (opened = "dropped" \/ pc[c] \in {"take", "join"})
    BY <2>1, TailStops
  <2>3. opened # "ok" \/ requested_stop
    <3>1. Head(tx) = tx[1] /\ 1 \in 1 .. Len(tx)  BY <2>1, FirstCommand, Zenon
    <3>2. Head(tx).type = "stop"  BY <1>25, Zenon DEF WriterReceivesStop, Receives
    <3>3. opened = "dropped" \/ pc[c] \in {"take", "join"}  BY <3>1, <3>2, Zenon
    <3> QED  BY <3>3
  <2> QED  BY <1>25, <2>1, <2>2, <2>3 DEF WriterReceivesStop, Receives
<1>26. CASE WriterFindsStopRequest     BY <1>26 DEF WriterFindsStopRequest
<1>27. CASE WriterDrained              BY <1>27 DEF WriterDrained
<1>28. CASE WriterCheckpointsLast      BY <1>28 DEF WriterCheckpointsLast
<1>29. CASE WriterCloses               BY <1>29 DEF WriterCloses
<1>30. CASE WriterExits                BY <1>30 DEF WriterExits
<1> QED
  BY <1>1, <1>2, <1>3, <1>4, <1>5, <1>6, <1>7, <1>8, <1>9, <1>10, <1>11, <1>12, <1>13, <1>14,
     <1>15, <1>16, <1>17, <1>18, <1>19, <1>20, <1>21, <1>22, <1>23, <1>24, <1>25, <1>26, <1>27, <1>28,
     <1>29, <1>30
  DEF Next, ClientCalls, ClientStep, WriterStep

\* The steps leave nothing unattempted once the drain is over.
LEMMA DrainInvNext ==
  ASSUME LossInv, IInv', NEW c \in Clients, Clients = {c}, Next
  PROVE  DrainInv'
<1> USE DEF shared, calls, disk, WriterGoto, Goto, DrainInv, Crashed
<1>0. /\ IInv /\ StopInv /\ DrainInv /\ TypeOK /\ ChannelInOrder
      /\ pc \in [Clients -> ClientPhases] /\ writer \in WriterPhases
      /\ (writer # "exited" => receiver) /\ attempted <= accepted
      /\ accepted \in Nat /\ attempted \in Nat /\ failed \in Nat /\ synced \in Nat /\ db \subseteq Nat
  BY DEF LossInv, IInv, TypeOK, DatabaseComplete
<1> USE <1>0
<1>1. CASE OpenTimesOut                BY <1>1 DEF OpenTimesOut
<1>2. CASE Drop                        BY <1>2 DEF Drop
<1>3. CASE Crash                       BY <1>3 DEF Crash
<1>4. CASE CountQueued(c)              BY <1>4 DEF CountQueued
<1>5. CASE SetLastError(c)             BY <1>5 DEF SetLastError
<1>6. CASE FlushSendsBarrier(c)        BY <1>6 DEF FlushSendsBarrier
<1>7. CASE FlushFindsNoWriter(c)       BY <1>7 DEF FlushFindsNoWriter
<1>8. CASE FlushHearsError(c)          BY <1>8 DEF FlushHearsError
<1>9. CASE FlushHearsOk(c)             BY <1>9 DEF FlushHearsOk
<1>10. CASE FlushReturnsOk(c)          BY <1>10 DEF FlushReturnsOk
<1>11. CASE ShutdownSendsStop(c)       BY <1>11 DEF ShutdownSendsStop
<1>12. CASE ShutdownTakesHandle(c)     BY <1>12 DEF ShutdownTakesHandle
<1>13. CASE ShutdownJoins(c)           BY <1>13 DEF ShutdownJoins
<1>14. CASE EnqueueAccepted(c)         BY <1>14 DEF EnqueueAccepted, StopInv
<1>15. CASE EnqueueRefused(c)          BY <1>15 DEF EnqueueRefused
<1>16. CASE FlushCalled(c)             BY <1>16 DEF FlushCalled
<1>17. CASE ShutdownCalled(c)          BY <1>17 DEF ShutdownCalled
<1>18. CASE FlushTimesOut(c)           BY <1>18 DEF FlushTimesOut
<1>19. CASE WriterSetsLastError        BY <1>19 DEF WriterSetsLastError
<1>20. CASE WriterConnects             BY <1>20 DEF WriterConnects
<1>21. CASE WriterCannotConnect
  <2>1. attempted = accepted  BY <1>21, NothingLeft DEF WriterCannotConnect, StopInv
  <2> QED  BY <1>21, <2>1 DEF WriterCannotConnect
<1>22. CASE WriterVerifies             BY <1>22 DEF WriterVerifies
<1>23. CASE WriterApplies
  <2>1. /\ attempted' = attempted + 1 /\ Head(tx).rec = attempted + 1
        /\ writer' \in {"running", "draining"} /\ pc' = pc /\ failed \in Nat /\ attempted \in Nat
    BY <1>23, RecordsComeInOrder DEF WriterApplies, Receives
  <2>2. CASE db' = db \cup {Head(tx).rec} /\ failed' = failed
    <3>1. db' = db \cup {attempted'}  BY <2>1, <2>2
    <3>2. 1 .. attempted' = (1 .. attempted) \cup {attempted'}  BY <2>1
    <3> QED  BY <2>1, <2>2, <3>1, <3>2
  <2>3. CASE ApplyFails
    BY <2>1, <2>3 DEF ApplyFails
  <2> QED  BY <1>23, <2>2, <2>3 DEF WriterApplies
<1>24. CASE WriterAnswersBarrier       BY <1>24 DEF WriterAnswersBarrier
<1>25. CASE WriterReceivesStop
  <2>1. /\ Head(tx).type = "stop" /\ Head(tx) = tx[1] /\ Len(tx) \in Nat \ {0}
        /\ writer \in {"running", "draining"}
    BY <1>25, TakenFrom DEF WriterReceivesStop, Receives
  <2>2. Len(tx) = 1
    <3>1. 1 \in 1 .. Len(tx) /\ tx[1].type = "stop"  BY <2>1
    <3>2. \A i \in 1 .. Len(tx) : tx[i].type = "stop" => i = Len(tx)  BY DEF StopInv
    <3> QED  BY <3>1, <3>2
  <2>3. attempted = accepted  BY <2>1, <2>2, NothingLeft DEF RecordsAt
  <2> QED  BY <1>25, <2>3 DEF WriterReceivesStop
<1>26. CASE WriterFindsStopRequest     BY <1>26 DEF WriterFindsStopRequest
<1>27. CASE WriterDrained
  <2>1. attempted = accepted  BY <1>27, NothingLeft DEF WriterDrained, Drained
  <2> QED  BY <1>27, <2>1 DEF WriterDrained
<1>28. CASE WriterCheckpointsLast      BY <1>28 DEF WriterCheckpointsLast
<1>29. CASE WriterCloses               BY <1>29 DEF WriterCloses
<1>30. CASE WriterExits                BY <1>30 DEF WriterExits
<1> QED
  BY <1>1, <1>2, <1>3, <1>4, <1>5, <1>6, <1>7, <1>8, <1>9, <1>10, <1>11, <1>12, <1>13, <1>14,
     <1>15, <1>16, <1>17, <1>18, <1>19, <1>20, <1>21, <1>22, <1>23, <1>24, <1>25, <1>26, <1>27, <1>28,
     <1>29, <1>30
  DEF Next, ClientCalls, ClientStep, WriterStep

\* The steps keep the answer a flush waits for behind everything else.
LEMMA AnswerInvNext ==
  ASSUME LossInv, IInv', NEW c \in Clients, Clients = {c}, Next
  PROVE  AnswerInv'
<1> USE DEF shared, calls, disk, WriterGoto, Goto, AnswerInv
<1>0. /\ IInv /\ StopInv /\ AnswerInv /\ TypeOK /\ TypeOK'
      /\ pc \in [Clients -> ClientPhases] /\ writer \in WriterPhases /\ failed \in Nat
      /\ ticket \in [Clients -> Nat] /\ reply \in [Clients -> {"none", "ok", "err"}]
  BY DEF LossInv, IInv, TypeOK, DatabaseComplete
<1> USE <1>0
<1>1. CASE OpenTimesOut                BY <1>1 DEF OpenTimesOut, StopInv
<1>2. CASE Drop
  <2>1. pc'[c] = "idle"  BY <1>2 DEF Drop
  <2> QED  BY <2>1, OwnBarriers
<1>3. CASE Crash                       BY <1>3 DEF Crash
<1>4. CASE CountQueued(c)              BY <1>4 DEF CountQueued
<1>5. CASE SetLastError(c)             BY <1>5 DEF SetLastError
<1>6. CASE FlushSendsBarrier(c)
  <2> DEFINE cmd == Barrier(c, ticket[c], mark[c])
  <2>1. /\ tx' = Append(tx, cmd) /\ pc[c] = "flush_send" /\ pc'[c] = "flush_wait"
        /\ UNCHANGED <<ticket, reply>> /\ cmd \in Command
    BY <1>6 DEF FlushSendsBarrier, Barrier, Command, TypeOK
  <2>2. reply'[c] # "ok"  BY <2>1 DEF RepliesHonest, IInv
  <2>3. ASSUME NEW i \in 1 .. Len(tx), tx[i].type = "barrier" PROVE tx[i].ticket # ticket[c]
    <3>1. tx[i].who = c /\ tx[i].ticket \in Nat  BY <2>3, CommandAt
    <3>2. tx[i].ticket < ticket[c]  BY <2>1, <2>3, <3>1
    <3> QED  BY <3>1, <3>2
  <2>4. \A i \in 1 .. Len(tx') : tx'[i].type = "barrier" /\ tx'[i].ticket = ticket[c] => i = Len(tx')
    BY <2>1, <2>3, AppendedAt
  <2>5. \A i \in 1 .. Len(tx') : tx'[i].type = "barrier" => tx'[i].who = c  BY OwnBarriers
  <2> HIDE DEF cmd
  <2> QED  BY <2>1, <2>2, <2>4, <2>5
<1>7. CASE FlushFindsNoWriter(c)       BY <1>7 DEF FlushFindsNoWriter
<1>8. CASE FlushHearsError(c)          BY <1>8 DEF FlushHearsError
<1>9. CASE FlushHearsOk(c)             BY <1>9 DEF FlushHearsOk
<1>10. CASE FlushReturnsOk(c)          BY <1>10 DEF FlushReturnsOk
<1>11. CASE ShutdownSendsStop(c)
  <2>1. pc'[c] = "take"  BY <1>11 DEF ShutdownSendsStop
  <2> QED  BY <2>1, OwnBarriers
<1>12. CASE ShutdownTakesHandle(c)     BY <1>12 DEF ShutdownTakesHandle
<1>13. CASE ShutdownJoins(c)           BY <1>13 DEF ShutdownJoins
<1>14. CASE EnqueueAccepted(c)
  <2>1. pc'[c] = "counting"  BY <1>14 DEF EnqueueAccepted
  <2> QED  BY <2>1, OwnBarriers
<1>15. CASE EnqueueRefused(c)          BY <1>15 DEF EnqueueRefused
<1>16. CASE FlushCalled(c)
  <2>1. /\ pc'[c] = "flush_send" /\ ticket'[c] = ticket[c] + 1 /\ UNCHANGED tx
    BY <1>16 DEF FlushCalled
  <2>2. ASSUME NEW i \in 1 .. Len(tx), tx[i].type = "barrier" PROVE tx[i].ticket < ticket'[c]
    <3>1. tx[i].who = c /\ tx[i].ticket \in Nat  BY <2>2, CommandAt
    <3>2. tx[i].ticket <= ticket[c]  BY <2>2, <3>1 DEF BarriersCover, IInv
    <3> QED  BY <2>1, <3>1, <3>2
  <2> QED  BY <2>1, <2>2, OwnBarriers
<1>17. CASE ShutdownCalled(c)          BY <1>17 DEF ShutdownCalled
<1>18. CASE FlushTimesOut(c)           BY <1>18 DEF FlushTimesOut
<1>19. CASE WriterSetsLastError        BY <1>19 DEF WriterSetsLastError
<1>20. CASE WriterConnects             BY <1>20 DEF WriterConnects
<1>21. CASE WriterCannotConnect        BY <1>21 DEF WriterCannotConnect
<1>22. CASE WriterVerifies             BY <1>22 DEF WriterVerifies
<1>23. CASE WriterApplies
  <2>1. tx # << >> /\ tx' = Tail(tx) /\ UNCHANGED <<pc, ticket, reply>>
    BY <1>23 DEF WriterApplies, Receives
  <2>2. ~(pc[c] = "flush_ok" \/ (pc[c] = "flush_wait" /\ reply[c] = "ok"))  BY <2>1
  <2> QED  BY <2>1, <2>2, TailBarriers
<1>24. CASE WriterAnswersBarrier
  <2>1. /\ tx # << >> /\ tx' = Tail(tx) /\ Head(tx).type = "barrier"
        /\ writer \in {"running", "draining"}
        /\ UNCHANGED <<pc, ticket, requested_stop, failed, writer>>
    BY <1>24 DEF WriterAnswersBarrier, Receives
  <2>2. Head(tx) = tx[1] /\ 1 \in 1 .. Len(tx) /\ Head(tx).who = c
    <3>1. Head(tx) = tx[1] /\ 1 \in 1 .. Len(tx)  BY <2>1, FirstCommand, Zenon
    <3>2. tx[1].type = "barrier"  BY <2>1, <3>1, Zenon
    <3>3. tx[1].who \in Clients  BY <3>1, <3>2, CommandAt, Zenon
    <3> QED  BY <3>1, <3>3
  <2>3. ASSUME pc[c] = "flush_wait", reply'[c] = "ok"
        PROVE  failed = 0 /\ writer = "running" /\ tx' = << >> /\ ~requested_stop
    <3>1. reply[c] # "ok"  BY <2>1, <2>3
    <3>2. CheckpointOk /\ Head(tx).ticket = ticket[c]
      BY <1>24, <2>2, <2>3, <3>1 DEF WriterAnswersBarrier, Answer
    <3>3. Len(tx) = 1
      <4>1. tx[1].type = "barrier" /\ tx[1].who = c /\ tx[1].ticket = ticket[c]
        BY <2>1, <2>2, <3>2, Zenon
      <4>2. \A i \in 1 .. Len(tx) :
              tx[i].type = "barrier" /\ pc[tx[i].who] = "flush_wait" /\ tx[i].ticket = ticket[tx[i].who]
                => i = Len(tx)
        BY Zenon
      <4> QED  BY <2>2, <2>3, <4>1, <4>2, Zenon
    <3>4. tx' = << >>  BY <2>1, <3>3, FirstCommand, Zenon
    <3>5. ~requested_stop /\ writer = "running"  BY <2>1, <2>3 DEF StopInv
    <3> QED  BY <2>1, <3>2, <3>4, <3>5 DEF CheckpointOk
  <2>4. pc[c] # "flush_ok"  BY <2>1
  <2> QED  BY <2>1, <2>3, <2>4, TailBarriers
<1>25. CASE WriterReceivesStop
  <2>1. tx # << >> /\ tx' = Tail(tx) /\ UNCHANGED <<pc, ticket, reply>>
    BY <1>25 DEF WriterReceivesStop, Receives
  <2>2. ~(pc[c] = "flush_ok" \/ (pc[c] = "flush_wait" /\ reply[c] = "ok"))  BY <2>1
  <2> QED  BY <2>1, <2>2, TailBarriers
<1>26. CASE WriterFindsStopRequest     BY <1>26 DEF WriterFindsStopRequest, StopInv
<1>27. CASE WriterDrained              BY <1>27 DEF WriterDrained
<1>28. CASE WriterCheckpointsLast      BY <1>28 DEF WriterCheckpointsLast
<1>29. CASE WriterCloses               BY <1>29 DEF WriterCloses
<1>30. CASE WriterExits                BY <1>30 DEF WriterExits
<1> QED
  BY <1>1, <1>2, <1>3, <1>4, <1>5, <1>6, <1>7, <1>8, <1>9, <1>10, <1>11, <1>12, <1>13, <1>14,
     <1>15, <1>16, <1>17, <1>18, <1>19, <1>20, <1>21, <1>22, <1>23, <1>24, <1>25, <1>26, <1>27, <1>28,
     <1>29, <1>30
  DEF Next, ClientCalls, ClientStep, WriterStep

\* The steps keep every failure behind an error that health reports.
LEMMA ErrorRetainedNext ==
  ASSUME LossInv, IInv', NEW c \in Clients, Clients = {c}, Next
  PROVE  ErrorRetained'
<1> USE DEF shared, calls, disk, WriterGoto, Goto, ErrorRetained, AnswerInv, Crashed
<1>0. /\ ErrorRetained /\ AnswerInv
      /\ pc \in [Clients -> ClientPhases] /\ failed \in Nat
  BY DEF LossInv, IInv, TypeOK, DatabaseComplete
<1> USE <1>0
<1>1. CASE OpenTimesOut                BY <1>1 DEF OpenTimesOut
<1>2. CASE Drop                        BY <1>2 DEF Drop
<1>3. CASE Crash                       BY <1>3 DEF Crash
<1>4. CASE CountQueued(c)              BY <1>4 DEF CountQueued
<1>5. CASE SetLastError(c)             BY <1>5 DEF SetLastError
<1>6. CASE FlushSendsBarrier(c)        BY <1>6 DEF FlushSendsBarrier
<1>7. CASE FlushFindsNoWriter(c)       BY <1>7 DEF FlushFindsNoWriter
<1>8. CASE FlushHearsError(c)          BY <1>8 DEF FlushHearsError
<1>9. CASE FlushHearsOk(c)             BY <1>9 DEF FlushHearsOk
<1>10. CASE FlushReturnsOk(c)          BY <1>10 DEF FlushReturnsOk
<1>11. CASE ShutdownSendsStop(c)       BY <1>11 DEF ShutdownSendsStop
<1>12. CASE ShutdownTakesHandle(c)     BY <1>12 DEF ShutdownTakesHandle
<1>13. CASE ShutdownJoins(c)           BY <1>13 DEF ShutdownJoins
<1>14. CASE EnqueueAccepted(c)         BY <1>14 DEF EnqueueAccepted
<1>15. CASE EnqueueRefused(c)          BY <1>15 DEF EnqueueRefused
<1>16. CASE FlushCalled(c)             BY <1>16 DEF FlushCalled
<1>17. CASE ShutdownCalled(c)          BY <1>17 DEF ShutdownCalled
<1>18. CASE FlushTimesOut(c)           BY <1>18 DEF FlushTimesOut
<1>19. CASE WriterSetsLastError        BY <1>19 DEF WriterSetsLastError
<1>20. CASE WriterConnects             BY <1>20 DEF WriterConnects
<1>21. CASE WriterCannotConnect        BY <1>21 DEF WriterCannotConnect
<1>22. CASE WriterVerifies             BY <1>22 DEF WriterVerifies
<1>23. CASE WriterApplies
  <2>1. /\ UNCHANGED <<pc, last_error>> /\ ~raising
        /\ UNCHANGED <<failed, raising>> \/ raising'
    BY <1>23 DEF WriterApplies, ApplyFails, Receives
  <2> QED  BY <2>1
<1>24. CASE WriterAnswersBarrier       BY <1>24 DEF WriterAnswersBarrier
<1>25. CASE WriterReceivesStop         BY <1>25 DEF WriterReceivesStop
<1>26. CASE WriterFindsStopRequest     BY <1>26 DEF WriterFindsStopRequest
<1>27. CASE WriterDrained              BY <1>27 DEF WriterDrained
<1>28. CASE WriterCheckpointsLast      BY <1>28 DEF WriterCheckpointsLast
<1>29. CASE WriterCloses               BY <1>29 DEF WriterCloses
<1>30. CASE WriterExits                BY <1>30 DEF WriterExits
<1> QED
  BY <1>1, <1>2, <1>3, <1>4, <1>5, <1>6, <1>7, <1>8, <1>9, <1>10, <1>11, <1>12, <1>13, <1>14,
     <1>15, <1>16, <1>17, <1>18, <1>19, <1>20, <1>21, <1>22, <1>23, <1>24, <1>25, <1>26, <1>27, <1>28,
     <1>29, <1>30
  DEF Next, ClientCalls, ClientStep, WriterStep

\* All parts together are inductive.
LEMMA LossNext ==
  ASSUME LossInv, OneCaller, [Next]_vars
  PROVE  LossInv'
<1>1. IInv'  BY NextInv DEF LossInv
<1>2. PICK c \in Clients : Clients = {c}  BY LogAssumption DEF OneCaller
<1>3. CASE Next
  BY <1>1, <1>2, <1>3, StopInvNext, DrainInvNext, AnswerInvNext, ErrorRetainedNext DEF LossInv
<1>4. CASE UNCHANGED vars
  <2>1. StopInv' /\ DrainInv'
    BY <1>4 DEF vars, shared, calls, disk, LossInv, StopInv, DrainInv, Crashed
  <2>2. AnswerInv' /\ ErrorRetained'
    BY <1>4 DEF vars, shared, calls, LossInv, AnswerInv, ErrorRetained, Crashed
  <2> QED  BY <1>1, <2>1, <2>2 DEF LossInv
<1> QED  BY <1>3, <1>4

\* "No silent data loss" (durable.rs module doc), with one thread at the handle: what was
\* accepted is stored, still queued, or accounted for by a failure that health reports.
THEOREM NothingLostSilently ==
  ASSUME OneCaller PROVE Spec => []NoSilentLoss
<1>1. Init => LossInv
  <2> SUFFICES ASSUME Init PROVE LossInv  OBVIOUS
  <2>1. StopInv /\ AnswerInv  BY DEF Init, StopInv, AnswerInv
  <2>2. DrainInv /\ ErrorRetained  BY DEF Init, DrainInv, ErrorRetained
  <2> QED  BY <2>1, <2>2, InitInv DEF LossInv
<1>2. LossInv /\ [Next]_vars => LossInv'  BY LossNext
<1>3. LossInv => CleanStopKeepsAll /\ ErrorRetained
  BY DEF LossInv, DrainInv, CleanStopKeepsAll, IInv, TypeOK
<1>4. Spec => []LossInv  BY <1>1, <1>2, PTL DEF Spec
<1> QED  BY <1>3, <1>4, CountersAlwaysReconcile, PTL DEF NoSilentLoss
=============================================================================
