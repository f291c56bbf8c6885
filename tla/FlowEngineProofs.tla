--------------------------- MODULE FlowEngineProofs ---------------------------
(***************************************************************************)
(* What holds of flow reconstruction for any conversations, segments, idle *)
(* time and bounds: every flow keeps one id and one open record from its   *)
(* first packet to the store, and an end is final.  The inductive          *)
(* invariant is the identity of the flows with the types of the table.     *)
(***************************************************************************)
EXTENDS FlowEngine, TLAPS

\* The types of the table: what Shard::ingest reads and writes.
TableType ==
    /\ DOMAIN flows \subseteq Keys \X Nat
    /\ \A p \in DOMAIN flows :
          /\ flows[p] \in FlowRecord
          /\ flows[p].tcp_state \in IF p[1] \in TcpKeys THEN TcpState ELSE {"none"}
    /\ epochs \in [Keys -> Nat]
    /\ next_flow_id \in Nat /\ last_mono \in Nat
    /\ emitted \in [1 .. next_flow_id -> Nat]

FlowInv == TableType /\ FlowIdsAreFresh /\ OneOpenRecord

\* The machine of state.rs stays in its states, from any segment.
LEMMA InitialState ==
    ASSUME NEW sig \in TcpSignals PROVE initial_tcp(sig) \in TcpState
  BY DEF TcpSignals, initial_tcp, TcpState

LEMMA NextState ==
    ASSUME NEW s \in TcpState, NEW sig \in TcpSignals, NEW b \in BOOLEAN
    PROVE  advance_tcp(s, sig, b) \in TcpState
  <1>1. CASE sig.rst
    BY <1>1 DEF advance_tcp, TcpState
  <1>2. CASE ~sig.rst /\ s = "SynSeen"
    BY <1>2 DEF advance_tcp, TcpState, Terminal
  <1>3. CASE ~sig.rst /\ s = "SynAckSeen"
    BY <1>3 DEF advance_tcp, TcpState, Terminal
  <1>4. CASE ~sig.rst /\ s \in {"Established", "JoinedMidStream"}
    BY <1>4 DEF advance_tcp, TcpState, Terminal
  <1>5. CASE ~sig.rst /\ s = "FinWait"
    BY <1>5 DEF advance_tcp, TcpState, Terminal
  <1>6. CASE ~sig.rst /\ s = "Closing"
    BY <1>6 DEF advance_tcp, TcpState, Terminal
  <1>7. CASE ~sig.rst /\ Terminal(s)
    BY <1>7 DEF advance_tcp, TcpState, Terminal
  <1> QED BY <1>1, <1>2, <1>3, <1>4, <1>5, <1>6, <1>7 DEF TcpState, Terminal

LEMMA WithDomain ==
    ASSUME NEW f, NEW x, NEW v
    PROVE  /\ DOMAIN With(f, x, v) = DOMAIN f \cup {x}
           /\ With(f, x, v)[x] = v
           /\ \A y \in DOMAIN f : y # x => With(f, x, v)[y] = f[y]
  BY DEF With

\* A record that has ended stays ended as time passes.
LEMMA ClosedStays ==
    ASSUME NEW r \in FlowRecord, NEW now \in Nat, NEW later \in Nat, now <= later,
           is_closed(r, now)
    PROVE  is_closed(r, later)
  BY EngineAssumption DEF is_closed, FlowRecord

\* Where a packet goes: to the open record of its conversation, or to a place of its own.
LEMMA PlaceOfPacket ==
    ASSUME FlowInv, NEW k \in Keys, NEW ts \in Nat
    PROVE  /\ <<k, EpochFor(k, ts)>> \in Keys \X Nat
           /\ EpochFor(k, ts) >= epochs[k]
           /\ <<k, EpochFor(k, ts)>> \in DOMAIN flows =>
                 /\ EpochFor(k, ts) = epochs[k]
                 /\ ~is_closed(flows[<<k, epochs[k]>>], ts)
           /\ \A p \in DOMAIN flows : p[1] = k /\ p[2] < EpochFor(k, ts) =>
                 p[2] < epochs[k] \/ (p = <<k, epochs[k]>> /\ is_closed(flows[p], ts))
  <1>1. epochs[k] \in Nat
    BY DEF FlowInv, TableType
  <1>2. <<k, epochs[k] + 1>> \notin DOMAIN flows
    BY <1>1 DEF FlowInv, OneOpenRecord
  <1>3. ASSUME NEW p \in DOMAIN flows PROVE p = <<p[1], p[2]>> /\ p[2] \in Nat
    BY DEF FlowInv, TableType
  <1>4. CASE NeedsNewRecord(k, ts) /\ <<k, epochs[k]>> \in DOMAIN flows
    <2>1. EpochFor(k, ts) = epochs[k] + 1 /\ is_closed(flows[<<k, epochs[k]>>], ts)
      BY <1>4 DEF EpochFor, NeedsNewRecord
    <2> QED BY <1>1, <1>2, <1>3, <2>1
  <1>5. CASE ~(NeedsNewRecord(k, ts) /\ <<k, epochs[k]>> \in DOMAIN flows)
    <2>1. EpochFor(k, ts) = epochs[k]
      BY <1>5 DEF EpochFor
    <2>2. <<k, epochs[k]>> \in DOMAIN flows => ~is_closed(flows[<<k, epochs[k]>>], ts)
      BY <1>5 DEF NeedsNewRecord
    <2> QED BY <1>1, <1>3, <2>1, <2>2
  <1> QED BY <1>4, <1>5

\* The record a packet leaves: the id of the record it joins, or a fresh one.
LEMMA RecordOfPacket ==
    ASSUME FlowInv, NEW k \in Keys, NEW from_lo \in BOOLEAN, NEW ts \in Nat, NEW sig,
           k \in TcpKeys => sig \in TcpSignals
    PROVE  /\ RecordAfter(k, from_lo, sig, ts) \in FlowRecord
           /\ RecordAfter(k, from_lo, sig, ts).tcp_state
                 \in IF k \in TcpKeys THEN TcpState ELSE {"none"}
           /\ RecordAfter(k, from_lo, sig, ts).id =
                 IF <<k, EpochFor(k, ts)>> \in DOMAIN flows
                 THEN flows[<<k, EpochFor(k, ts)>>].id ELSE next_flow_id + 1
  <1> DEFINE place == <<k, EpochFor(k, ts)>>
  <1>1. CASE place \in DOMAIN flows
    <2> DEFINE r == flows[place]
               state == Advanced(r, k, from_lo, sig)
    <2>1. /\ r \in FlowRecord
          /\ r.tcp_state \in IF k \in TcpKeys THEN TcpState ELSE {"none"}
      BY <1>1 DEF FlowInv, TableType
    <2>2. (from_lo = r.initiator_is_lo) \in BOOLEAN
      OBVIOUS
    <2>3. state \in IF k \in TcpKeys THEN TcpState ELSE {"none"}
      BY <2>1, <2>2, NextState DEF Advanced
    <2>4. RecordAfter(k, from_lo, sig, ts) =
             [r EXCEPT !.tcp_state = state, !.last_ts = ts, !.dirty = TRUE]
      BY <1>1 DEF RecordAfter, Touched
    <2> HIDE DEF r, state
    <2>5. RecordAfter(k, from_lo, sig, ts) \in FlowRecord
      BY <2>1, <2>3, <2>4 DEF FlowRecord
    <2>6. /\ RecordAfter(k, from_lo, sig, ts).tcp_state = state
          /\ RecordAfter(k, from_lo, sig, ts).id = r.id
      BY <2>1, <2>4 DEF FlowRecord
    <2> QED BY <1>1, <2>3, <2>5, <2>6 DEF r
  <1>2. CASE place \notin DOMAIN flows
    <2> DEFINE state == IF k \in TcpKeys THEN initial_tcp(sig) ELSE "none"
    <2>1. state \in IF k \in TcpKeys THEN TcpState ELSE {"none"}
      BY InitialState
    <2>2. RecordAfter(k, from_lo, sig, ts) =
             [id |-> next_flow_id + 1, tcp_state |-> state, first_ts |-> ts, last_ts |-> ts,
              initiator_is_lo |-> from_lo, events |-> << >>, dirty |-> TRUE]
      BY <1>2 DEF RecordAfter, NewRecord, FreshId
    <2> HIDE DEF state
    <2>3. RecordAfter(k, from_lo, sig, ts) \in FlowRecord
      BY <2>1, <2>2 DEF FlowRecord, FlowInv, TableType
    <2> QED BY <1>2, <2>1, <2>2, <2>3
  <1> QED BY <1>1, <1>2

\* One packet: the table gains at most one record, with an id no flow has had.
LEMMA IngestKeeps ==
    ASSUME FlowInv, NEW k \in Keys, NEW from_lo \in BOOLEAN, NEW sig, NEW answers,
           NEW ts \in Nat, NEW event \in 0 .. 1, last_mono <= ts,
           k \in TcpKeys => sig \in TcpSignals,
           Ingest(k, from_lo, sig, answers, ts, event)
    PROVE  FlowInv'
  <1> DEFINE e == EpochFor(k, ts)
             place == <<k, e>>
             r == RecordAfter(k, from_lo, sig, ts)
             n == EventsOf(r.id) + event
             ev == IF event = 1 THEN Append(r.events, n) ELSE r.events
             v == [r EXCEPT !.events = ev]
  <1>1. /\ flows' = With(flows, place, v)
        /\ epochs' = [epochs EXCEPT ![k] = e]
        /\ next_flow_id' = IF place \in DOMAIN flows THEN next_flow_id ELSE next_flow_id + 1
        /\ emitted' = With(emitted, r.id, n)
        /\ last_mono' = ts
        /\ stored' = stored
    BY DEF Ingest, ShardIngest
  <1>2. /\ place \in Keys \X Nat /\ e \in Nat /\ e >= epochs[k]
        /\ place \in DOMAIN flows => e = epochs[k]
        /\ \A p \in DOMAIN flows : p[1] = k /\ p[2] < e =>
              p[2] < epochs[k] \/ (p = <<k, epochs[k]>> /\ is_closed(flows[p], ts))
    BY PlaceOfPacket
  <1>3. /\ r \in FlowRecord
        /\ r.tcp_state \in IF k \in TcpKeys THEN TcpState ELSE {"none"}
        /\ r.id = IF place \in DOMAIN flows THEN flows[place].id ELSE next_flow_id + 1
    BY RecordOfPacket
  <1> HIDE DEF r, e
  <1>4. r.id \in 1 .. next_flow_id'
    BY <1>1, <1>3 DEF FlowInv, TableType, FlowIdsAreFresh, LiveIds
  <1>5. n \in Nat
    BY DEF EventsOf, FlowInv, TableType
  <1> HIDE DEF n
  <1>6. v \in FlowRecord /\ v.id = r.id /\ v.tcp_state = r.tcp_state
    <2>1. ev \in Seq(Nat)
      BY <1>3, <1>5 DEF FlowRecord
    <2> HIDE DEF ev
    <2> QED BY <1>3, <2>1 DEF FlowRecord
  <1> HIDE DEF v
  <1>7. /\ DOMAIN flows' = DOMAIN flows \cup {place} /\ flows'[place] = v
        /\ \A p \in DOMAIN flows : p # place => flows'[p] = flows[p]
    BY <1>1 DEF With
  <1>8. TableType'
    <2>1. /\ DOMAIN flows' \subseteq Keys \X Nat
          /\ \A p \in DOMAIN flows' :
                /\ flows'[p] \in FlowRecord
                /\ flows'[p].tcp_state \in IF p[1] \in TcpKeys THEN TcpState ELSE {"none"}
      BY <1>2, <1>3, <1>6, <1>7 DEF FlowInv, TableType
    <2>2. epochs' \in [Keys -> Nat] /\ next_flow_id' \in Nat /\ last_mono' \in Nat
      BY <1>1, <1>2 DEF FlowInv, TableType
    <2>3. emitted' \in [1 .. next_flow_id' -> Nat]
      <3>1. 1 .. next_flow_id' = (1 .. next_flow_id) \cup {r.id}
        BY <1>1, <1>3, <1>4 DEF FlowInv, TableType
      <3>2. /\ DOMAIN emitted' = 1 .. next_flow_id'
            /\ \A i \in 1 .. next_flow_id' : emitted'[i] \in Nat
        BY <1>1, <1>5, <3>1 DEF With, FlowInv, TableType
      <3>3. emitted' = [i \in DOMAIN emitted' |-> emitted'[i]]
        BY <1>1 DEF With
      <3> QED BY <3>2, <3>3
    <2> QED BY <2>1, <2>2, <2>3 DEF TableType
  <1>9. FlowIdsAreFresh'
    <2>1. \A p \in DOMAIN flows : flows[p].id \in 1 .. next_flow_id
      BY DEF FlowInv, FlowIdsAreFresh, LiveIds
    <2>2. ASSUME NEW p \in DOMAIN flows, p # place PROVE flows[p].id # r.id
      BY <1>3, <2>1, <2>2 DEF FlowInv, TableType, FlowIdsAreFresh
    <2>3. \A p, q \in DOMAIN flows' : p # q => flows'[p].id # flows'[q].id
      BY <1>6, <1>7, <2>2 DEF FlowInv, FlowIdsAreFresh
    <2>4. LiveIds' = LiveIds \cup {r.id}
      BY <1>3, <1>6, <1>7 DEF LiveIds
    <2>5. 1 .. next_flow_id' = (1 .. next_flow_id) \cup {r.id}
      BY <1>1, <1>3, <1>4 DEF FlowInv, TableType
    <2>6. r.id \in LiveIds \/ r.id \notin DOMAIN stored
      <3>1. DOMAIN stored \subseteq 1 .. next_flow_id /\ next_flow_id \in Nat
        BY DEF FlowInv, TableType, FlowIdsAreFresh
      <3>2. CASE place \in DOMAIN flows
        BY <1>3, <3>2 DEF LiveIds
      <3>3. CASE place \notin DOMAIN flows
        BY <1>3, <3>1, <3>3
      <3> QED BY <3>2, <3>3
    <2> QED BY <1>1, <2>3, <2>4, <2>5, <2>6 DEF FlowInv, FlowIdsAreFresh
  <1>10. OneOpenRecord'
    <2> SUFFICES ASSUME NEW p \in DOMAIN flows'
                 PROVE  /\ p[2] <= epochs'[p[1]]
                        /\ p[2] < epochs'[p[1]] => is_closed(flows'[p], last_mono')
      BY DEF OneOpenRecord
    <2>1. CASE p = place
      BY <1>1, <1>2, <2>1 DEF FlowInv, TableType
    <2>2. CASE p # place
      <3>1. p \in DOMAIN flows /\ flows'[p] = flows[p] /\ p[1] \in Keys /\ p[2] \in Nat
        BY <1>7, <2>2 DEF FlowInv, TableType
      <3>2. /\ p[2] <= epochs[p[1]] /\ flows[p] \in FlowRecord
            /\ p[2] < epochs[p[1]] => is_closed(flows[p], ts)
        BY <3>1, ClosedStays DEF FlowInv, OneOpenRecord, TableType
      <3>3. CASE p[1] = k
        BY <1>1, <1>2, <3>1, <3>2, <3>3 DEF FlowInv, TableType
      <3>4. CASE p[1] # k
        BY <1>1, <3>1, <3>2, <3>4 DEF FlowInv, TableType
      <3> QED BY <3>3, <3>4
    <2> QED BY <2>1, <2>2
  <1> QED BY <1>8, <1>9, <1>10 DEF FlowInv

\* The events the store has of a flow.
DoneOf(i) == IF i \in DOMAIN stored THEN stored[i].events ELSE << >>

\* What the store is told of a record.
Tells(told, r) ==
    /\ told.state = FlowState(r.tcp_state)
    /\ told.last_ts = r.last_ts
    /\ told.events = DoneOf(r.id) \o r.events

LEMMA SnapshotFact ==
    ASSUME NEW r, NEW S, NEW p
    PROVE  /\ Snapshot(r, p \in S).sealed <=> p \in S
           /\ Tells(Snapshot(r, p \in S), r)
  BY Zenon DEF Snapshot, DoneOf, Tells

\* What a commit writes: the flows of the places it takes, and no other.
LEMMA DeliveredFact ==
    ASSUME NEW places, NEW final, places \subseteq DOMAIN flows,
           \A p, q \in DOMAIN flows : p # q => flows[p].id # flows[q].id
    PROVE  /\ DOMAIN Delivered(places, final) = DOMAIN stored \cup {flows[p].id : p \in places}
           /\ \A p \in places :
                 /\ Delivered(places, final)[flows[p].id].sealed <=> p \in final
                 /\ Tells(Delivered(places, final)[flows[p].id], flows[p])
           /\ \A i \in DOMAIN stored :
                 (\A p \in places : flows[p].id # i) => Delivered(places, final)[i] = stored[i]
  <1> DEFINE ids == {r.id : r \in Recs(places)}
  <1>1. ids = {flows[p].id : p \in places}
    BY DEF Recs
  <1>2. ASSUME NEW p \in places
        PROVE  (CHOOSE q \in places : flows[q].id = flows[p].id) = p
    OBVIOUS
  <1>3. Delivered(places, final) =
           [i \in DOMAIN stored \cup ids |->
               IF i \in ids
               THEN LET p == CHOOSE q \in places : flows[q].id = i
                    IN  Snapshot(flows[p], p \in final)
               ELSE stored[i]]
    BY DEF Delivered
  <1>4. ASSUME NEW p \in places
        PROVE  Delivered(places, final)[flows[p].id] = Snapshot(flows[p], p \in final)
    <2>1. flows[p].id \in ids
      BY <1>1
    <2> HIDE DEF ids
    <2> QED BY <1>2, <1>3, <2>1
  <1>5. \A p \in places :
           /\ Delivered(places, final)[flows[p].id].sealed <=> p \in final
           /\ Tells(Delivered(places, final)[flows[p].id], flows[p])
    <2> SUFFICES ASSUME NEW p \in places
                 PROVE  /\ Delivered(places, final)[flows[p].id].sealed <=> p \in final
                        /\ Tells(Delivered(places, final)[flows[p].id], flows[p])
      OBVIOUS
    <2>1. Delivered(places, final)[flows[p].id] = Snapshot(flows[p], p \in final)
      BY <1>4, Zenon
    <2> QED BY <2>1, SnapshotFact, Zenon
  <1>6. ASSUME NEW i \in DOMAIN stored, \A p \in places : flows[p].id # i
        PROVE  Delivered(places, final)[i] = stored[i]
    <2>1. i \notin ids
      BY <1>1, <1>6
    <2> HIDE DEF ids
    <2> QED BY <1>3, <2>1
  <1> QED BY <1>1, <1>3, <1>6, <1>5

\* The tick: the records that stay keep their ids, and none of them is told as final.
LEMMA CommitKeeps == ASSUME FlowInv, Commit PROVE FlowInv'
  <1> DEFINE closed == ClosedPlaces(last_mono)
             open == DOMAIN flows \ closed
             places == closed \cup DirtyPlaces
  <1>1. /\ flows' = [p \in open |-> IF p \in DirtyPlaces THEN TakenEvents(flows[p]) ELSE flows[p]]
        /\ stored' = Delivered(places, closed)
        /\ UNCHANGED <<epochs, next_flow_id, last_mono, emitted>>
    BY DEF Commit
  <1>2. places \subseteq DOMAIN flows
    BY DEF ClosedPlaces, DirtyPlaces
  <1>3. \A p, q \in DOMAIN flows : p # q => flows[p].id # flows[q].id
    BY DEF FlowInv, FlowIdsAreFresh
  <1>4. /\ DOMAIN stored' = DOMAIN stored \cup {flows[p].id : p \in places}
        /\ \A p \in places : stored'[flows[p].id].sealed <=> p \in closed
        /\ \A i \in DOMAIN stored :
              (\A p \in places : flows[p].id # i) => stored'[i] = stored[i]
    <2> HIDE DEF places, closed, open
    <2> QED BY <1>1, <1>2, <1>3, DeliveredFact
  <1>5. ASSUME NEW p \in open
        PROVE  /\ flows'[p] \in FlowRecord
               /\ flows'[p].id = flows[p].id /\ flows'[p].tcp_state = flows[p].tcp_state
               /\ flows'[p].last_ts = flows[p].last_ts
    <2>1. flows[p] \in FlowRecord
      BY DEF FlowInv, TableType
    <2>2. TakenEvents(flows[p]) \in FlowRecord
      <3>1. << >> \in Seq(Nat)
        OBVIOUS
      <3> QED BY <2>1, <3>1 DEF TakenEvents, FlowRecord
    <2>3. /\ TakenEvents(flows[p]).id = flows[p].id
          /\ TakenEvents(flows[p]).tcp_state = flows[p].tcp_state
          /\ TakenEvents(flows[p]).last_ts = flows[p].last_ts
      BY <2>1 DEF TakenEvents, FlowRecord
    <2> QED BY <1>1, <2>1, <2>2, <2>3
  <1>6. /\ DOMAIN flows' = open /\ open \subseteq DOMAIN flows
        /\ open \cup closed = DOMAIN flows /\ open \cap closed = {}
    BY <1>1 DEF ClosedPlaces
  <1> HIDE DEF open, closed
  <1>7. TableType'
    BY <1>1, <1>5, <1>6 DEF FlowInv, TableType
  <1>8. FlowIdsAreFresh'
    <2>1. \A p, q \in DOMAIN flows' : p # q => flows'[p].id # flows'[q].id
      BY <1>3, <1>5, <1>6
    <2>2. LiveIds' = {flows[p].id : p \in open}
      BY <1>5, <1>6 DEF LiveIds
    <2>3. LiveIds = {flows[p].id : p \in open} \cup {flows[p].id : p \in closed}
      BY <1>6 DEF LiveIds
    <2>4. LiveIds' \cup DOMAIN stored' = LiveIds \cup DOMAIN stored
      BY <1>2, <1>4, <2>2, <2>3 DEF LiveIds
    <2>5. ASSUME NEW i \in LiveIds' \cap DOMAIN stored' PROVE ~stored'[i].sealed
      <3>1. PICK p \in open : i = flows[p].id
        BY <2>2
      <3>2. CASE p \in places
        <4>1. stored'[i].sealed <=> p \in closed
          BY <1>4, <3>1, <3>2
        <4> QED BY <1>6, <4>1
      <3>3. CASE p \notin places
        <4>1. \A q \in places : flows[q].id # i
          BY <1>2, <1>3, <1>6, <3>1, <3>3
        <4>2. i \in DOMAIN stored /\ stored'[i] = stored[i]
          BY <1>4, <4>1
        <4> QED BY <1>6, <3>1, <4>2 DEF FlowInv, FlowIdsAreFresh, LiveIds
      <3> QED BY <3>2, <3>3
    <2> QED BY <1>1, <2>1, <2>4, <2>5 DEF FlowInv, FlowIdsAreFresh
  <1>9. OneOpenRecord'
    BY <1>1, <1>5, <1>6 DEF FlowInv, OneOpenRecord, is_closed
  <1> QED BY <1>7, <1>8, <1>9 DEF FlowInv

\* The end of the capture: the table is empty and everything in it is told.
LEMMA FinishKeeps == ASSUME FlowInv, Finish PROVE FlowInv'
  <1>1. /\ flows' = << >> /\ stored' = Delivered(DOMAIN flows, DOMAIN flows)
        /\ UNCHANGED <<epochs, next_flow_id, last_mono, emitted>>
    BY DEF Finish
  <1>2. \A p, q \in DOMAIN flows : p # q => flows[p].id # flows[q].id
    BY DEF FlowInv, FlowIdsAreFresh
  <1>3. DOMAIN stored' = DOMAIN stored \cup LiveIds
    BY <1>1, <1>2, DeliveredFact DEF LiveIds
  <1>4. DOMAIN flows' = {} /\ LiveIds' = {}
    BY <1>1 DEF LiveIds
  <1>5. TableType' /\ OneOpenRecord'
    BY <1>1, <1>4 DEF FlowInv, TableType, OneOpenRecord
  <1>6. FlowIdsAreFresh'
    BY <1>1, <1>3, <1>4 DEF FlowInv, FlowIdsAreFresh
  <1> QED BY <1>5, <1>6 DEF FlowInv

LEMMA FlowStarts == ASSUME Init PROVE FlowInv
  <1>1. DOMAIN flows = {} /\ DOMAIN stored = {} /\ LiveIds = {}
    BY DEF Init, LiveIds
  <1>2. TableType
    BY <1>1 DEF Init, TableType
  <1>3. FlowIdsAreFresh /\ OneOpenRecord
    BY <1>1 DEF Init, FlowIdsAreFresh, OneOpenRecord
  <1> QED BY <1>2, <1>3 DEF FlowInv

\* A step of the table is a packet, a tick or the end.
LEMMA FlowSteps ==
    ASSUME FlowInv, Next
    PROVE  \/ \E sig, answers :
                 \E k \in Keys, from_lo \in BOOLEAN, ts \in Nat, event \in 0 .. 1 :
                     /\ last_mono <= ts /\ (k \in TcpKeys => sig \in TcpSignals)
                     /\ Ingest(k, from_lo, sig, answers, ts, event)
           \/ Commit
           \/ Finish
  <1>1. \A ts \in last_mono .. MaxTime : ts \in Nat /\ last_mono <= ts
    BY EngineAssumption DEF FlowInv, TableType
  <1>2. CASE IngestTcp
    BY <1>1, <1>2, EngineAssumption DEF IngestTcp, Keys
  <1>3. CASE IngestUdp
    BY <1>1, <1>3, EngineAssumption DEF IngestUdp, Keys
  <1> QED BY <1>2, <1>3 DEF Next

LEMMA FlowStep == ASSUME FlowInv, [Next]_vars PROVE FlowInv'
  <1>1. CASE Next
    BY <1>1, FlowSteps, IngestKeeps, CommitKeeps, FinishKeeps
  <1>2. CASE UNCHANGED vars
    BY <1>2 DEF vars, table, FlowInv, TableType, FlowIdsAreFresh, LiveIds, OneOpenRecord
  <1> QED BY <1>1, <1>2

\* The inductive invariant of the table: the types of what Shard::ingest reads and writes,
\* and the identity of the flows (table.rs).
THEOREM FlowInvariant == Spec => []FlowInv
  <1>1. Init => FlowInv
    BY FlowStarts
  <1>2. FlowInv /\ [Next]_vars => FlowInv'
    BY FlowStep
  <1> QED BY <1>1, <1>2, PTL DEF Spec

\* A flow has one id and one open record from its first packet to the store: no id serves
\* two flows, none is lost, and a conversation is never split over two open records
\* (table.rs, Shard::ingest).
THEOREM FlowsKeepTheirIdentity == Spec => []FlowIdentity
  <1>1. FlowInv => FlowIdentity
    BY DEF FlowInv, FlowIdentity
  <1> QED BY <1>1, FlowInvariant, PTL

\* A record that has ended takes no packet, and what was told as final is not live, so
\* no commit writes it again.
LEMMA EndStep ==
    ASSUME FlowInv, Next
    PROVE  /\ \A p \in DOMAIN flows \cap DOMAIN flows' :
                 is_closed(flows[p], last_mono') => flows'[p] = flows[p]
           /\ \A i \in DOMAIN stored : stored[i].sealed => stored'[i] = stored[i]
  <1>1. \A p, q \in DOMAIN flows : p # q => flows[p].id # flows[q].id
    BY DEF FlowInv, FlowIdsAreFresh
  <1>2. ASSUME NEW i \in DOMAIN stored, stored[i].sealed
        PROVE  \A p \in DOMAIN flows : flows[p].id # i
    BY <1>2 DEF FlowInv, FlowIdsAreFresh, LiveIds
  <1>3. ASSUME NEW k \in Keys, NEW from_lo \in BOOLEAN, NEW ts \in Nat, NEW event \in 0 .. 1,
               NEW sig, NEW answers, Ingest(k, from_lo, sig, answers, ts, event)
        PROVE  /\ stored' = stored
               /\ \A p \in DOMAIN flows : is_closed(flows[p], last_mono') => flows'[p] = flows[p]
    <2> DEFINE place == <<k, EpochFor(k, ts)>>
               r == RecordAfter(k, from_lo, sig, ts)
               n == EventsOf(r.id) + event
               v == [r EXCEPT !.events = IF event = 1 THEN Append(r.events, n) ELSE r.events]
    <2>1. flows' = With(flows, place, v) /\ last_mono' = ts /\ stored' = stored
      BY <1>3 DEF Ingest, ShardIngest
    <2>2. place \in DOMAIN flows => ~is_closed(flows[place], ts)
      BY PlaceOfPacket
    <2> HIDE DEF place, v
    <2>3. \A p \in DOMAIN flows : p # place => flows'[p] = flows[p]
      BY <2>1 DEF With
    <2> QED BY <2>1, <2>2, <2>3
  <1>4. CASE Commit
    <2> DEFINE closed == ClosedPlaces(last_mono)
               places == closed \cup DirtyPlaces
    <2>1. DOMAIN flows' = DOMAIN flows \ closed /\ last_mono' = last_mono
      BY <1>4 DEF Commit
    <2>2. stored' = Delivered(places, closed)
      BY <1>4 DEF Commit
    <2>3. \A p \in DOMAIN flows' : ~is_closed(flows[p], last_mono')
      BY <2>1 DEF ClosedPlaces
    <2>4. places \subseteq DOMAIN flows
      BY DEF ClosedPlaces, DirtyPlaces
    <2> HIDE DEF places, closed
    <2>5. \A i \in DOMAIN stored : (\A p \in places : flows[p].id # i) => stored'[i] = stored[i]
      BY <1>1, <2>2, <2>4, DeliveredFact
    <2> QED BY <1>2, <2>3, <2>4, <2>5
  <1>5. CASE Finish
    <2> DEFINE places == DOMAIN flows
    <2>1. stored' = Delivered(places, places) /\ places \subseteq DOMAIN flows
      BY <1>5 DEF Finish
    <2>2. DOMAIN flows' = {}
      BY <1>5 DEF Finish
    <2> HIDE DEF places
    <2>3. \A i \in DOMAIN stored : (\A p \in places : flows[p].id # i) => stored'[i] = stored[i]
      BY <1>1, <2>1, DeliveredFact
    <2> QED BY <1>2, <2>1, <2>2, <2>3
  <1> QED BY <1>3, <1>4, <1>5, FlowSteps

\* An end is an end: a closed, reset or idle record takes no further packet, so a reused
\* 5-tuple gets a record of its own, and what the store was told is final is never written
\* again (table.rs is_closed and ingest, pipeline.rs commit_to_store and finish).
THEOREM EndStaysFinal == Spec => EndIsFinal
  <1>1. FlowInv /\ [Next]_vars =>
           [\A p \in DOMAIN flows \cap DOMAIN flows' :
               is_closed(flows[p], last_mono') => flows'[p] = flows[p]]_vars
    BY EndStep
  <1>2. FlowInv /\ [Next]_vars =>
           [\A i \in DOMAIN stored : stored[i].sealed => stored'[i] = stored[i]]_vars
    BY EndStep
  <1> QED BY <1>1, <1>2, FlowInvariant, PTL
          DEF Spec, EndIsFinal, EndedTakesNoMore, SealedIsFinal

-----------------------------------------------------------------------------
(* Delivery: the events of a flow reach the store once and in order.       *)

Count(m) == [n \in 1 .. m |-> n]

\* What the store has of a flow and what its record still holds are together what the
\* flow has produced.
Delivery ==
    /\ \A i \in DOMAIN stored : stored[i].events \in Seq(Nat)
    /\ \A p \in DOMAIN flows :
          DoneOf(flows[p].id) \o flows[p].events = Count(emitted[flows[p].id])
    /\ \A i \in DOMAIN stored \ LiveIds : stored[i].events = Count(emitted[i])

DeliveryInv == FlowInv /\ Delivery /\ CleanMeansStored

LEMMA OneMore ==
    ASSUME NEW s \in Seq(Nat), NEW t \in Seq(Nat), NEW m \in Nat, s \o t = Count(m)
    PROVE  s \o Append(t, m + 1) = Count(m + 1)
  <1>1. Len(s) + Len(t) = m
    BY DEF Count
  <1>2. s \o Append(t, m + 1) = Append(s \o t, m + 1)
    OBVIOUS
  <1>3. Append(Count(m), m + 1) = Count(m + 1)
    BY DEF Count
  <1> QED BY <1>2, <1>3

\* What a record and the store have of a flow are sequences, and so is all of it.
LEMMA EventsOfRecord ==
    ASSUME DeliveryInv, NEW p \in DOMAIN flows
    PROVE  /\ DoneOf(flows[p].id) \in Seq(Nat) /\ flows[p].events \in Seq(Nat)
           /\ DoneOf(flows[p].id) \o flows[p].events \in Seq(Nat)
           /\ DoneOf(flows[p].id) \o flows[p].events = Count(emitted[flows[p].id])
  <1> DEFINE s == DoneOf(flows[p].id)
             t == flows[p].events
  <1>1. s \in Seq(Nat)
    BY DEF DeliveryInv, Delivery, DoneOf
  <1>2. t \in Seq(Nat)
    BY DEF DeliveryInv, FlowInv, TableType, FlowRecord
  <1>3. s \o t = Count(emitted[flows[p].id])
    BY DEF DeliveryInv, Delivery
  <1> HIDE DEF s, t
  <1>4. s \o t \in Seq(Nat)
    BY <1>1, <1>2
  <1> QED BY <1>1, <1>2, <1>3, <1>4 DEF s, t

\* One packet: its record gains the event the flow has produced, the others keep theirs.
LEMMA IngestDelivers ==
    ASSUME DeliveryInv, NEW k \in Keys, NEW from_lo \in BOOLEAN, NEW sig, NEW answers,
           NEW ts \in Nat, NEW event \in 0 .. 1, last_mono <= ts,
           k \in TcpKeys => sig \in TcpSignals,
           Ingest(k, from_lo, sig, answers, ts, event)
    PROVE  (Delivery /\ CleanMeansStored)'
  <1> DEFINE place == <<k, EpochFor(k, ts)>>
             r == RecordAfter(k, from_lo, sig, ts)
             n == EventsOf(r.id) + event
             ev == IF event = 1 THEN Append(r.events, n) ELSE r.events
             v == [r EXCEPT !.events = ev]
  <1>1. /\ flows' = With(flows, place, v) /\ emitted' = With(emitted, r.id, n)
        /\ UNCHANGED stored
    BY DEF Ingest, ShardIngest
  <1>2. /\ r \in FlowRecord /\ r.dirty = TRUE
        /\ r.id = IF place \in DOMAIN flows THEN flows[place].id ELSE next_flow_id + 1
        /\ r.events = IF place \in DOMAIN flows THEN flows[place].events ELSE << >>
    <2>1. /\ r \in FlowRecord
          /\ r.id = IF place \in DOMAIN flows THEN flows[place].id ELSE next_flow_id + 1
      BY RecordOfPacket DEF DeliveryInv
    <2>2. CASE place \in DOMAIN flows
      <3> DEFINE q == flows[place]
                 state == Advanced(q, k, from_lo, sig)
      <3>1. r = [q EXCEPT !.tcp_state = state, !.last_ts = ts, !.dirty = TRUE]
        BY <2>2 DEF RecordAfter, Touched
      <3>2. q \in FlowRecord
        BY <2>2 DEF DeliveryInv, FlowInv, TableType
      <3> HIDE DEF q, state
      <3>3. r.dirty = TRUE /\ r.events = q.events
        BY <3>1, <3>2 DEF FlowRecord
      <3> QED BY <2>1, <2>2, <3>3 DEF q
    <2>3. CASE place \notin DOMAIN flows
      <3>1. r.dirty = TRUE /\ r.events = << >>
        BY <2>3 DEF RecordAfter, NewRecord
      <3> QED BY <2>1, <2>3, <3>1
    <2> QED BY <2>2, <2>3
  <1> HIDE DEF r, place
  <1>3. DoneOf(r.id) \in Seq(Nat)
    BY DEF DeliveryInv, Delivery, DoneOf
  <1>4. EventsOf(r.id) \in Nat /\ DoneOf(r.id) \o r.events = Count(EventsOf(r.id))
    <2>1. CASE place \in DOMAIN flows
      <3>1. flows[place].id \in DOMAIN emitted /\ emitted[flows[place].id] \in Nat
        BY <2>1 DEF DeliveryInv, FlowInv, TableType, FlowIdsAreFresh, LiveIds
      <3> QED BY <1>2, <2>1, <3>1 DEF DeliveryInv, Delivery, EventsOf
    <2>2. CASE place \notin DOMAIN flows
      <3>1. next_flow_id + 1 \notin DOMAIN emitted /\ next_flow_id + 1 \notin DOMAIN stored
        BY DEF DeliveryInv, FlowInv, TableType, FlowIdsAreFresh
      <3>2. EventsOf(r.id) = 0 /\ DoneOf(r.id) = << >> /\ r.events = << >>
        BY <1>2, <2>2, <3>1 DEF EventsOf, DoneOf
      <3>3. << >> \o << >> = Count(0)
        BY DEF Count
      <3> QED BY <3>2, <3>3
    <2> QED BY <2>1, <2>2
  <1>5. ev \in Seq(Nat) /\ n \in Nat /\ DoneOf(r.id) \o ev = Count(n)
    <2> DEFINE s == DoneOf(r.id)
               t == r.events
               m == EventsOf(r.id)
    <2>1. s \in Seq(Nat) /\ t \in Seq(Nat) /\ m \in Nat /\ s \o t = Count(m)
      BY <1>2, <1>3, <1>4 DEF FlowRecord
    <2>2. /\ event = 1 => ev = Append(t, m + 1) /\ n = m + 1
          /\ event = 0 => ev = t /\ n = m
      BY <2>1
    <2> HIDE DEF s, t, m, ev, n
    <2>3. s \o Append(t, m + 1) = Count(m + 1)
      BY <2>1, OneMore, Zenon
    <2>4. Append(t, m + 1) \in Seq(Nat) /\ m + 1 \in Nat
      BY <2>1
    <2>5. event = 1 \/ event = 0
      OBVIOUS
    <2>6. ev \in Seq(Nat) /\ n \in Nat /\ s \o ev = Count(n)
      BY <2>1, <2>2, <2>3, <2>4, <2>5, Zenon
    <2> QED BY <2>6 DEF s
  <1> HIDE DEF n, ev
  <1>6. v.id = r.id /\ v.events = ev /\ v.dirty = TRUE
    BY <1>2, <1>5 DEF FlowRecord
  <1> HIDE DEF v
  <1>7. /\ DOMAIN flows' = DOMAIN flows \cup {place} /\ flows'[place] = v
        /\ \A p \in DOMAIN flows : p # place => flows'[p] = flows[p]
    BY <1>1 DEF With
  <1>8. /\ emitted'[r.id] = n
        /\ \A i \in DOMAIN emitted : i # r.id => emitted'[i] = emitted[i]
    BY <1>1 DEF With
  <1>9. ASSUME NEW p \in DOMAIN flows, p # place
        PROVE  flows[p].id # r.id /\ flows[p].id \in DOMAIN emitted
    <2>1. \A q \in DOMAIN flows : flows[q].id \in 1 .. next_flow_id
      BY DEF DeliveryInv, FlowInv, FlowIdsAreFresh, LiveIds
    <2> QED BY <1>2, <1>9, <2>1 DEF DeliveryInv, FlowInv, TableType, FlowIdsAreFresh
  <1>10. \A p \in DOMAIN flows' :
            (DoneOf(flows[p].id) \o flows[p].events = Count(emitted[flows[p].id]))'
    <2> SUFFICES ASSUME NEW p \in DOMAIN flows'
                 PROVE  (DoneOf(flows[p].id) \o flows[p].events = Count(emitted[flows[p].id]))'
      OBVIOUS
    <2>1. DoneOf(flows[p].id)' = DoneOf(flows'[p].id)
      BY <1>1 DEF DoneOf
    <2>2. CASE p = place
      BY <1>5, <1>6, <1>7, <1>8, <2>1, <2>2
    <2>3. CASE p # place
      BY <1>7, <1>8, <1>9, <2>1, <2>3 DEF DeliveryInv, Delivery
    <2> QED BY <2>2, <2>3
  <1>11. \A i \in DOMAIN stored' \ LiveIds' : stored'[i].events = Count(emitted'[i])
    <2> SUFFICES ASSUME NEW i \in DOMAIN stored, i \notin LiveIds'
                 PROVE  stored[i].events = Count(emitted'[i])
      BY <1>1
    <2>1. i # r.id
      BY <1>6, <1>7 DEF LiveIds
    <2>2. i \notin LiveIds
      BY <1>2, <1>6, <1>7, <2>1 DEF LiveIds
    <2>3. i \in DOMAIN emitted
      BY DEF DeliveryInv, FlowInv, TableType, FlowIdsAreFresh
    <2> QED BY <1>8, <2>1, <2>2, <2>3 DEF DeliveryInv, Delivery
  <1>12. Delivery'
    <2>1. \A i \in DOMAIN stored' : stored'[i].events \in Seq(Nat)
      BY <1>1 DEF DeliveryInv, Delivery
    <2> QED BY <1>10, <1>11, <2>1 DEF Delivery
  <1>13. CleanMeansStored'
    BY <1>1, <1>6, <1>7 DEF DeliveryInv, CleanMeansStored
  <1> QED BY <1>12, <1>13

\* The tick: a record that is taken gives its events to the store, the others are as before.
LEMMA CommitDelivers ==
    ASSUME DeliveryInv, Commit PROVE (Delivery /\ CleanMeansStored)'
  <1> DEFINE closed == ClosedPlaces(last_mono)
             open == DOMAIN flows \ closed
             places == closed \cup DirtyPlaces
  <1>1. flows' = [p \in open |-> IF p \in DirtyPlaces THEN TakenEvents(flows[p]) ELSE flows[p]]
    BY DEF Commit
  <1>2. stored' = Delivered(places, closed)
    BY DEF Commit
  <1>3. UNCHANGED emitted
    BY DEF Commit
  <1>4. places \subseteq DOMAIN flows
    BY DEF ClosedPlaces, DirtyPlaces
  <1>5. \A p, q \in DOMAIN flows : p # q => flows[p].id # flows[q].id
    BY DEF DeliveryInv, FlowInv, FlowIdsAreFresh
  <1>6. /\ DOMAIN stored' = DOMAIN stored \cup {flows[p].id : p \in places}
        /\ \A p \in places : Tells(stored'[flows[p].id], flows[p])
        /\ \A i \in DOMAIN stored :
              (\A p \in places : flows[p].id # i) => stored'[i] = stored[i]
    <2> HIDE DEF places, closed, open
    <2> QED BY <1>2, <1>4, <1>5, DeliveredFact
  <1>7. ASSUME NEW p \in open
        PROVE  /\ flows'[p].id = flows[p].id /\ flows'[p].last_ts = flows[p].last_ts
               /\ flows'[p].tcp_state = flows[p].tcp_state
               /\ p \in places => flows'[p].events = << >>
               /\ p \notin places => flows'[p] = flows[p] /\ ~flows[p].dirty
    <2>1. flows[p] \in FlowRecord
      BY DEF DeliveryInv, FlowInv, TableType
    <2>2. /\ TakenEvents(flows[p]).id = flows[p].id
          /\ TakenEvents(flows[p]).tcp_state = flows[p].tcp_state
          /\ TakenEvents(flows[p]).last_ts = flows[p].last_ts
          /\ TakenEvents(flows[p]).events = << >>
      BY <2>1 DEF TakenEvents, FlowRecord
    <2> QED BY <1>1, <2>2 DEF DirtyPlaces
  <1>8. DOMAIN flows' = open /\ open \subseteq DOMAIN flows /\ DOMAIN flows \subseteq open \cup places
    BY <1>1
  <1> HIDE DEF open, closed, places
  <1>9. ASSUME NEW p \in DOMAIN flows
        PROVE  /\ DoneOf(flows[p].id) \in Seq(Nat) /\ flows[p].events \in Seq(Nat)
               /\ DoneOf(flows[p].id) \o flows[p].events \in Seq(Nat)
               /\ DoneOf(flows[p].id) \o flows[p].events = Count(emitted[flows[p].id])
    BY EventsOfRecord
  <1>10. ASSUME NEW p \in places
         PROVE  /\ flows[p].id \in DOMAIN stored'
                /\ stored'[flows[p].id].events = Count(emitted[flows[p].id])
                /\ stored'[flows[p].id].events \in Seq(Nat)
    <2>1. stored'[flows[p].id].events = DoneOf(flows[p].id) \o flows[p].events
      BY <1>6 DEF Tells
    <2>2. flows[p].id \in DOMAIN stored'
      BY <1>6
    <2> QED BY <1>4, <1>9, <2>1, <2>2, Zenon
  <1>11. ASSUME NEW p \in DOMAIN flows, p \notin places
         PROVE  /\ flows[p].id \in DOMAIN stored' <=> flows[p].id \in DOMAIN stored
                /\ flows[p].id \in DOMAIN stored => stored'[flows[p].id] = stored[flows[p].id]
    BY <1>4, <1>5, <1>6, <1>11
  <1>12. \A i \in DOMAIN stored' : stored'[i].events \in Seq(Nat)
    <2> SUFFICES ASSUME NEW i \in DOMAIN stored' PROVE stored'[i].events \in Seq(Nat)
      OBVIOUS
    <2>1. CASE \E p \in places : flows[p].id = i
      BY <1>10, <2>1
    <2>2. CASE \A p \in places : flows[p].id # i
      BY <1>6, <2>2 DEF DeliveryInv, Delivery
    <2> QED BY <2>1, <2>2
  <1>13. \A p \in DOMAIN flows' :
            (DoneOf(flows[p].id) \o flows[p].events = Count(emitted[flows[p].id]))'
    <2> SUFFICES ASSUME NEW p \in open
                 PROVE  (DoneOf(flows[p].id) \o flows[p].events = Count(emitted[flows[p].id]))'
      BY <1>8
    <2>1. flows'[p].id = flows[p].id /\ p \in DOMAIN flows
      BY <1>7, <1>8
    <2>2. CASE p \in places
      <3>1. DoneOf(flows[p].id)' = Count(emitted[flows[p].id])
        BY <1>10, <2>1, <2>2 DEF DoneOf
      <3>2. DoneOf(flows[p].id)' \in Seq(Nat) /\ flows'[p].events = << >>
        BY <1>7, <1>10, <2>1, <2>2 DEF DoneOf
      <3> HIDE DEF DoneOf
      <3> QED BY <1>3, <2>1, <3>1, <3>2
    <2>3. CASE p \notin places
      <3>1. DoneOf(flows[p].id)' = DoneOf(flows[p].id) /\ flows'[p].events = flows[p].events
        BY <1>7, <1>11, <2>1, <2>3 DEF DoneOf
      <3> QED BY <1>3, <1>9, <2>1, <3>1
    <2> QED BY <2>2, <2>3
  <1>14. \A i \in DOMAIN stored' \ LiveIds' : stored'[i].events = Count(emitted'[i])
    <2> SUFFICES ASSUME NEW i \in DOMAIN stored', i \notin LiveIds'
                 PROVE  stored'[i].events = Count(emitted[i])
      BY <1>3
    <2>1. CASE \E p \in places : flows[p].id = i
      BY <1>10, <2>1
    <2>2. CASE \A p \in places : flows[p].id # i
      <3>1. i \in DOMAIN stored /\ stored'[i] = stored[i]
        BY <1>6, <2>2
      <3>2. i \notin LiveIds
        BY <1>7, <1>8, <2>2 DEF LiveIds
      <3> QED BY <3>1, <3>2 DEF DeliveryInv, Delivery
    <2> QED BY <2>1, <2>2
  <1>15. CleanMeansStored'
    <2> SUFFICES ASSUME NEW p \in open, ~flows'[p].dirty
                 PROVE  /\ flows'[p].events = << >> /\ flows'[p].id \in DOMAIN stored'
                        /\ stored'[flows'[p].id].state = FlowState(flows'[p].tcp_state)
                        /\ stored'[flows'[p].id].last_ts = flows'[p].last_ts
      BY <1>8 DEF CleanMeansStored
    <2>1. CASE p \in places
      BY <1>6, <1>7, <1>10, <2>1 DEF Tells
    <2>2. CASE p \notin places
      BY <1>7, <1>8, <1>11, <2>2 DEF DeliveryInv, CleanMeansStored
    <2> QED BY <2>1, <2>2
  <1> QED BY <1>12, <1>13, <1>14, <1>15 DEF Delivery

\* The end: every record gives its events to the store.
LEMMA FinishDelivers ==
    ASSUME DeliveryInv, Finish PROVE (Delivery /\ CleanMeansStored)'
  <1> DEFINE places == DOMAIN flows
  <1>1. stored' = Delivered(places, places)
    BY DEF Finish
  <1>2. DOMAIN flows' = {} /\ UNCHANGED emitted
    BY DEF Finish
  <1>3. places \subseteq DOMAIN flows
    OBVIOUS
  <1>4. \A p, q \in DOMAIN flows : p # q => flows[p].id # flows[q].id
    BY DEF DeliveryInv, FlowInv, FlowIdsAreFresh
  <1>5. /\ DOMAIN stored' = DOMAIN stored \cup {flows[p].id : p \in places}
        /\ \A p \in places : Tells(stored'[flows[p].id], flows[p])
        /\ \A i \in DOMAIN stored :
              (\A p \in places : flows[p].id # i) => stored'[i] = stored[i]
    <2> HIDE DEF places
    <2> QED BY <1>1, <1>3, <1>4, DeliveredFact
  <1>6. ASSUME NEW p \in DOMAIN flows
        PROVE  /\ stored'[flows[p].id].events = Count(emitted[flows[p].id])
               /\ stored'[flows[p].id].events \in Seq(Nat)
    <2>1. stored'[flows[p].id].events = DoneOf(flows[p].id) \o flows[p].events
      BY <1>5 DEF Tells
    <2> QED BY <2>1, EventsOfRecord, Zenon
  <1>7. ASSUME NEW i \in DOMAIN stored'
        PROVE  stored'[i].events \in Seq(Nat) /\ stored'[i].events = Count(emitted[i])
    <2>1. CASE \E p \in DOMAIN flows : flows[p].id = i
      BY <1>6, <2>1
    <2>2. CASE \A p \in DOMAIN flows : flows[p].id # i
      <3>1. i \in DOMAIN stored /\ stored'[i] = stored[i] /\ i \notin LiveIds
        BY <1>5, <2>2 DEF LiveIds
      <3> QED BY <3>1 DEF DeliveryInv, Delivery
    <2> QED BY <2>1, <2>2
  <1> QED BY <1>2, <1>7 DEF Delivery, CleanMeansStored

LEMMA DeliveryStarts == ASSUME Init PROVE DeliveryInv
  <1>1. DOMAIN flows = {} /\ DOMAIN stored = {}
    BY DEF Init
  <1> QED BY <1>1, FlowStarts DEF DeliveryInv, Delivery, CleanMeansStored

LEMMA DeliveryStep == ASSUME DeliveryInv, [Next]_vars PROVE DeliveryInv'
  <1> SUFFICES (Delivery /\ CleanMeansStored)'
    BY FlowStep DEF DeliveryInv
  <1>1. CASE Next
    BY <1>1, FlowSteps, IngestDelivers, CommitDelivers, FinishDelivers DEF DeliveryInv
  <1>2. CASE UNCHANGED vars
    BY <1>2 DEF vars, table, DeliveryInv, Delivery, CleanMeansStored, LiveIds, DoneOf
  <1> QED BY <1>1, <1>2

\* The inductive invariant of delivery: the identity of the flows, and that what the store
\* has of a flow followed by what its record holds is everything the flow has produced
\* (pipeline.rs commit_to_store and finish).
THEOREM DeliveryInvariant == Spec => []DeliveryInv
  <1>1. Init => DeliveryInv
    BY DeliveryStarts
  <1>2. DeliveryInv /\ [Next]_vars => DeliveryInv'
    BY DeliveryStep
  <1> QED BY <1>1, <1>2, PTL DEF Spec

\* Each protocol event reaches the store once and in order, whichever of the snapshots,
\* ticks and the final drain carries it, and a record that is not dirty has nothing the
\* store has not been told (pipeline.rs commit_to_store and finish, table.rs dirty).
THEOREM EventsReachTheStoreOnce == Spec => []DeliveredOnce
  <1>1. ASSUME DeliveryInv PROVE EventsDeliveredOnce
    <2> SUFFICES ASSUME NEW i \in 1 .. next_flow_id
                 PROVE  LET left == {flows[p].events : p \in {q \in DOMAIN flows : flows[q].id = i}}
                        IN  IF left = {} THEN DoneOf(i) = Count(emitted[i])
                            ELSE DoneOf(i) \o (CHOOSE s \in left : TRUE) = Count(emitted[i])
      BY DEF EventsDeliveredOnce, DoneOf, Count
    <2> DEFINE left == {flows[p].events : p \in {q \in DOMAIN flows : flows[q].id = i}}
    <2>1. CASE \E p \in DOMAIN flows : flows[p].id = i
      <3>1. PICK p \in DOMAIN flows : flows[p].id = i
        BY <2>1
      <3>2. left = {flows[p].events}
        BY <1>1, <3>1 DEF DeliveryInv, FlowInv, FlowIdsAreFresh
      <3>3. (CHOOSE s \in left : TRUE) = flows[p].events /\ left # {}
        BY <3>2
      <3> QED BY <1>1, <3>1, <3>3 DEF DeliveryInv, Delivery
    <2>2. CASE \A p \in DOMAIN flows : flows[p].id # i
      <3>1. left = {} /\ i \in DOMAIN stored \ LiveIds
        BY <1>1, <2>2 DEF DeliveryInv, FlowInv, FlowIdsAreFresh, LiveIds
      <3> QED BY <1>1, <3>1 DEF DeliveryInv, Delivery, DoneOf
    <2> QED BY <2>1, <2>2
  <1>2. DeliveryInv => DeliveredOnce
    BY <1>1 DEF DeliveryInv, DeliveredOnce
  <1> QED BY <1>2, DeliveryInvariant, PTL
===============================================================================
