----------------------------- MODULE FlowEngine -----------------------------
(***************************************************************************)
(* Flow reconstruction: netpulse-flow's shard table and session builder    *)
(* (table.rs, session.rs, engine.rs), and the commits by which the live    *)
(* pipeline of netpulse-engine (pipeline.rs) moves what they hold into the *)
(* committed store.                                                        *)
(*                                                                         *)
(* Abstractions:                                                           *)
(*  - metrics are left out; a protocol event is its number within its flow;*)
(*  - the shards are one table: a key always selects the same shard;       *)
(*  - frames arrive in the order of their timestamps;                      *)
(*  - the store is what commits deliver: CaptureStore has its evictions    *)
(*    and its durable mirror, NameHints the name table ingest also feeds.  *)
(***************************************************************************)
EXTENDS Integers, Sequences, FiniteSets, TcpLifecycle

CONSTANTS
    TcpKeys,       \* canonical 5-tuples of TCP conversations
    UdpKeys,       \* and of datagram conversations
    Ips,           \* addresses
    Names,         \* host names a DNS response may carry
    Lo, Hi,        \* the canonical endpoints' addresses, by key
    Segments,      \* TCP segments the capture may see
    UdpIdle,       \* UDP_IDLE_NANOS
    LineageWindow, \* LINEAGE_WINDOW_NANOS
    MaxTime,       \* bound: timestamps
    MaxFlows,      \* bound: flows the table ever creates
    MaxEvents      \* bound: protocol events of one flow

Keys == TcpKeys \union UdpKeys

ASSUME EngineAssumption ==
    /\ TcpKeys \intersect UdpKeys = {}
    /\ Segments \subseteq TcpSignals
    /\ Lo \in [Keys -> Ips]
    /\ Hi \in [Keys -> Ips]
    /\ {UdpIdle, LineageWindow, MaxTime, MaxFlows, MaxEvents} \subseteq Nat
    /\ UdpIdle > 0
    /\ IsFiniteSet(Names)

VARIABLES
    flows,          \* Shard::flows: (key, epoch) -> record
    epochs,         \* Shard::epochs
    next_flow_id,
    last_mono,      \* newest timestamp seen: the "now" of a commit
    resolutions,    \* SessionReconstructor: address -> latest lookup, if any
    links, groups, dirty_groups, assigned_ids, next_session_id,
    stored,         \* flow id -> what the store was told of it
    stored_sessions,\* session id -> what the store was told of it
    ended,          \* finish() has run: the pipeline is dropped
    \* History.
    emitted         \* emitted[i]: events flow i has produced

table    == <<flows, epochs, next_flow_id>>
sessions == <<resolutions, links, groups, dirty_groups, assigned_ids, next_session_id>>
vars == <<table, last_mono, sessions, stored, stored_sessions, ended, emitted>>

NoLookup == [name |-> "none", at |-> 0]

Init ==
    /\ flows = << >>
    /\ epochs = [k \in Keys |-> 0]
    /\ next_flow_id = 0
    /\ last_mono = 0
    /\ resolutions = [ip \in Ips |-> NoLookup]
    /\ links = {}
    /\ groups = [n \in Names |-> << >>]
    /\ dirty_groups = {}
    /\ assigned_ids = [n \in Names |-> 0]
    /\ next_session_id = 0
    /\ stored = << >>
    /\ stored_sessions = << >>
    /\ ended = FALSE
    /\ emitted = << >>

\* f with x mapped to v, whether or not x was in its domain.
With(f, x, v) == [y \in DOMAIN f \union {x} |-> IF y = x THEN v ELSE f[y]]

is_closed(r, now) ==
    IF r.tcp_state = "none" THEN now - r.last_ts >= UdpIdle ELSE Terminal(r.tcp_state)

-----------------------------------------------------------------------------
(* Shard::ingest.                                                          *)

\* Whether the packet's 5-tuple needs a record other than the current one.
\* Mutants: a record that has ended serves the next conversation; every
\* packet starts a record.
AnyRecordServes(k, ts) == <<k, epochs[k]>> \notin DOMAIN flows
EveryPacketAnew(k, ts) == TRUE
NeedsNewRecord(k, ts) ==
    \/ <<k, epochs[k]>> \notin DOMAIN flows
    \/ is_closed(flows[<<k, epochs[k]>>], ts)

\* The epoch moves on only past a record that is still in the table.
EpochFor(k, ts) ==
    IF NeedsNewRecord(k, ts) /\ <<k, epochs[k]>> \in DOMAIN flows
    THEN epochs[k] + 1
    ELSE epochs[k]

\* Mutant: ids counted from the table, which shrinks at every commit.
TableSizedId == Cardinality(DOMAIN flows) + 1
FreshId      == next_flow_id + 1

NewRecord(k, from_lo, sig, ts) ==
    [id |-> FreshId,
     tcp_state |-> IF k \in TcpKeys THEN initial_tcp(sig) ELSE "none",
     first_ts |-> ts, last_ts |-> ts, initiator_is_lo |-> from_lo,
     events |-> << >>, dirty |-> TRUE]

Advanced(r, k, from_lo, sig) ==
    IF k \in TcpKeys THEN advance_tcp(r.tcp_state, sig, from_lo = r.initiator_is_lo)
    ELSE "none"

Touched(r, k, from_lo, sig, ts) ==
    [r EXCEPT !.tcp_state = Advanced(r, k, from_lo, sig),
              !.last_ts = ts, !.dirty = TRUE]

\* The record the packet belongs to, after the packet.
RecordAfter(k, from_lo, sig, ts) ==
    LET place == <<k, EpochFor(k, ts)>>
    IN  IF place \in DOMAIN flows THEN Touched(flows[place], k, from_lo, sig, ts)
        ELSE NewRecord(k, from_lo, sig, ts)

EventsOf(id) == IF id \in DOMAIN emitted THEN emitted[id] ELSE 0

ShardIngest(k, r, ts, event) ==
    LET place == <<k, EpochFor(k, ts)>>
        n == EventsOf(r.id) + event
        pushed == IF event = 1 THEN Append(r.events, n) ELSE r.events
    IN  /\ flows' = With(flows, place, [r EXCEPT !.events = pushed])
        /\ epochs' = [epochs EXCEPT ![k] = EpochFor(k, ts)]
        /\ next_flow_id' = IF place \in DOMAIN flows THEN next_flow_id ELSE next_flow_id + 1
        /\ emitted' = With(emitted, r.id, n)

-----------------------------------------------------------------------------
(* SessionReconstructor::observe.                                          *)

Dst(k, from_lo) == IF from_lo THEN Hi[k] ELSE Lo[k]

\* What is known of address ip after a packet whose answers are a function
\* from addresses to names.
Learned(answers, ts) ==
    [ip \in Ips |-> IF ip \in DOMAIN answers
                    THEN [name |-> answers[ip], at |-> ts]
                    ELSE resolutions[ip]]

\* Mutant: every packet in the window links its flow again.
NeverLinked(id)    == FALSE
already_linked(id) == \E l \in links : l.flow_id = id

Observe(k, from_lo, answers, ts, id) ==
    LET lookup == Learned(answers, ts)[Dst(k, from_lo)]
    IN  /\ resolutions' = Learned(answers, ts)
        /\ IF lookup # NoLookup /\ ts - lookup.at <= LineageWindow /\ ~already_linked(id)
           THEN /\ links' = links \union {[name |-> lookup.name, flow_id |-> id]}
                /\ groups' = [groups EXCEPT ![lookup.name] = Append(@, id)]
                /\ dirty_groups' = dirty_groups \union {lookup.name}
           ELSE UNCHANGED <<links, groups, dirty_groups>>
        /\ UNCHANGED <<assigned_ids, next_session_id>>

\* FlowEngine::ingest of one packet of conversation k.
Ingest(k, from_lo, sig, answers, ts, event) ==
    LET r == RecordAfter(k, from_lo, sig, ts)
    IN  /\ ~ended
        /\ next_flow_id < MaxFlows \/ <<k, EpochFor(k, ts)>> \in DOMAIN flows
        /\ EventsOf(r.id) + event <= MaxEvents
        /\ last_mono' = ts
        /\ ShardIngest(k, r, ts, event)
        /\ Observe(k, from_lo, answers, ts, r.id)
        /\ UNCHANGED <<stored, stored_sessions, ended>>

IngestTcp ==
    \E k \in TcpKeys, from_lo \in BOOLEAN, sig \in Segments,
       ts \in last_mono .. MaxTime, event \in 0 .. 1 :
        Ingest(k, from_lo, sig, << >>, ts, event)

\* DNS answers travel in datagrams.
Answers == {<< >>} \union UNION {[{ip} -> Names] : ip \in Ips}
IngestUdp ==
    \E k \in UdpKeys, from_lo \in BOOLEAN, answers \in Answers,
       ts \in last_mono .. MaxTime, event \in 0 .. 1 :
        Ingest(k, from_lo, "none", answers, ts, event)

-----------------------------------------------------------------------------
(* LivePipeline::commit_to_store and LivePipeline::finish; both run under  *)
(* the store's lock, so each is one step.                                  *)

Snapshot(r, final) ==
    [state |-> FlowState(r.tcp_state), last_ts |-> r.last_ts,
     events |-> (IF r.id \in DOMAIN stored THEN stored[r.id].events ELSE << >>) \o r.events,
     sealed |-> final]

Recs(places) == {flows[p] : p \in places}

\* The store after insert_flow of each record, those of `final` finalized.
Delivered(places, final) ==
    LET ids == {r.id : r \in Recs(places)}
    IN  [i \in DOMAIN stored \union ids |->
            IF i \in ids
            THEN LET p == CHOOSE q \in places : flows[q].id = i
                 IN  Snapshot(flows[p], p \in final)
            ELSE stored[i]]

\* Mutant: the tick evicts nothing.
NoneClosed(now)   == {}
ClosedPlaces(now) == {p \in DOMAIN flows : is_closed(flows[p], now)}

DirtyPlaces == {p \in DOMAIN flows : flows[p].dirty}

\* Snapshots take the record's events. Mutant: they leave a copy behind.
CopiedEvents(r) == [r EXCEPT !.dirty = FALSE]
TakenEvents(r)  == [r EXCEPT !.dirty = FALSE, !.events = << >>]

\* New session ids in the order the hash set happens to yield the names.
Numberings(new) ==
    {f \in [new -> next_session_id + 1 .. next_session_id + Cardinality(new)] :
        \A m, n \in new : m # n => f[m] # f[n]}

SessionsToldOf(names, ids) ==
    [i \in DOMAIN stored_sessions \union {ids[n] : n \in names} |->
        IF \E n \in names : ids[n] = i
        THEN LET n == CHOOSE m \in names : ids[m] = i IN [name |-> n, flow_ids |-> groups[n]]
        ELSE stored_sessions[i]]

Unassigned(names) == {n \in names : assigned_ids[n] = 0}
IdsWith(f) == [n \in Names |-> IF n \in DOMAIN f THEN f[n] ELSE assigned_ids[n]]

Commit ==
    LET closed == ClosedPlaces(last_mono)
        open == DOMAIN flows \ closed
    IN  /\ ~ended
        /\ flows' = [p \in open |-> IF p \in DirtyPlaces THEN TakenEvents(flows[p])
                                    ELSE flows[p]]
        /\ stored' = Delivered(closed \union DirtyPlaces, closed)
        /\ \E f \in Numberings(Unassigned(dirty_groups)) :
              /\ assigned_ids' = IdsWith(f)
              /\ stored_sessions' = SessionsToldOf(dirty_groups, IdsWith(f))
        /\ next_session_id' = next_session_id + Cardinality(Unassigned(dirty_groups))
        /\ dirty_groups' = {}
        /\ UNCHANGED <<epochs, next_flow_id, last_mono, resolutions, links, groups,
                       ended, emitted>>

\* The sessions the end of the capture writes out.
\* Mutant: those that already have an id are taken for written.
NotYetNumbered == {n \in Names : groups[n] # << >> /\ assigned_ids[n] = 0}
Grouped        == {n \in Names : groups[n] # << >>}

Finish ==
    /\ ~ended
    /\ ended' = TRUE
    /\ flows' = << >>
    /\ stored' = Delivered(DOMAIN flows, DOMAIN flows)
    /\ \E f \in Numberings(Unassigned(Grouped)) :
          stored_sessions' = SessionsToldOf(Grouped, IdsWith(f))
    /\ next_session_id' = next_session_id + Cardinality(Unassigned(Grouped))
    /\ UNCHANGED <<epochs, next_flow_id, last_mono, resolutions, links, groups,
                   dirty_groups, assigned_ids, emitted>>

Next ==
    \/ IngestTcp
    \/ IngestUdp
    \/ Commit
    \/ Finish

Spec == Init /\ [][Next]_vars
FairSpec == Spec /\ WF_vars(Commit)
-----------------------------------------------------------------------------
(* Properties.                                                             *)

FlowRecord ==
    [id : Nat, tcp_state : TcpState \union {"none"}, first_ts : Nat, last_ts : Nat,
     initiator_is_lo : BOOLEAN, events : Seq(Nat), dirty : BOOLEAN]
StoredFlow ==
    [state : {"SynSeen", "Established", "Closing", "Closed", "Datagram"}, last_ts : Nat,
     events : Seq(Nat), sealed : BOOLEAN]

\* Types.
TypeOK ==
    /\ DOMAIN flows \subseteq Keys \X Nat
    /\ \A p \in DOMAIN flows : flows[p] \in FlowRecord
    /\ epochs \in [Keys -> Nat]
    /\ next_flow_id \in Nat
    /\ last_mono \in Nat
    /\ resolutions \in [Ips -> [name : Names \union {"none"}, at : Nat]]
    /\ links \subseteq [name : Names, flow_id : Nat]
    /\ groups \in [Names -> Seq(Nat)]
    /\ dirty_groups \subseteq Names
    /\ assigned_ids \in [Names -> Nat]
    /\ next_session_id \in Nat
    /\ \A i \in DOMAIN stored : stored[i] \in StoredFlow
    /\ \A i \in DOMAIN stored_sessions :
          stored_sessions[i] \in [name : Names, flow_ids : Seq(Nat)]
    /\ ended \in BOOLEAN
    /\ DOMAIN emitted = 1 .. next_flow_id

LiveIds == {flows[p].id : p \in DOMAIN flows}

\* No flow is lost and no id serves two flows: live records have distinct
\* ids, every id handed out is in the table or in the store, and a flow the
\* store holds as finalized is not in the table any more.
FlowIdsAreFresh ==
    /\ \A p, q \in DOMAIN flows : p # q => flows[p].id # flows[q].id
    /\ LiveIds \union DOMAIN stored = 1 .. next_flow_id
    /\ \A i \in LiveIds \intersect DOMAIN stored : ~stored[i].sealed

\* A conversation is never split: of the records of one 5-tuple at most the
\* one of the current epoch is still open, the others only wait for a tick.
OneOpenRecord ==
    \A p \in DOMAIN flows :
        /\ p[2] <= epochs[p[1]]
        /\ p[2] < epochs[p[1]] => is_closed(flows[p], last_mono)

\* Each protocol event reaches the store once and in order, whichever of the
\* snapshots, ticks and the final drain carries it.
EventsDeliveredOnce ==
    \A i \in 1 .. next_flow_id :
        LET done == IF i \in DOMAIN stored THEN stored[i].events ELSE << >>
            left == {flows[p].events : p \in {q \in DOMAIN flows : flows[q].id = i}}
            all  == IF left = {} THEN done ELSE done \o (CHOOSE s \in left : TRUE)
        IN  all = [n \in 1 .. emitted[i] |-> n]

\* A record that is not dirty has nothing the store has not been told.
CleanMeansStored ==
    \A p \in DOMAIN flows :
        LET r == flows[p]
        IN  ~r.dirty => /\ r.events = << >>
                        /\ r.id \in DOMAIN stored
                        /\ stored[r.id].state = FlowState(r.tcp_state)
                        /\ stored[r.id].last_ts = r.last_ts

\* Once ended (closed, reset, or idle at the time of the packet) a record
\* takes no further packet: a reused 5-tuple gets a record of its own.
EndedTakesNoMore ==
    [][\A p \in DOMAIN flows \intersect DOMAIN flows' :
          is_closed(flows[p], last_mono') => flows'[p] = flows[p]]_vars

\* What the store was told is final stays as it is: no later tick, snapshot
\* or final drain writes that flow again.
SealedIsFinal ==
    [][\A i \in DOMAIN stored : stored[i].sealed => stored'[i] = stored[i]]_vars

\* A session the store holds refers to flows the store holds.
SessionFlowsStored ==
    \A i \in DOMAIN stored_sessions :
        \A n \in 1 .. Len(stored_sessions[i].flow_ids) :
            stored_sessions[i].flow_ids[n] \in DOMAIN stored

\* A flow is attributed to one lookup and counted there once, and a lookup
\* has one session, through snapshots and the final numbering alike.
OneSessionPerFlow ==
    /\ \A l, m \in links : l.flow_id = m.flow_id => l = m
    /\ \A n \in Names : Cardinality({l \in links : l.name = n}) = Len(groups[n])
    /\ \A i, j \in DOMAIN stored_sessions :
          stored_sessions[i].name = stored_sessions[j].name => i = j

\* When the capture has ended, every flow it saw is in the store as final and
\* every link found is in the session of its lookup.
FinishKeepsAll ==
    ended =>
        /\ \A i \in 1 .. next_flow_id : i \in DOMAIN stored /\ stored[i].sealed
        /\ \A l \in links : \E i \in DOMAIN stored_sessions :
              /\ stored_sessions[i].name = l.name
              /\ \E n \in 1 .. Len(stored_sessions[i].flow_ids) :
                    stored_sessions[i].flow_ids[n] = l.flow_id

\* A connection that has closed is recorded as closed.
ClosedIsRecorded ==
    \A i \in 1 .. MaxFlows :
        (\E p \in DOMAIN flows : flows[p].id = i /\ Terminal(flows[p].tcp_state))
            ~> (i \in DOMAIN stored /\ stored[i].state = "Closed" /\ stored[i].sealed)

\* A flow has one identity and one open record, from its first packet to the store.
FlowIdentity == FlowIdsAreFresh /\ OneOpenRecord

\* What a record holds reaches the store once: nothing twice, nothing forgotten.
DeliveredOnce == EventsDeliveredOnce /\ CleanMeansStored

\* An end is an end, in the table and in the store.
EndIsFinal == EndedTakesNoMore /\ SealedIsFinal

\* Sessions are sound: their flows are stored, each flow is in one of them.
SessionsAreSound == SessionFlowsStored /\ OneSessionPerFlow
=============================================================================
