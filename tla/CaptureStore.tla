---------------------------- MODULE CaptureStore ----------------------------
(***************************************************************************)
(* The capture store (netpulse-storage/src/capture_store.rs): the bounded  *)
(* in-memory record of flows, sessions, events and findings, the database  *)
(* its mirror keeps of them (repository.rs), and the captures and restarts *)
(* that fill and reload it.                                                *)
(*                                                                         *)
(* Abstractions:                                                           *)
(*  - the mirror is what WriteBehind promises of it: a record given to it  *)
(*    is in the database when the process ends cleanly;                    *)
(*  - a flow is known by the capture whose conversation it is (its key),   *)
(*    the capture whose numbers it has (its metrics) and its two times;    *)
(*  - of a flow's events it is kept whether there are any, and the flows   *)
(*    whose commits bring some are fixed: those of Eventful;               *)
(*  - hosts and resolutions are left out;                                  *)
(*  - a commit brings one flow and the session it joined, with the lock    *)
(*    held to its end: several flows are several commits.                  *)
(***************************************************************************)
EXTENDS Naturals, Sequences, FiniteSets, Functions

CONSTANTS
    max_flows,     \* StorageConfig::max_flows
    max_sessions,  \* StorageConfig::max_sessions
    MaxCaptures,   \* bound: captures started
    MaxFlowIds,    \* bound: flows of one capture
    MaxSessionIds, \* bound: sessions of one capture
    MaxClock,      \* bound: the capture clock, in ticks
    MaxRefs,       \* bound: evidence references of a finding
    Eventful       \* the flow ids whose commits bring events

ASSUME StoreAssumption ==
    /\ {max_flows, max_sessions} \subseteq Nat \ {0}
    /\ {MaxCaptures, MaxFlowIds, MaxSessionIds, MaxClock, MaxRefs} \subseteq Nat
    /\ Eventful \subseteq 1 .. MaxFlowIds

VARIABLES
    mem,        \* CaptureStore: its flows, sessions, events_by_flow (the ids
                \* with an entry), findings and latest_mono_cache
    db,         \* the database: flows, sessions, proto_events (the ids with a
                \* row), findings and the session_id column of flows, 0 for NULL
    capture,    \* number of the last capture started, 0 before the first
    running,    \* its pipeline commits
    clock,      \* its time: since its first frame
    engine      \* engine[id]: first time and session of its flows, 0 for none

vars == <<mem, db, capture, running, clock, engine>>

Ids        == 1 .. MaxFlowIds
FindingIds == {1}
SessionIds == 1 .. MaxSessionIds
\* EvidenceRef.
Refs       == ({"flow"} \X Ids) \union ({"session"} \X SessionIds)
Empty      == [id \in {} |-> 0]

Put(f, k, v) == [x \in DOMAIN f \union {k} |-> IF x = k THEN v ELSE f[x]]
Larger(a, b) == IF a < b THEN b ELSE a

EmptyStore == [flows |-> Empty, sessions |-> Empty, events |-> {}, findings |-> Empty,
               latest |-> 0]
EmptyDatabase == [flows |-> Empty, sessions |-> Empty, events |-> {}, findings |-> Empty,
                  session_of |-> Empty]

Init ==
    /\ mem = EmptyStore
    /\ db = EmptyDatabase
    /\ capture = 0 /\ running = FALSE /\ clock = 0 /\ engine = <<>>

-----------------------------------------------------------------------------
(* Operations on what is in memory.                                        *)

\* recompute_latest_mono.
\* Mutant: only the first times count.
NewestFirst(fl) ==
    CHOOSE t \in {0} \union {fl[i].first : i \in DOMAIN fl} :
        \A i \in DOMAIN fl : fl[i].first <= t
NewestOf(fl) ==
    CHOOSE t \in {0} \union {fl[i].last : i \in DOMAIN fl} \union {fl[i].first : i \in DOMAIN fl} :
        \A i \in DOMAIN fl : fl[i].last <= t /\ fl[i].first <= t

\* Eviction takes the entries that come first by time, then by id.
\* Mutant: the last come first.
Later(f, a, b)   == f[a].first > f[b].first \/ (f[a].first = f[b].first /\ a > b)
Earlier(f, a, b) == f[a].first < f[b].first \/ (f[a].first = f[b].first /\ a < b)
Oldest(f, n) == {a \in DOMAIN f : Cardinality({b \in DOMAIN f : Earlier(f, b, a)}) < n}

Over(n, limit)      == n > limit
Watermark(limit)    == (4 * limit) \div 5   \* watermark_ratio is 0.8

Surplus(f, limit) ==
    IF Over(Cardinality(DOMAIN f), limit)
    THEN Oldest(f, Cardinality(DOMAIN f) - Watermark(limit))
    ELSE {}

\* Mutant: a finding is not told that its evidence has gone.
NotTold(finding, gone) == finding
Told(finding, gone) ==
    [finding EXCEPT !.evidence_expired = @ \/ finding.refs \intersect gone # {}]

EventsLeft(ev, gone) == ev \ gone

\* auto_evict_if_needed.
AutoEvict(m) ==
    LET flows_gone    == Surplus(m.flows, max_flows)
        sessions_gone == Surplus(m.sessions, max_sessions)
        gone == ({"flow"} \X flows_gone) \union ({"session"} \X sessions_gone)
        kept == Restrict(m.flows, DOMAIN m.flows \ flows_gone)
        removed_newest == \E i \in flows_gone : m.latest \in {m.flows[i].last, m.flows[i].first}
    IN  [flows    |-> kept,
         sessions |-> Restrict(m.sessions, DOMAIN m.sessions \ sessions_gone),
         events   |-> EventsLeft(m.events, flows_gone),
         findings |-> [n \in DOMAIN m.findings |-> Told(m.findings[n], gone)],
         latest   |-> IF removed_newest THEN NewestOf(kept) ELSE m.latest]

InsertFlow(m, i, flow) ==
    AutoEvict([m EXCEPT !.flows  = Put(@, i, flow),
                        !.events = @ \union ({i} \intersect Eventful),
                        !.latest = Larger(@, Larger(flow.last, flow.first))])

InsertSession(m, s, session) == [m EXCEPT !.sessions = Put(@, s, session)]

-----------------------------------------------------------------------------
(* Operations on the database.                                             *)

\* The upsert leaves a row's key and first time as they are.
DbInsertFlow(d, i, flow) ==
    LET row == IF i \in DOMAIN d.flows
               THEN [d.flows[i] EXCEPT !.metrics = flow.metrics, !.last = flow.last]
               ELSE flow
    IN  [d EXCEPT !.flows      = Put(@, i, row),
                  !.events     = @ \union ({i} \intersect Eventful),
                  !.session_of = IF i \in DOMAIN @ THEN @ ELSE Put(@, i, 0)]

\* Every flow a session names has a row to link.
\* Mutant: a row that is already linked does not count.
LinksFresh(d, flow_ids) == \A i \in flow_ids : i \in DOMAIN d.flows /\ d.session_of[i] = 0
LinksAll(d, flow_ids)   == flow_ids \subseteq DOMAIN d.flows

\* A session with a link that cannot be made is rolled back.
DbInsertSession(d, s, session) ==
    IF LinksAll(d, session.flow_ids)
    THEN [d EXCEPT !.sessions   = Put(@, s, session.first),
                   !.session_of = [i \in DOMAIN @ |-> IF i \in session.flow_ids THEN s ELSE @[i]]]
    ELSE d

\* read_repository_snapshot; a session's flows are the rows that name it.
Snapshot(d) ==
    [flows    |-> d.flows,
     sessions |-> [s \in DOMAIN d.sessions |->
                      [first    |-> d.sessions[s],
                       flow_ids |-> {i \in DOMAIN d.flows : d.session_of[i] = s}]],
     events   |-> d.events,
     findings |-> d.findings,
     latest   |-> NewestOf(d.flows)]

-----------------------------------------------------------------------------
(* Actions.                                                                *)

\* A new capture: a new engine, its ids from 1 and its time from 0.
CaptureStarts ==
    /\ capture < MaxCaptures
    /\ capture' = capture + 1
    /\ running' = TRUE
    /\ clock' = 0
    /\ engine' = <<>>
    /\ UNCHANGED <<mem, db>>

Tick ==
    /\ running
    /\ clock < MaxClock
    /\ clock' = clock + 1
    /\ UNCHANGED <<mem, db, capture, running, engine>>

\* The session of the engine's flows that is numbered s.
SessionOf(en, s) ==
    LET flow_ids == {i \in DOMAIN en : en[i].session = s}
    IN  [first    |-> CHOOSE t \in {en[i].first : i \in flow_ids} :
                          \A i \in flow_ids : t <= en[i].first,
         flow_ids |-> flow_ids]

\* Mutant: the time of the tick to come.
NextTick == clock + 1
LastSeen == clock

\* commit_to_store: the snapshot of flow i as it is now, its session if it has
\* just joined one, and the eviction that ends the commit.
CommitFlow(i, en, joined) ==
    LET flow == [key |-> capture, metrics |-> capture, first |-> en[i].first, last |-> LastSeen]
        m    == InsertFlow(mem, i, flow)
        d    == DbInsertFlow(db, i, flow)
        s    == en[i].session
    IN  /\ mem' = AutoEvict(IF joined THEN InsertSession(m, s, SessionOf(en, s)) ELSE m)
        /\ db'  = IF joined THEN DbInsertSession(d, s, SessionOf(en, s)) ELSE d
        /\ engine' = en
        /\ UNCHANGED <<capture, running, clock>>

\* A flow is seen for the first time; sessions are numbered as they appear.
CommitNew(s) ==
    /\ running
    /\ Len(engine) < MaxFlowIds
    /\ s > 1 => \E i \in DOMAIN engine : engine[i].session = s - 1
    /\ CommitFlow(Len(engine) + 1, Append(engine, [first |-> clock, session |-> s]),
                  s # 0)

CommitAgain(i) ==
    /\ running
    /\ i \in DOMAIN engine
    /\ CommitFlow(i, engine, FALSE)

Present(m, ref) ==
    \/ ref[1] = "flow" /\ ref[2] \in DOMAIN m.flows
    \/ ref[1] = "session" /\ ref[2] \in DOMAIN m.sessions

\* insert_finding; the database keeps evidence_expired as 0.
AddFinding(n, refs) ==
    /\ Cardinality(refs) <= MaxRefs
    /\ \A ref \in refs : Present(mem, ref)
    /\ LET finding == [refs |-> refs, evidence_expired |-> FALSE]
       IN  /\ mem' = [mem EXCEPT !.findings = Put(@, n, finding)]
           /\ db'  = [db EXCEPT !.findings = Put(@, n, finding)]
    /\ UNCHANGED <<capture, running, clock, engine>>

\* The process ends cleanly and for_desktop hydrates the next one.
Restart ==
    /\ mem' = Snapshot(db)
    /\ running' = FALSE
    /\ clock' = 0
    /\ engine' = <<>>
    /\ UNCHANGED <<db, capture>>

Next ==
    \/ CaptureStarts
    \/ Tick
    \/ \E s \in {0} \union SessionIds : CommitNew(s)
    \/ \E i \in Ids : CommitAgain(i)
    \/ \E n \in FindingIds, refs \in SUBSET Refs : AddFinding(n, refs)
    \/ Restart

Spec == Init /\ [][Next]_vars

-----------------------------------------------------------------------------
(* Properties.                                                             *)

FlowType == [key : 1 .. MaxCaptures, metrics : 1 .. MaxCaptures,
             first : 0 .. MaxClock, last : 0 .. MaxClock]
SessionType == [first : 0 .. MaxClock, flow_ids : SUBSET Ids]
FindingType == [refs : SUBSET Refs, evidence_expired : BOOLEAN]

\* f is a function from some of the keys to values of a type.
Table(f, keys, type) == DOMAIN f \subseteq keys /\ \A k \in DOMAIN f : f[k] \in type

\* Types.
TypeOK ==
    /\ Table(mem.flows, Ids, FlowType) /\ Table(db.flows, Ids, FlowType)
    /\ Table(mem.sessions, SessionIds, SessionType) /\ Table(db.sessions, SessionIds, 0 .. MaxClock)
    /\ mem.events \subseteq Ids /\ db.events \subseteq Ids
    /\ Table(mem.findings, FindingIds, FindingType) /\ Table(db.findings, FindingIds, FindingType)
    /\ Table(db.session_of, Ids, 0 .. MaxSessionIds)
    /\ mem.latest \in 0 .. MaxClock
    /\ capture \in 0 .. MaxCaptures /\ running \in BOOLEAN /\ clock \in 0 .. MaxClock
    /\ engine \in Seq([first : 0 .. MaxClock, session : 0 .. MaxSessionIds])

\* The UI shows a dead link for no finding: one that is not marked expired has
\* all its evidence in memory, through evictions, overwritten ids and restarts.
EvidenceResolves ==
    \A n \in DOMAIN mem.findings :
        ~mem.findings[n].evidence_expired =>
            \A ref \in mem.findings[n].refs : Present(mem, ref)

\* latest_mono_nanos is O(1) and never behind: no retained flow is later than
\* the cached time, whatever was evicted, overwritten or restored.
LatestIsUpperBound ==
    \A i \in DOMAIN mem.flows :
        mem.flows[i].first <= mem.latest /\ mem.flows[i].last <= mem.latest

\* Eviction leaves nothing behind: events are kept of retained flows only.
NoOrphanEvents == mem.events \subseteq DOMAIN mem.flows

\* apply_snapshot never refuses the database: every session that was ever
\* mirrored, and every link, has its rows, so a restart restores all of them.
HydrationIsWhole ==
    /\ DOMAIN db.session_of = DOMAIN db.flows
    /\ \A i \in DOMAIN db.flows :
          db.session_of[i] # 0 => db.session_of[i] \in DOMAIN db.sessions
    /\ DOMAIN mem.flows \subseteq DOMAIN db.flows
    /\ DOMAIN mem.sessions \subseteq DOMAIN db.sessions

\* A commit never leaves more in memory than the limits, also when a restart
\* has restored a history that is larger.
RetentionBound ==
    [][running' /\ <<mem.flows, mem.sessions>>' # <<mem.flows, mem.sessions>>
          => /\ Cardinality(DOMAIN mem'.flows) <= max_flows
             /\ Cardinality(DOMAIN mem'.sessions) <= max_sessions]_vars

\* The first time of a flow that was in memory, or that the commit brings.
FirstTime(i) == IF i \in DOMAIN engine' THEN engine'[i].first ELSE mem.flows[i].first

\* A commit loses a flow, retained or just brought, only to four fifths of the limit
\* that come after it by the times of their own captures and then by number, also
\* when they are of different captures or restored by a restart.  The flow just
\* brought may be the one: the times of a new capture begin again.
LosesEarliest ==
    [][running' =>
          \A i \in (DOMAIN mem.flows \union (DOMAIN engine' \ DOMAIN engine)) \ DOMAIN mem'.flows :
              /\ Cardinality(DOMAIN mem'.flows) >= Watermark(max_flows)
              /\ \A j \in DOMAIN mem'.flows :
                    \/ FirstTime(i) < mem'.flows[j].first
                    \/ FirstTime(i) = mem'.flows[j].first /\ i < j]_vars

\* Eviction leaves the store consistent: no flow is hidden from the queries by the
\* cached time, no event outlives its flow.
EvictionIsClean == LatestIsUpperBound /\ NoOrphanEvents

\* Retention keeps the limits, and what it loses is the earliest by the clock.
RetentionIsFair == RetentionBound /\ LosesEarliest
=============================================================================
