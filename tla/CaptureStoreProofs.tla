-------------------------- MODULE CaptureStoreProofs --------------------------
(***************************************************************************)
(* What holds of the store for any limits, any number of captures and any  *)
(* refs.                                                                   *)
(*                                                                         *)
(* First what rests on what: the database can always be read back whole, a *)
(* finding that is not marked expired has its evidence, and no events      *)
(* outlive their flow.  StoreInv adds that the engine's flows have rows    *)
(* and that the database keeps the evidence of every finding it has.       *)
(*                                                                         *)
(* Then what is retained: types, the cached time, the limits, and which    *)
(* flows a commit loses.  Eviction asks how many entries are before one, so*)
(* the lemmas between rank the entries of a table: a least and a greatest  *)
(* element come from the well-foundedness of < on the naturals.            *)
(* RetentionInv adds that memory and engine agree on the first time of a   *)
(* flow that both have.                                                    *)
(***************************************************************************)
EXTENDS CaptureStore, TLAPS, FiniteSetTheorems

Findings(f) == \A n \in DOMAIN f : f[n] \in FindingType
IsStore(m) ==
    /\ m \in [flows : {m.flows}, sessions : {m.sessions}, events : {m.events},
              findings : {m.findings}, latest : {m.latest}]
    /\ Findings(m.findings)
IsDatabase(d) ==
    /\ d \in [flows : {d.flows}, sessions : {d.sessions}, events : {d.events},
              findings : {d.findings}, session_of : {d.session_of}]
    /\ Findings(d.findings)

\* What the properties say of the memory, as a predicate of its record.
Sound(m) ==
    /\ \A n \in DOMAIN m.findings :
          ~m.findings[n].evidence_expired =>
              \A ref \in m.findings[n].refs : Present(m, ref)
    /\ m.events \subseteq DOMAIN m.flows

\* And of the database: every link has its rows, and so has what has events or is the
\* evidence of a finding; no finding there is expired.
Linked(d) ==
    /\ DOMAIN d.session_of = DOMAIN d.flows
    /\ \A i \in DOMAIN d.flows :
          d.session_of[i] # 0 => d.session_of[i] \in DOMAIN d.sessions
Kept(d) ==
    /\ \A n \in DOMAIN d.findings :
          \A ref \in d.findings[n].refs : Present(d, ref)
    /\ d.events \subseteq DOMAIN d.flows

Within(m, d) ==
    /\ DOMAIN m.flows \subseteq DOMAIN d.flows
    /\ DOMAIN m.sessions \subseteq DOMAIN d.sessions

EngineType ==
    /\ clock \in 0 .. MaxClock
    /\ engine \in Seq([first : 0 .. MaxClock, session : 0 .. MaxSessionIds])

StoreInv ==
    /\ IsStore(mem) /\ IsDatabase(db) /\ EngineType
    /\ Sound(mem) /\ Linked(db) /\ Kept(db) /\ Within(mem, db)
    /\ DOMAIN engine \subseteq DOMAIN db.flows

\* Put adds one key.
LEMMA PutDomain ==
    ASSUME NEW f, NEW k, NEW v
    PROVE  /\ DOMAIN Put(f, k, v) = DOMAIN f \cup {k}
           /\ Put(f, k, v)[k] = v
           /\ \A x \in DOMAIN f : x # k => Put(f, k, v)[x] = f[x]
  BY DEF Put

\* Eviction: what is dropped is dropped from every table, and the findings that rested
\* on it are told.
LEMMA EvictionKeeps ==
    ASSUME NEW m, IsStore(m), Sound(m)
    PROVE  /\ IsStore(AutoEvict(m)) /\ Sound(AutoEvict(m))
           /\ DOMAIN AutoEvict(m).flows \subseteq DOMAIN m.flows
           /\ DOMAIN AutoEvict(m).sessions \subseteq DOMAIN m.sessions
  <1> DEFINE fg == Surplus(m.flows, max_flows)
             sg == Surplus(m.sessions, max_sessions)
             gone == ({"flow"} \X fg) \cup ({"session"} \X sg)
             e == AutoEvict(m)
  <1>1. /\ e.flows = Restrict(m.flows, DOMAIN m.flows \ fg)
        /\ e.sessions = Restrict(m.sessions, DOMAIN m.sessions \ sg)
        /\ e.events = m.events \ fg
        /\ e.findings = [n \in DOMAIN m.findings |-> Told(m.findings[n], gone)]
        /\ e = [flows |-> e.flows, sessions |-> e.sessions, events |-> e.events,
                findings |-> e.findings, latest |-> e.latest]
    BY DEF AutoEvict, EventsLeft
  <1>2. /\ DOMAIN e.flows = DOMAIN m.flows \ fg
        /\ DOMAIN e.sessions = DOMAIN m.sessions \ sg
    BY <1>1 DEF Restrict
  <1>3. ASSUME NEW n \in DOMAIN m.findings
        PROVE  /\ e.findings[n] \in FindingType
               /\ e.findings[n].refs = m.findings[n].refs
               /\ ~e.findings[n].evidence_expired =>
                     /\ ~m.findings[n].evidence_expired
                     /\ m.findings[n].refs \cap gone = {}
    <2>1. m.findings[n] \in FindingType
      BY DEF IsStore, Findings
    <2>2. e.findings[n] = [m.findings[n] EXCEPT !.evidence_expired =
                              m.findings[n].evidence_expired \/ m.findings[n].refs \cap gone # {}]
      BY <1>1 DEF Told
    <2>3. (m.findings[n].evidence_expired \/ m.findings[n].refs \cap gone # {}) \in BOOLEAN
      BY <2>1 DEF FindingType
    <2> HIDE DEF gone, e
    <2> QED BY <2>1, <2>2, <2>3 DEF FindingType
  <1>4. IsStore(e)
    BY <1>1, <1>3 DEF IsStore, Findings
  <1>5. ASSUME NEW n \in DOMAIN m.findings, ~e.findings[n].evidence_expired,
               NEW ref \in m.findings[n].refs
        PROVE  Present(e, ref)
    <2>1. Present(m, ref) /\ ref \notin gone
      BY <1>3, <1>5 DEF Sound
    <2>2. ref \in Refs
      BY DEF IsStore, Findings, FindingType
    <2>3. ref[1] = "flow" => ref[2] \notin fg
      BY <2>1, <2>2 DEF Refs
    <2>4. ref[1] = "session" => ref[2] \notin sg
      BY <2>1, <2>2 DEF Refs
    <2> QED BY <1>2, <2>1, <2>3, <2>4 DEF Present
  <1>6. Sound(e)
    <2>1. DOMAIN e.findings = DOMAIN m.findings /\ e.events \subseteq DOMAIN e.flows
      BY <1>1, <1>2 DEF Sound
    <2> HIDE DEF e
    <2> QED BY <1>3, <1>5, <2>1 DEF Sound
  <1> QED BY <1>2, <1>4, <1>6

\* The memory with flow i as it is now, before anything is evicted.
WithFlow(m, i, flow) ==
    [flows |-> Put(m.flows, i, flow), sessions |-> m.sessions,
     events |-> m.events \cup ({i} \cap Eventful), findings |-> m.findings,
     latest |-> Larger(m.latest, Larger(flow.last, flow.first))]

\* insert_flow is an eviction of the store with the flow in it.
LEMMA InsertFlowEvicts ==
    ASSUME NEW m, IsStore(m), NEW i, NEW flow
    PROVE  InsertFlow(m, i, flow) = AutoEvict(WithFlow(m, i, flow))
  <1> DEFINE a == Put(m.flows, i, flow)
             b == m.events \cup ({i} \cap Eventful)
             c == Larger(m.latest, Larger(flow.last, flow.first))
             x == [m EXCEPT !.flows = a, !.events = b, !.latest = c]
  <1>1. x \in [flows : {a}, sessions : {m.sessions}, events : {b},
               findings : {m.findings}, latest : {c}]
    <2> HIDE DEF a, b, c
    <2> QED BY DEF IsStore
  <1>2. x = WithFlow(m, i, flow)
    <2> HIDE DEF a, b, c, x
    <2>1. x = [flows |-> a, sessions |-> m.sessions, events |-> b,
               findings |-> m.findings, latest |-> c]
      BY <1>1
    <2> QED BY <2>1 DEF WithFlow, a, b, c
  <1> QED BY <1>2 DEF InsertFlow

\* insert_flow keeps the memory sound, and within a database that has the flow.
LEMMA InsertFlowKeeps ==
    ASSUME NEW m, IsStore(m), Sound(m), NEW i, NEW flow
    PROVE  /\ IsStore(InsertFlow(m, i, flow)) /\ Sound(InsertFlow(m, i, flow))
           /\ DOMAIN InsertFlow(m, i, flow).flows \subseteq DOMAIN m.flows \cup {i}
           /\ DOMAIN InsertFlow(m, i, flow).sessions \subseteq DOMAIN m.sessions
  <1> DEFINE n == WithFlow(m, i, flow)
  <1>1. InsertFlow(m, i, flow) = AutoEvict(n)
    BY InsertFlowEvicts
  <1>2. /\ DOMAIN n.flows = DOMAIN m.flows \cup {i} /\ n.sessions = m.sessions
        /\ n.findings = m.findings /\ n.events \subseteq m.events \cup {i}
        /\ n \in [flows : {n.flows}, sessions : {n.sessions}, events : {n.events},
                  findings : {n.findings}, latest : {n.latest}]
    BY PutDomain DEF WithFlow
  <1> HIDE DEF n
  <1>3. IsStore(n)
    BY <1>2 DEF IsStore
  <1>4. Sound(n)
    BY <1>2 DEF Sound, Present
  <1>5. /\ IsStore(AutoEvict(n)) /\ Sound(AutoEvict(n))
        /\ DOMAIN AutoEvict(n).flows \subseteq DOMAIN n.flows
        /\ DOMAIN AutoEvict(n).sessions \subseteq DOMAIN n.sessions
    BY <1>3, <1>4, EvictionKeeps
  <1> QED BY <1>1, <1>2, <1>5

\* So does insert_session.
LEMMA InsertSessionKeeps ==
    ASSUME NEW m, IsStore(m), Sound(m), NEW s, NEW session
    PROVE  /\ IsStore(InsertSession(m, s, session)) /\ Sound(InsertSession(m, s, session))
           /\ DOMAIN InsertSession(m, s, session).flows = DOMAIN m.flows
           /\ DOMAIN InsertSession(m, s, session).sessions = DOMAIN m.sessions \cup {s}
  <1> DEFINE a == Put(m.sessions, s, session)
             n == [m EXCEPT !.sessions = a]
  <1>1. DOMAIN a = DOMAIN m.sessions \cup {s}
    BY PutDomain
  <1>2. n \in [flows : {m.flows}, sessions : {a}, events : {m.events},
               findings : {m.findings}, latest : {m.latest}]
    <2> HIDE DEF a
    <2> QED BY DEF IsStore
  <1>3. InsertSession(m, s, session) = n
    BY DEF InsertSession
  <1> HIDE DEF a, n
  <1>4. IsStore(n) /\ Sound(n)
    BY <1>1, <1>2 DEF IsStore, Sound, Present
  <1> QED BY <1>1, <1>2, <1>3, <1>4

\* An upsert adds its row, and leaves every link and every other row.
LEMMA RowKeeps ==
    ASSUME NEW d, IsDatabase(d), Linked(d), Kept(d), NEW i, NEW flow
    PROVE  /\ IsDatabase(DbInsertFlow(d, i, flow)) /\ Linked(DbInsertFlow(d, i, flow))
           /\ Kept(DbInsertFlow(d, i, flow))
           /\ DOMAIN DbInsertFlow(d, i, flow).flows = DOMAIN d.flows \cup {i}
           /\ DbInsertFlow(d, i, flow).sessions = d.sessions
  <1> DEFINE row == IF i \in DOMAIN d.flows
                    THEN [d.flows[i] EXCEPT !.metrics = flow.metrics, !.last = flow.last]
                    ELSE flow
             a == Put(d.flows, i, row)
             b == d.events \cup ({i} \cap Eventful)
             c == IF i \in DOMAIN d.session_of THEN d.session_of ELSE Put(d.session_of, i, 0)
             n == [d EXCEPT !.flows = a, !.events = b, !.session_of = c]
  <1>1. DOMAIN a = DOMAIN d.flows \cup {i}
    BY PutDomain
  <1>2. /\ DOMAIN c = DOMAIN d.session_of \cup {i}
        /\ \A x \in DOMAIN c : c[x] = 0 \/ (x \in DOMAIN d.session_of /\ c[x] = d.session_of[x])
    <2> DEFINE p == Put(d.session_of, i, 0)
    <2>1. /\ DOMAIN p = DOMAIN d.session_of \cup {i} /\ p[i] = 0
          /\ \A x \in DOMAIN d.session_of : x # i => p[x] = d.session_of[x]
      BY PutDomain
    <2>2. c = IF i \in DOMAIN d.session_of THEN d.session_of ELSE p
      OBVIOUS
    <2> HIDE DEF c, p
    <2> QED BY <2>1, <2>2
  <1>3. n \in [flows : {a}, sessions : {d.sessions}, events : {b},
               findings : {d.findings}, session_of : {c}]
    <2> HIDE DEF a, b, c
    <2> QED BY DEF IsDatabase
  <1>4. DbInsertFlow(d, i, flow) = n
    BY DEF DbInsertFlow
  <1>5. b \subseteq d.events \cup {i}
    OBVIOUS
  <1> HIDE DEF a, b, c, n
  <1>6. IsDatabase(n)
    BY <1>3 DEF IsDatabase
  <1>7. Linked(n)
    BY <1>1, <1>2, <1>3 DEF Linked
  <1>8. Kept(n)
    BY <1>1, <1>3, <1>5 DEF Kept, Present
  <1> QED BY <1>1, <1>3, <1>4, <1>6, <1>7, <1>8

\* A session whose flows have rows is written whole.
LEMMA LinkKeeps ==
    ASSUME NEW d, IsDatabase(d), Linked(d), Kept(d), NEW s, NEW session,
           session.flow_ids \subseteq DOMAIN d.flows
    PROVE  /\ IsDatabase(DbInsertSession(d, s, session)) /\ Linked(DbInsertSession(d, s, session))
           /\ Kept(DbInsertSession(d, s, session))
           /\ DbInsertSession(d, s, session).flows = d.flows
           /\ DOMAIN DbInsertSession(d, s, session).sessions = DOMAIN d.sessions \cup {s}
  <1> DEFINE a == Put(d.sessions, s, session.first)
             c == [i \in DOMAIN d.session_of |->
                      IF i \in session.flow_ids THEN s ELSE d.session_of[i]]
             n == [d EXCEPT !.sessions = a, !.session_of = c]
  <1>1. DOMAIN a = DOMAIN d.sessions \cup {s}
    BY PutDomain
  <1>2. /\ DOMAIN c = DOMAIN d.session_of
        /\ \A x \in DOMAIN c : c[x] = s \/ c[x] = d.session_of[x]
    OBVIOUS
  <1>3. n \in [flows : {d.flows}, sessions : {a}, events : {d.events},
               findings : {d.findings}, session_of : {c}]
    <2> HIDE DEF a, c
    <2> QED BY DEF IsDatabase
  <1>4. DbInsertSession(d, s, session) = n
    BY DEF DbInsertSession, LinksAll
  <1> HIDE DEF a, c, n
  <1>5. IsDatabase(n)
    BY <1>3 DEF IsDatabase
  <1>6. Linked(n)
    BY <1>1, <1>2, <1>3 DEF Linked
  <1>7. Kept(n)
    BY <1>1, <1>3 DEF Kept, Present
  <1> QED BY <1>1, <1>3, <1>4, <1>5, <1>6, <1>7

\* Memory and database start empty.
LEMMA StoreStarts == ASSUME Init PROVE StoreInv
  <1> USE StoreAssumption DEF Init, EmptyStore, EmptyDatabase, Empty
  <1>1. IsStore(mem) /\ IsDatabase(db)
    BY DEF IsStore, IsDatabase, Findings
  <1>2. EngineType /\ DOMAIN engine \subseteq DOMAIN db.flows
    BY DEF EngineType
  <1>3. Sound(mem) /\ Linked(db) /\ Kept(db) /\ Within(mem, db)
    BY DEF Sound, Linked, Kept, Within
  <1> QED BY <1>1, <1>2, <1>3 DEF StoreInv

\* A commit: the flow, its session, the evictions, and the rows of both.
LEMMA CommitKeeps ==
    ASSUME StoreInv, NEW i, NEW en, NEW joined \in BOOLEAN, CommitFlow(i, en, joined),
           en \in Seq([first : 0 .. MaxClock, session : 0 .. MaxSessionIds]),
           DOMAIN en \subseteq DOMAIN engine \cup {i}
    PROVE  StoreInv'
  <1> DEFINE flow == [key |-> capture, metrics |-> capture, first |-> en[i].first,
                      last |-> LastSeen]
             m == InsertFlow(mem, i, flow)
             d == DbInsertFlow(db, i, flow)
             s == en[i].session
             session == SessionOf(en, s)
             m2 == IF joined THEN InsertSession(m, s, session) ELSE m
             d2 == IF joined THEN DbInsertSession(d, s, session) ELSE d
  <1>1. mem' = AutoEvict(m2) /\ db' = d2 /\ engine' = en /\ UNCHANGED clock
    BY DEF CommitFlow
  <1>2. session.flow_ids \subseteq DOMAIN en
    BY DEF SessionOf
  <1> HIDE DEF flow, session, s
  <1>3. /\ IsStore(m) /\ Sound(m)
        /\ DOMAIN m.flows \subseteq DOMAIN mem.flows \cup {i}
        /\ DOMAIN m.sessions \subseteq DOMAIN mem.sessions
    BY InsertFlowKeeps DEF StoreInv
  <1>4. /\ IsDatabase(d) /\ Linked(d) /\ Kept(d)
        /\ DOMAIN d.flows = DOMAIN db.flows \cup {i} /\ d.sessions = db.sessions
    BY RowKeeps DEF StoreInv
  <1> HIDE DEF m, d
  <1>5. /\ IsStore(m2) /\ Sound(m2)
        /\ DOMAIN m2.flows = DOMAIN m.flows
        /\ DOMAIN m2.sessions = IF joined THEN DOMAIN m.sessions \cup {s} ELSE DOMAIN m.sessions
    <2>1. CASE joined
      <3>1. m2 = InsertSession(m, s, session)
        BY <2>1
      <3> HIDE DEF m2
      <3> QED BY <1>3, <2>1, <3>1, InsertSessionKeeps
    <2>2. CASE ~joined
      <3>1. m2 = m
        BY <2>2
      <3> HIDE DEF m2
      <3> QED BY <1>3, <2>2, <3>1
    <2> QED BY <2>1, <2>2
  <1>6. session.flow_ids \subseteq DOMAIN d.flows
    BY <1>2, <1>4 DEF StoreInv
  <1>7. /\ IsDatabase(d2) /\ Linked(d2) /\ Kept(d2)
        /\ DOMAIN d2.flows = DOMAIN d.flows
        /\ DOMAIN d2.sessions = IF joined THEN DOMAIN d.sessions \cup {s} ELSE DOMAIN d.sessions
    <2>1. CASE joined
      <3>1. d2 = DbInsertSession(d, s, session)
        BY <2>1
      <3> HIDE DEF d2
      <3> QED BY <1>4, <1>6, <2>1, <3>1, LinkKeeps
    <2>2. CASE ~joined
      <3>1. d2 = d
        BY <2>2
      <3> HIDE DEF d2
      <3> QED BY <1>4, <2>2, <3>1
    <2> QED BY <2>1, <2>2
  <1> HIDE DEF m2, d2
  <1>8. /\ IsStore(mem') /\ Sound(mem')
        /\ DOMAIN mem'.flows \subseteq DOMAIN m2.flows
        /\ DOMAIN mem'.sessions \subseteq DOMAIN m2.sessions
    BY <1>1, <1>5, EvictionKeeps
  <1>9. Within(mem', db') /\ DOMAIN engine' \subseteq DOMAIN db'.flows
    BY <1>1, <1>3, <1>4, <1>5, <1>7, <1>8 DEF StoreInv, Within
  <1>10. EngineType'
    BY <1>1 DEF StoreInv, EngineType
  <1> QED BY <1>1, <1>7, <1>8, <1>9, <1>10 DEF StoreInv

\* A finding is stored with its evidence, in memory and in the database.
LEMMA FindingKeeps ==
    ASSUME StoreInv, NEW n \in FindingIds, NEW refs \in SUBSET Refs, AddFinding(n, refs)
    PROVE  StoreInv'
  <1> DEFINE finding == [refs |-> refs, evidence_expired |-> FALSE]
             a == Put(mem.findings, n, finding)
             b == Put(db.findings, n, finding)
             m == [mem EXCEPT !.findings = a]
             d == [db EXCEPT !.findings = b]
  <1>1. /\ mem' = m /\ db' = d /\ UNCHANGED <<engine, clock>>
        /\ \A ref \in refs : Present(mem, ref)
    BY DEF AddFinding
  <1>2. finding \in FindingType /\ finding.refs = refs
    BY DEF FindingType
  <1> HIDE DEF finding
  <1>3. /\ DOMAIN a = DOMAIN mem.findings \cup {n} /\ a[n] = finding
        /\ \A x \in DOMAIN mem.findings : x # n => a[x] = mem.findings[x]
    BY DEF Put
  <1>4. /\ DOMAIN b = DOMAIN db.findings \cup {n} /\ b[n] = finding
        /\ \A x \in DOMAIN db.findings : x # n => b[x] = db.findings[x]
    BY DEF Put
  <1>5. m \in [flows : {mem.flows}, sessions : {mem.sessions}, events : {mem.events},
               findings : {a}, latest : {mem.latest}]
    <2> HIDE DEF a
    <2> QED BY DEF StoreInv, IsStore
  <1>6. d \in [flows : {db.flows}, sessions : {db.sessions}, events : {db.events},
               findings : {b}, session_of : {db.session_of}]
    <2> HIDE DEF b
    <2> QED BY DEF StoreInv, IsDatabase
  <1> HIDE DEF a, b, m, d
  <1>7. Findings(a) /\ Findings(b)
    BY <1>2, <1>3, <1>4 DEF StoreInv, IsStore, IsDatabase, Findings
  <1>8. IsStore(m) /\ IsDatabase(d)
    BY <1>5, <1>6, <1>7 DEF IsStore, IsDatabase
  <1>9. Sound(m)
    BY <1>1, <1>2, <1>3, <1>5 DEF StoreInv, Sound, Present
  <1>10. Linked(d)
    BY <1>6 DEF StoreInv, Linked
  <1>11. \A ref \in refs : Present(db, ref)
    BY <1>1 DEF StoreInv, Within, Present
  <1>12. Kept(d)
    BY <1>2, <1>4, <1>6, <1>11 DEF StoreInv, Kept, Present
  <1>13. Within(m, d) /\ DOMAIN engine \subseteq DOMAIN d.flows
    BY <1>5, <1>6 DEF StoreInv, Within
  <1> QED BY <1>1, <1>8, <1>9, <1>10, <1>12, <1>13 DEF StoreInv, EngineType

\* A restart: what the database keeps is all the memory needs.
LEMMA RestartKeeps == ASSUME StoreInv, Restart PROVE StoreInv'
  <1> DEFINE m == Snapshot(db)
  <1>1. /\ mem' = m /\ db' = db /\ clock' = 0 /\ engine' = <<>>
    BY DEF Restart
  <1>2. /\ m.flows = db.flows /\ m.events = db.events /\ m.findings = db.findings
        /\ DOMAIN m.sessions = DOMAIN db.sessions
        /\ m \in [flows : {m.flows}, sessions : {m.sessions}, events : {m.events},
                  findings : {m.findings}, latest : {m.latest}]
    BY DEF Snapshot
  <1> HIDE DEF m
  <1>3. IsStore(m)
    BY <1>2 DEF StoreInv, IsStore, IsDatabase
  <1>4. Sound(m) /\ Within(m, db)
    BY <1>2 DEF StoreInv, Sound, Kept, Within, Present
  <1>5. EngineType' /\ DOMAIN engine' = {}
    BY <1>1, StoreAssumption DEF EngineType
  <1> QED BY <1>1, <1>3, <1>4, <1>5 DEF StoreInv

\* One step per operation of the store.
LEMMA StoreStep == ASSUME StoreInv, [Next]_vars PROVE StoreInv'
  <1>1. CASE CaptureStarts
    <2>1. UNCHANGED <<mem, db>> /\ clock' = 0 /\ engine' = <<>>
      BY <1>1 DEF CaptureStarts
    <2>2. EngineType' /\ DOMAIN engine' = {}
      BY <2>1, StoreAssumption DEF EngineType
    <2> QED BY <2>1, <2>2 DEF StoreInv
  <1>2. CASE Tick
    <2>1. UNCHANGED <<mem, db, engine>> /\ EngineType'
      BY <1>2, StoreAssumption DEF Tick, StoreInv, EngineType
    <2> QED BY <2>1 DEF StoreInv
  <1>3. ASSUME NEW s \in {0} \cup SessionIds, CommitNew(s) PROVE StoreInv'
    <2> DEFINE i == Len(engine) + 1
               en == Append(engine, [first |-> clock, session |-> s])
    <2>1. engine \in Seq([first : 0 .. MaxClock, session : 0 .. MaxSessionIds])
      BY DEF StoreInv, EngineType
    <2>2. [first |-> clock, session |-> s] \in [first : 0 .. MaxClock, session : 0 .. MaxSessionIds]
      BY StoreAssumption DEF StoreInv, EngineType, SessionIds
    <2>3. /\ en \in Seq([first : 0 .. MaxClock, session : 0 .. MaxSessionIds])
          /\ DOMAIN en \subseteq DOMAIN engine \cup {i}
      BY <2>1, <2>2
    <2>4. CommitFlow(i, en, s # 0) /\ (s # 0) \in BOOLEAN
      BY <1>3 DEF CommitNew
    <2> HIDE DEF i, en
    <2> QED BY <2>3, <2>4, CommitKeeps
  <1>4. ASSUME NEW i \in Ids, CommitAgain(i) PROVE StoreInv'
    <2>1. CommitFlow(i, engine, FALSE)
      BY <1>4 DEF CommitAgain
    <2>2. engine \in Seq([first : 0 .. MaxClock, session : 0 .. MaxSessionIds])
      BY DEF StoreInv, EngineType
    <2> QED BY <2>1, <2>2, CommitKeeps
  <1>5. ASSUME NEW n \in FindingIds, NEW refs \in SUBSET Refs, AddFinding(n, refs)
        PROVE  StoreInv'
    BY <1>5, FindingKeeps
  <1>6. CASE Restart
    BY <1>6, RestartKeeps
  <1>7. CASE UNCHANGED vars
    BY <1>7 DEF vars, StoreInv, EngineType
  <1> QED BY <1>1, <1>2, <1>3, <1>4, <1>5, <1>6, <1>7 DEF Next

\* The inductive invariant of memory and database: what each has, what the links and the
\* findings in each rest on, and that the memory is within the database (capture_store.rs,
\* repository.rs).
THEOREM StoreInvariant == Spec => []StoreInv
  <1>1. Init => StoreInv
    BY StoreStarts
  <1>2. StoreInv /\ [Next]_vars => StoreInv'
    BY StoreStep
  <1> QED BY <1>1, <1>2, PTL DEF Spec

\* A finding that is not marked expired has all its evidence in memory, whatever was
\* evicted, overwritten by a later capture or restored (auto_evict_if_needed in
\* capture_store.rs).
THEOREM EvidenceAlwaysResolves == Spec => []EvidenceResolves
  <1>1. StoreInv => EvidenceResolves
    BY DEF StoreInv, Sound, EvidenceResolves
  <1> QED BY <1>1, StoreInvariant, PTL

\* The database the mirror keeps can always be read back whole: every link names a
\* session that has a row, and the memory never has what the database has not.
THEOREM HydrationStaysWhole == Spec => []HydrationIsWhole
  <1>1. StoreInv => HydrationIsWhole
    BY DEF StoreInv, Linked, Within, HydrationIsWhole
  <1> QED BY <1>1, StoreInvariant, PTL

-----------------------------------------------------------------------------
(* Types and retention.  The existence of a least and a greatest time is   *)
(* induction on the natural numbers, taken here from the well-foundedness  *)
(* of < on them; the number of flows left after an eviction is counted by  *)
(* the rank of each among those before it.                                 *)

Before == {pair \in Nat \X Nat : pair[1] < pair[2]}

\* < on the naturals, as a set of pairs.
LEMMA BeforeIsWellFounded == IsWellFoundedOn(Before, Nat)
  <1>1. Before = OpToRel(<, Nat)
    BY DEF Before, OpToRel
  <1> QED BY <1>1, NatLessThanWellFounded

\* A nonempty set of naturals has a least element.
LEMMA Least ==
    ASSUME NEW S \in SUBSET Nat, S # {}
    PROVE  \E m \in S : \A n \in S : m <= n
  <1>1. PICK m \in S : \A n \in S : <<n, m>> \notin Before
    BY BeforeIsWellFounded, WFMin
  <1>2. ASSUME NEW n \in S PROVE m <= n
    <2>1. m \in Nat /\ n \in Nat
      OBVIOUS
    <2>2. n < m => <<n, m>> \in Before
      BY <2>1 DEF Before
    <2> QED BY <1>1, <2>1, <2>2
  <1> QED BY <1>2

\* A nonempty set of naturals within a bound has a greatest element.
LEMMA Greatest ==
    ASSUME NEW bound \in Nat, NEW S \in SUBSET (0 .. bound), S # {}
    PROVE  \E m \in S : \A n \in S : n <= m
  <1> DEFINE limits == {k \in Nat : \A n \in S : n <= k}
  <1>1. bound \in limits
    OBVIOUS
  <1>2. PICK m \in limits : \A k \in limits : m <= k
    <2> HIDE DEF limits
    <2>1. limits \in SUBSET Nat
      BY DEF limits
    <2> QED BY <1>1, <2>1, Least
  <1>3. m \in S
    <2> SUFFICES ASSUME m \notin S PROVE FALSE
      OBVIOUS
    <2>1. PICK n \in S : TRUE
      OBVIOUS
    <2>2. n < m /\ m - 1 \in Nat
      BY <2>1
    <2>3. m - 1 \in limits
      BY <2>2
    <2> QED BY <1>2, <2>3
  <1> QED BY <1>2, <1>3

\* No flow of the table is later than the time.
UpTo(flows, time) == \A i \in DOMAIN flows : flows[i].first <= time /\ flows[i].last <= time

\* recompute_latest_mono finds the time it looks for.
LEMMA NewestFound ==
    ASSUME NEW flows, Table(flows, Ids, FlowType)
    PROVE  NewestOf(flows) \in 0 .. MaxClock /\ UpTo(flows, NewestOf(flows))
  <1> DEFINE times == {0} \cup {flows[i].last : i \in DOMAIN flows}
                          \cup {flows[i].first : i \in DOMAIN flows}
             Is(t) == \A i \in DOMAIN flows : flows[i].last <= t /\ flows[i].first <= t
  <1>1. \A i \in DOMAIN flows : flows[i].first \in 0 .. MaxClock /\ flows[i].last \in 0 .. MaxClock
    BY DEF Table, FlowType
  <1>2. times \subseteq 0 .. MaxClock /\ times # {}
    BY <1>1, StoreAssumption
  <1>3. PICK t \in times : \A u \in times : u <= t
    <2> HIDE DEF times
    <2> QED BY <1>2, Greatest, StoreAssumption
  <1>4. Is(t)
    BY <1>3
  <1>5. NewestOf(flows) \in times /\ Is(NewestOf(flows))
    <2>1. NewestOf(flows) = CHOOSE x \in times : Is(x)
      BY DEF NewestOf
    <2> HIDE DEF times, Is
    <2> QED BY <1>4, <2>1
  <1> HIDE DEF times
  <1> QED BY <1>2, <1>5 DEF UpTo

\* A table of flows or sessions: natural ids, each with a first time.
Timed(f) == IsFiniteSet(DOMAIN f) /\ DOMAIN f \subseteq Nat /\ \A i \in DOMAIN f : f[i].first \in Nat

\* The entries that come before entry a.
Predecessors(f, a) == {b \in DOMAIN f : Earlier(f, b, a)}

\* Entries are totally ordered: each has a rank of its own, below their number.
LEMMA Ranks ==
    ASSUME NEW f, Timed(f)
    PROVE  /\ \A a \in DOMAIN f : Cardinality(Predecessors(f, a)) \in 0 .. Cardinality(DOMAIN f) - 1
           /\ \A a, b \in DOMAIN f :
                 Cardinality(Predecessors(f, a)) = Cardinality(Predecessors(f, b)) => a = b
  <1> USE DEF Timed
  <1>1. ASSUME NEW a \in DOMAIN f
        PROVE  /\ IsFiniteSet(Predecessors(f, a))
               /\ Cardinality(Predecessors(f, a)) \in 0 .. Cardinality(DOMAIN f) - 1
    <2> DEFINE others == DOMAIN f \ {a}
    <2>1. IsFiniteSet(others) /\ Cardinality(others) = Cardinality(DOMAIN f) - 1
      BY FS_RemoveElement
    <2>2. Predecessors(f, a) \in SUBSET others
      BY DEF Predecessors, Earlier
    <2> HIDE DEF others
    <2>3. IsFiniteSet(Predecessors(f, a)) /\ Cardinality(Predecessors(f, a)) <= Cardinality(others)
      BY <2>1, <2>2, FS_Subset
    <2>4. Cardinality(Predecessors(f, a)) \in Nat /\ Cardinality(DOMAIN f) \in Nat
      BY <2>3, FS_CardinalityType
    <2> QED BY <2>1, <2>3, <2>4
  <1>2. ASSUME NEW a \in DOMAIN f, NEW b \in DOMAIN f, Earlier(f, a, b)
        PROVE  Cardinality(Predecessors(f, a)) # Cardinality(Predecessors(f, b))
    <2>1. Predecessors(f, a) \in SUBSET Predecessors(f, b)
      BY <1>2 DEF Predecessors, Earlier
    <2>2. a \in Predecessors(f, b) /\ a \notin Predecessors(f, a)
      BY <1>2 DEF Predecessors, Earlier
    <2> QED BY <1>1, <2>1, <2>2, FS_Subset
  <1>3. \A a, b \in DOMAIN f : a # b => Earlier(f, a, b) \/ Earlier(f, b, a)
    BY DEF Earlier
  <1> QED BY <1>1, <1>2, <1>3

\* What auto_evict_if_needed leaves of a table that is over its limit.
LEMMA SurplusCounts ==
    ASSUME NEW f, Timed(f), NEW limit \in Nat \ {0}
    PROVE  /\ IsFiniteSet(DOMAIN f \ Surplus(f, limit))
           /\ Cardinality(DOMAIN f \ Surplus(f, limit)) <= limit
  <1> DEFINE n == Cardinality(DOMAIN f)
             kept == DOMAIN f \ Surplus(f, limit)
             w == Watermark(limit)
             ranks == n - w .. n - 1
             rank == [a \in kept |-> Cardinality(Predecessors(f, a))]
  <1>1. n \in Nat /\ IsFiniteSet(kept)
    BY FS_CardinalityType, FS_Difference DEF Timed
  <1>2. w \in Nat /\ w <= limit
    BY DEF Watermark
  <1>3. CASE ~Over(n, limit)
    <2>1. kept = DOMAIN f
      BY <1>3 DEF Surplus
    <2> QED BY <1>1, <1>3, <2>1 DEF Over
  <1>4. CASE Over(n, limit)
    <2>1. Surplus(f, limit) = {a \in DOMAIN f : Cardinality(Predecessors(f, a)) < n - w}
      BY <1>4 DEF Surplus, Oldest, Predecessors
    <2> HIDE DEF n, w
    <2>2. \A a \in kept : Cardinality(Predecessors(f, a)) \in ranks
      BY <1>1, <1>2, <2>1, Ranks DEF n
    <2>3. \A a, b \in kept : rank[a] = rank[b] => a = b
      BY Ranks
    <2>4. rank \in Injection(kept, ranks)
      <3> HIDE DEF kept, ranks
      <3> QED BY <2>2, <2>3 DEF Injection, IsInjective
    <2>5. IsFiniteSet(ranks) /\ Cardinality(ranks) = w
      BY <1>1, <1>2, <1>4, FS_Interval DEF Over
    <2> HIDE DEF kept, ranks, rank
    <2>6. Cardinality(kept) <= Cardinality(ranks)
      BY <2>4, <2>5, FS_Injection
    <2>7. Cardinality(kept) \in Nat
      BY <1>1, FS_CardinalityType
    <2> QED BY <1>1, <1>2, <2>5, <2>6, <2>7 DEF kept
  <1> QED BY <1>3, <1>4

\* What it drops comes before what it leaves, which is at least four fifths of the limit.
LEMMA SurplusIsEarliest ==
    ASSUME NEW f, Timed(f), NEW limit \in Nat \ {0}, NEW a \in Surplus(f, limit)
    PROVE  /\ \A b \in DOMAIN f \ Surplus(f, limit) : Earlier(f, a, b)
           /\ Cardinality(DOMAIN f \ Surplus(f, limit)) >= Watermark(limit)
  <1> DEFINE n == Cardinality(DOMAIN f)
             w == Watermark(limit)
             rank == [x \in Surplus(f, limit) |-> Cardinality(Predecessors(f, x))]
             ranks == 0 .. n - w - 1
  <1>1. n \in Nat /\ w \in Nat /\ w <= limit
    BY FS_CardinalityType DEF Timed, Watermark
  <1>2. Over(n, limit) /\ Surplus(f, limit) = {x \in DOMAIN f : Cardinality(Predecessors(f, x)) < n - w}
    BY DEF Surplus, Oldest, Predecessors
  <1>3. \A x \in DOMAIN f : Cardinality(Predecessors(f, x)) \in 0 .. n - 1
    BY Ranks
  <1> HIDE DEF n, w
  <1>4. ASSUME NEW b \in DOMAIN f \ Surplus(f, limit) PROVE Earlier(f, a, b)
    <2>1. a \in DOMAIN f /\ a # b
      BY <1>2
    <2>2. Earlier(f, a, b) \/ Earlier(f, b, a)
      BY <2>1 DEF Earlier, Timed
    <2>3. SUFFICES ASSUME Earlier(f, b, a) PROVE FALSE
      BY <2>2
    <2>4. Predecessors(f, b) \in SUBSET Predecessors(f, a)
      BY <2>1, <2>3 DEF Predecessors, Earlier, Timed
    <2>5. IsFiniteSet(Predecessors(f, a))
      <3>1. Predecessors(f, a) \in SUBSET DOMAIN f
        BY DEF Predecessors
      <3> QED BY <3>1, FS_Subset DEF Timed
    <2>6. Cardinality(Predecessors(f, b)) <= Cardinality(Predecessors(f, a))
      BY <2>4, <2>5, FS_Subset
    <2> QED BY <1>1, <1>2, <1>3, <2>1, <2>6
  <1>5. /\ IsFiniteSet(Surplus(f, limit))
        /\ Cardinality(DOMAIN f \ Surplus(f, limit)) = n - Cardinality(Surplus(f, limit))
    <2>1. Surplus(f, limit) \in SUBSET DOMAIN f /\ DOMAIN f \cap Surplus(f, limit) = Surplus(f, limit)
      BY <1>2
    <2> QED BY <2>1, FS_Subset, FS_Difference DEF Timed, n
  <1>6. rank \in Injection(Surplus(f, limit), ranks)
    <2>1. \A x \in Surplus(f, limit) : rank[x] \in ranks
      BY <1>1, <1>2, <1>3
    <2>2. \A x, y \in Surplus(f, limit) : rank[x] = rank[y] => x = y
      BY <1>2, Ranks
    <2> HIDE DEF ranks
    <2> QED BY <2>1, <2>2 DEF Injection, IsInjective
  <1>7. IsFiniteSet(ranks) /\ Cardinality(ranks) = n - w
    BY <1>1, <1>2, FS_Interval DEF Over
  <1> HIDE DEF rank, ranks
  <1>8. Cardinality(Surplus(f, limit)) <= Cardinality(ranks)
    BY <1>6, <1>7, FS_Injection
  <1>9. Cardinality(Surplus(f, limit)) \in Nat
    BY <1>5, FS_CardinalityType
  <1> QED BY <1>1, <1>4, <1>5, <1>7, <1>8, <1>9 DEF w

\* The types of the memory and of the database, and that the cached time is late enough.
MemTyped(m) ==
    /\ Table(m.flows, Ids, FlowType) /\ Table(m.sessions, SessionIds, SessionType)
    /\ DOMAIN m.findings \subseteq FindingIds
    /\ m.latest \in 0 .. MaxClock /\ UpTo(m.flows, m.latest)
DbTyped(d) ==
    /\ Table(d.flows, Ids, FlowType) /\ Table(d.sessions, SessionIds, 0 .. MaxClock)
    /\ DOMAIN d.findings \subseteq FindingIds
    /\ Table(d.session_of, Ids, 0 .. MaxSessionIds)

\* The flows of the running capture have in memory the times they have in its engine.
TimesAgree ==
    \A i \in DOMAIN mem.flows \cap DOMAIN engine : mem.flows[i].first = engine[i].first

RetentionInv ==
    /\ StoreInv /\ MemTyped(mem) /\ DbTyped(db)
    /\ capture \in 0 .. MaxCaptures /\ running \in BOOLEAN /\ (running => capture # 0)
    /\ Len(engine) <= MaxFlowIds /\ TimesAgree

\* What eviction leaves of a typed memory is typed.
LEMMA EvictionTypes ==
    ASSUME NEW m, MemTyped(m), IsStore(m)
    PROVE  /\ MemTyped(AutoEvict(m))
           /\ DOMAIN AutoEvict(m).flows = DOMAIN m.flows \ Surplus(m.flows, max_flows)
           /\ DOMAIN AutoEvict(m).sessions = DOMAIN m.sessions \ Surplus(m.sessions, max_sessions)
           /\ \A i \in DOMAIN AutoEvict(m).flows : AutoEvict(m).flows[i] = m.flows[i]
  <1> DEFINE fg == Surplus(m.flows, max_flows)
             sg == Surplus(m.sessions, max_sessions)
             gone == ({"flow"} \X fg) \cup ({"session"} \X sg)
             e == AutoEvict(m)
  <1>1. /\ e.flows = Restrict(m.flows, DOMAIN m.flows \ fg)
        /\ e.sessions = Restrict(m.sessions, DOMAIN m.sessions \ sg)
        /\ DOMAIN e.findings = DOMAIN m.findings
        /\ e.latest = NewestOf(e.flows) \/ e.latest = m.latest
    BY DEF AutoEvict
  <1> HIDE DEF e, fg, sg
  <1>2. /\ DOMAIN e.flows = DOMAIN m.flows \ fg /\ DOMAIN e.sessions = DOMAIN m.sessions \ sg
        /\ \A i \in DOMAIN e.flows : e.flows[i] = m.flows[i]
        /\ \A s \in DOMAIN e.sessions : e.sessions[s] = m.sessions[s]
    BY <1>1 DEF Restrict
  <1>3. Table(e.flows, Ids, FlowType) /\ Table(e.sessions, SessionIds, SessionType)
    BY <1>2 DEF MemTyped, Table
  <1>4. e.latest \in 0 .. MaxClock /\ UpTo(e.flows, e.latest)
    <2>1. CASE e.latest = m.latest
      BY <1>2, <2>1 DEF MemTyped, UpTo
    <2>2. CASE e.latest = NewestOf(e.flows)
      BY <1>3, <2>2, NewestFound
    <2> QED BY <1>1, <2>1, <2>2
  <1> QED BY <1>1, <1>2, <1>3, <1>4 DEF MemTyped, e, fg, sg

\* A table stays one when a row of its type is put.
LEMMA PutTyped ==
    ASSUME NEW f, NEW keys, NEW type, Table(f, keys, type), NEW k \in keys, NEW v \in type
    PROVE  Table(Put(f, k, v), keys, type)
  BY DEF Put, Table

\* The types of the memory after insert_flow ...
LEMMA WithFlowTypes ==
    ASSUME NEW m, IsStore(m), MemTyped(m), NEW i \in Ids, NEW flow \in FlowType
    PROVE  IsStore(WithFlow(m, i, flow)) /\ MemTyped(WithFlow(m, i, flow))
  <1> DEFINE n == WithFlow(m, i, flow)
             f == Put(m.flows, i, flow)
             t == Larger(m.latest, Larger(flow.last, flow.first))
  <1>1. /\ n.flows = f /\ n.sessions = m.sessions /\ n.findings = m.findings /\ n.latest = t
        /\ n \in [flows : {n.flows}, sessions : {n.sessions}, events : {n.events},
                  findings : {n.findings}, latest : {n.latest}]
    BY DEF WithFlow
  <1>2. flow.first \in 0 .. MaxClock /\ flow.last \in 0 .. MaxClock /\ m.latest \in 0 .. MaxClock
    BY DEF FlowType, MemTyped
  <1>3. t \in 0 .. MaxClock /\ m.latest <= t /\ flow.first <= t /\ flow.last <= t
    BY <1>2, StoreAssumption DEF Larger
  <1> HIDE DEF n, t
  <1>4. /\ DOMAIN f = DOMAIN m.flows \cup {i} /\ f[i] = flow
        /\ \A x \in DOMAIN m.flows : x # i => f[x] = m.flows[x]
    BY DEF Put
  <1>5. Table(f, Ids, FlowType)
    BY PutTyped DEF MemTyped
  <1> HIDE DEF f
  <1>6. UpTo(f, t)
    <2> SUFFICES ASSUME NEW x \in DOMAIN f PROVE f[x].first <= t /\ f[x].last <= t
      BY DEF UpTo
    <2>1. CASE x = i
      BY <1>3, <1>4, <2>1
    <2>2. CASE x # i
      <3>1. x \in DOMAIN m.flows /\ f[x] = m.flows[x]
        BY <1>4, <2>2
      <3>2. m.flows[x].first \in 0 .. MaxClock /\ m.flows[x].last \in 0 .. MaxClock
        BY <3>1 DEF MemTyped, Table, FlowType
      <3>3. m.flows[x].first <= m.latest /\ m.flows[x].last <= m.latest
        BY <3>1 DEF MemTyped, UpTo
      <3> QED BY <1>2, <1>3, <3>1, <3>2, <3>3, StoreAssumption
    <2> QED BY <2>1, <2>2
  <1>7. IsStore(n)
    BY <1>1 DEF IsStore
  <1>8. MemTyped(n)
    BY <1>1, <1>3, <1>5, <1>6 DEF MemTyped
  <1> QED BY <1>7, <1>8 DEF n

\* ... and after insert_session.
LEMMA WithSessionTypes ==
    ASSUME NEW m, IsStore(m), MemTyped(m), NEW s \in SessionIds, NEW session \in SessionType
    PROVE  /\ MemTyped(InsertSession(m, s, session))
           /\ InsertSession(m, s, session).flows = m.flows
  <1> DEFINE a == Put(m.sessions, s, session)
             n == InsertSession(m, s, session)
  <1>1. Table(a, SessionIds, SessionType)
    BY PutTyped DEF MemTyped
  <1>2. n \in [flows : {m.flows}, sessions : {a}, events : {m.events},
               findings : {m.findings}, latest : {m.latest}]
    <2> HIDE DEF a
    <2> QED BY DEF IsStore, InsertSession, a
  <1> HIDE DEF a, n
  <1> QED BY <1>1, <1>2 DEF MemTyped, n

\* The types of the database after a row is written ...
LEMMA RowTypes ==
    ASSUME NEW d, IsDatabase(d), Linked(d), DbTyped(d), NEW i \in Ids, NEW flow \in FlowType
    PROVE  DbTyped(DbInsertFlow(d, i, flow))
  <1> DEFINE row == IF i \in DOMAIN d.flows
                    THEN [d.flows[i] EXCEPT !.metrics = flow.metrics, !.last = flow.last]
                    ELSE flow
             a == Put(d.flows, i, row)
             b == d.events \cup ({i} \cap Eventful)
             c == IF i \in DOMAIN d.session_of THEN d.session_of ELSE Put(d.session_of, i, 0)
             n == [d EXCEPT !.flows = a, !.events = b, !.session_of = c]
  <1>1. row \in FlowType
    <2>1. CASE i \in DOMAIN d.flows
      BY <2>1 DEF DbTyped, Table, FlowType
    <2> QED BY <2>1
  <1> HIDE DEF row
  <1>2. Table(a, Ids, FlowType)
    BY <1>1, PutTyped DEF DbTyped
  <1>4. Table(c, Ids, 0 .. MaxSessionIds)
    <2>1. 0 \in 0 .. MaxSessionIds
      BY StoreAssumption
    <2>2. Table(Put(d.session_of, i, 0), Ids, 0 .. MaxSessionIds)
      BY <2>1, PutTyped DEF DbTyped
    <2> QED BY <2>2 DEF DbTyped
  <1>5. n \in [flows : {a}, sessions : {d.sessions}, events : {b},
               findings : {d.findings}, session_of : {c}]
    <2> HIDE DEF a, b, c
    <2> QED BY DEF IsDatabase
  <1>6. DbInsertFlow(d, i, flow) = n
    BY DEF DbInsertFlow, row
  <1> HIDE DEF a, b, c, n
  <1>7. DbTyped(n)
    BY <1>2, <1>4, <1>5 DEF DbTyped
  <1> QED BY <1>6, <1>7

\* ... and after a session is linked to its flows.
LEMMA LinkTypes ==
    ASSUME NEW d, IsDatabase(d), DbTyped(d), NEW s \in SessionIds, NEW session \in SessionType
    PROVE  /\ DbTyped(DbInsertSession(d, s, session))
           /\ DbInsertSession(d, s, session).flows = d.flows
  <1> DEFINE a == Put(d.sessions, s, session.first)
             c == [i \in DOMAIN d.session_of |->
                      IF i \in session.flow_ids THEN s ELSE d.session_of[i]]
             n == [d EXCEPT !.sessions = a, !.session_of = c]
  <1>1. Table(a, SessionIds, 0 .. MaxClock)
    <2>1. session.first \in 0 .. MaxClock
      BY DEF SessionType
    <2> QED BY <2>1, PutTyped DEF DbTyped
  <1>2. Table(c, Ids, 0 .. MaxSessionIds)
    BY StoreAssumption DEF DbTyped, Table, SessionIds
  <1>3. n \in [flows : {d.flows}, sessions : {a}, events : {d.events},
               findings : {d.findings}, session_of : {c}]
    <2> HIDE DEF a, c
    <2> QED BY DEF IsDatabase
  <1>4. DbInsertSession(d, s, session) \in {n, d}
    BY DEF DbInsertSession
  <1> HIDE DEF a, c, n
  <1>5. DbTyped(n) /\ n.flows = d.flows
    BY <1>1, <1>2, <1>3 DEF DbTyped
  <1> QED BY <1>4, <1>5

\* An element of a sequence is of the type of its elements.
LEMMA ElementOf == ASSUME NEW T, NEW q \in Seq(T) PROVE \A i \in DOMAIN q : q[i] \in T
  OBVIOUS

\* The session of a flow that has joined one begins with the first of its flows.
LEMMA SessionOfTypes ==
    ASSUME NEW en \in Seq([first : 0 .. MaxClock, session : 0 .. MaxSessionIds]),
           Len(en) <= MaxFlowIds, NEW s, NEW j \in DOMAIN en, en[j].session = s
    PROVE  SessionOf(en, s) \in SessionType
  <1> DEFINE flow_ids == {i \in DOMAIN en : en[i].session = s}
             times == {en[i].first : i \in flow_ids}
             First(t) == \A i \in flow_ids : t <= en[i].first
             first == CHOOSE t \in times : First(t)
  <1>1. flow_ids \in SUBSET Ids
    BY StoreAssumption DEF Ids
  <1>2. times \subseteq 0 .. MaxClock /\ times # {}
    <2>1. \A i \in DOMAIN en : en[i] \in [first : 0 .. MaxClock, session : 0 .. MaxSessionIds]
      BY ElementOf
    <2>2. \A i \in DOMAIN en : en[i].first \in 0 .. MaxClock
      BY <2>1
    <2>3. j \in flow_ids
      OBVIOUS
    <2> QED BY <2>2, <2>3
  <1>3. PICK t \in times : \A u \in times : t <= u
    <2> HIDE DEF times
    <2>1. times \in SUBSET Nat
      BY <1>2, StoreAssumption
    <2> QED BY <1>2, <2>1, Least
  <1>4. First(t)
    BY <1>3
  <1>5. first \in times
    <2> HIDE DEF times, First
    <2> QED BY <1>4
  <1>6. SessionOf(en, s) = [first |-> first, flow_ids |-> flow_ids]
    BY DEF SessionOf
  <1> HIDE DEF times, first, flow_ids
  <1> QED BY <1>1, <1>2, <1>5, <1>6 DEF SessionType


\* At the start nothing is retained.
LEMMA RetentionStarts == ASSUME Init PROVE RetentionInv
  <1> USE StoreAssumption DEF Init, EmptyStore, EmptyDatabase, Empty
  <1>1. MemTyped(mem) /\ DbTyped(db)
    BY DEF MemTyped, DbTyped, Table, UpTo
  <1>2. TimesAgree
    BY DEF TimesAgree
  <1>3. Len(engine) <= MaxFlowIds
    OBVIOUS
  <1>4. StoreInv
    BY StoreStarts
  <1>5. capture \in 0 .. MaxCaptures
    OBVIOUS
  <1>6. running \in BOOLEAN /\ ~running
    BY Zenon
  <1> QED BY <1>1, <1>2, <1>3, <1>4, <1>5, <1>6 DEF RetentionInv

\* The tables of a typed memory have the times eviction orders them by.
LEMMA TablesAreTimed ==
    ASSUME NEW m, MemTyped(m) PROVE Timed(m.flows) /\ Timed(m.sessions)
  <1>1. IsFiniteSet(Ids) /\ IsFiniteSet(SessionIds) /\ Ids \subseteq Nat /\ SessionIds \subseteq Nat
    <2>1. 1 \in Int /\ MaxFlowIds \in Int /\ MaxSessionIds \in Int
      BY StoreAssumption
    <2>2. IsFiniteSet(1 .. MaxFlowIds) /\ IsFiniteSet(1 .. MaxSessionIds)
      BY <2>1, FS_Interval
    <2> QED BY <2>2, StoreAssumption DEF Ids, SessionIds
  <1>2. DOMAIN m.flows \in SUBSET Ids /\ DOMAIN m.sessions \in SUBSET SessionIds
    BY DEF MemTyped, Table
  <1>3. IsFiniteSet(DOMAIN m.flows) /\ IsFiniteSet(DOMAIN m.sessions)
    BY <1>1, <1>2, FS_Subset
  <1>4. \A i \in DOMAIN m.flows : m.flows[i].first \in Nat
    BY StoreAssumption DEF MemTyped, Table, FlowType
  <1>5. \A s \in DOMAIN m.sessions : m.sessions[s].first \in Nat
    BY StoreAssumption DEF MemTyped, Table, SessionType
  <1> QED BY <1>1, <1>2, <1>3, <1>4, <1>5 DEF Timed

\* A commit loses flow i to four fifths of the limit that come after it.
FirstTimeIn(en, i) == IF i \in DOMAIN en THEN en[i].first ELSE mem.flows[i].first
LostToLater(en, i) ==
    /\ Cardinality(DOMAIN mem'.flows) >= Watermark(max_flows)
    /\ \A j \in DOMAIN mem'.flows :
          \/ FirstTimeIn(en, i) < mem'.flows[j].first
          \/ FirstTimeIn(en, i) = mem'.flows[j].first /\ i < j

\* A commit: what is brought has its type, what is retained keeps its own, no more is
\* retained than the limits, and what is lost is lost to what comes later.
LEMMA CommitRetains ==
    ASSUME RetentionInv, StoreInv', NEW i \in Ids, NEW en, NEW joined \in BOOLEAN,
           CommitFlow(i, en, joined), running,
           en \in Seq([first : 0 .. MaxClock, session : 0 .. MaxSessionIds]),
           DOMAIN en = DOMAIN engine \cup {i}, Len(en) <= MaxFlowIds,
           \A j \in DOMAIN engine : en[j] = engine[j],
           joined => en[i].session # 0
    PROVE  /\ RetentionInv'
           /\ Cardinality(DOMAIN mem'.flows) <= max_flows
           /\ Cardinality(DOMAIN mem'.sessions) <= max_sessions
           /\ \A x \in (DOMAIN mem.flows \cup {i}) \ DOMAIN mem'.flows : LostToLater(en, x)
  <1> DEFINE flow == [key |-> capture, metrics |-> capture, first |-> en[i].first,
                      last |-> LastSeen]
             n == WithFlow(mem, i, flow)
             m == InsertFlow(mem, i, flow)
             d == DbInsertFlow(db, i, flow)
             s == en[i].session
             session == SessionOf(en, s)
             m2 == IF joined THEN InsertSession(m, s, session) ELSE m
             d2 == IF joined THEN DbInsertSession(d, s, session) ELSE d
  <1>1. /\ mem' = AutoEvict(m2) /\ db' = d2 /\ engine' = en
        /\ UNCHANGED <<capture, running, clock>>
    BY DEF CommitFlow
  <1>2. en[i].first \in 0 .. MaxClock /\ s \in 0 .. MaxSessionIds
    <2>1. en[i] \in [first : 0 .. MaxClock, session : 0 .. MaxSessionIds]
      BY ElementOf
    <2> QED BY <2>1
  <1>3. flow \in FlowType /\ flow.metrics = capture /\ flow.first = en[i].first
    BY <1>2, StoreAssumption DEF FlowType, RetentionInv, StoreInv, EngineType, LastSeen
  <1>4. joined => s \in SessionIds /\ session \in SessionType
    <2>1. session \in SessionType
      <3> HIDE DEF s
      <3>1. SessionOf(en, s) \in SessionType
        BY SessionOfTypes DEF s
      <3> QED BY <3>1
    <2>2. joined => s # 0
      OBVIOUS
    <2> HIDE DEF session, s
    <2> QED BY <1>2, <2>1, <2>2, StoreAssumption DEF SessionIds
  <1> HIDE DEF flow, session, s
  <1>5. m = AutoEvict(n)
    BY InsertFlowEvicts DEF RetentionInv, StoreInv
  <1>6. IsStore(n) /\ MemTyped(n)
    BY <1>3, WithFlowTypes DEF RetentionInv, StoreInv
  <1>7. /\ DOMAIN n.flows = DOMAIN mem.flows \cup {i} /\ n.flows[i] = flow
        /\ \A x \in DOMAIN mem.flows : x # i => n.flows[x] = mem.flows[x]
    BY DEF WithFlow, Put
  <1> HIDE DEF n
  <1>8. /\ MemTyped(m) /\ DOMAIN m.flows \subseteq DOMAIN n.flows
        /\ \A x \in DOMAIN m.flows : m.flows[x] = n.flows[x]
    BY <1>5, <1>6, EvictionTypes
  <1>9. IsStore(m)
    BY InsertFlowKeeps DEF RetentionInv, StoreInv
  <1>10. IsDatabase(d) /\ DbTyped(d)
    BY <1>3, RowTypes, RowKeeps DEF RetentionInv, StoreInv
  <1> HIDE DEF m, d
  <1>11. IsStore(m2) /\ MemTyped(m2) /\ m2.flows = m.flows
    <2>1. Sound(m)
      BY InsertFlowKeeps DEF RetentionInv, StoreInv, m
    <2> QED BY <1>4, <1>8, <1>9, <2>1, WithSessionTypes, InsertSessionKeeps
  <1>12. DbTyped(d2)
    BY <1>4, <1>10, LinkTypes
  <1> HIDE DEF m2, d2
  <1>13. /\ MemTyped(mem') /\ DOMAIN mem'.flows \subseteq DOMAIN m2.flows
         /\ \A x \in DOMAIN mem'.flows : mem'.flows[x] = m2.flows[x]
    BY <1>1, <1>11, EvictionTypes
  <1>14. \A x \in DOMAIN n.flows : n.flows[x].first = FirstTimeIn(en, x)
    BY <1>3, <1>7 DEF RetentionInv, TimesAgree, FirstTimeIn
  <1>15. capture \in 0 .. MaxCaptures /\ clock \in 0 .. MaxClock
    BY DEF RetentionInv, StoreInv, EngineType
  <1>16. \A x \in DOMAIN mem'.flows : x \in DOMAIN n.flows /\ mem'.flows[x] = n.flows[x]
    BY <1>8, <1>11, <1>13
  <1>17. TimesAgree'
    BY <1>1, <1>14, <1>16 DEF TimesAgree, FirstTimeIn
  <1>18. /\ Cardinality(DOMAIN mem'.flows) <= max_flows
         /\ Cardinality(DOMAIN mem'.sessions) <= max_sessions
    BY <1>1, <1>11, EvictionTypes, TablesAreTimed, SurplusCounts, StoreAssumption
  <1>19. ASSUME NEW x \in (DOMAIN mem.flows \cup {i}) \ DOMAIN mem'.flows
         PROVE  LostToLater(en, x)
    <2>1. /\ DOMAIN m.flows = DOMAIN n.flows \ Surplus(n.flows, max_flows)
          /\ DOMAIN mem'.flows = DOMAIN m2.flows \ Surplus(m2.flows, max_flows)
      BY <1>1, <1>5, <1>6, <1>11, EvictionTypes
    <2>2. Timed(n.flows) /\ Timed(m2.flows)
      BY <1>6, <1>11, TablesAreTimed
    <2>3. \A a, b : Earlier(n.flows, a, b) /\ a \in DOMAIN n.flows /\ b \in DOMAIN mem'.flows =>
             \/ FirstTimeIn(en, a) < mem'.flows[b].first
             \/ FirstTimeIn(en, a) = mem'.flows[b].first /\ a < b
      BY <1>14, <1>16 DEF Earlier
    <2>4. max_flows \in Nat \ {0}
      BY StoreAssumption
    <2>5. CASE x \in Surplus(n.flows, max_flows)
      <3>1. /\ \A b \in DOMAIN m.flows : Earlier(n.flows, x, b)
            /\ Cardinality(DOMAIN m.flows) >= Watermark(max_flows)
        BY <2>1, <2>2, <2>4, <2>5, SurplusIsEarliest
      <3>2. Cardinality(DOMAIN mem'.flows) >= Watermark(max_flows)
        <4>1. CASE Surplus(m2.flows, max_flows) = {}
          BY <1>11, <2>1, <3>1, <4>1
        <4>2. CASE Surplus(m2.flows, max_flows) # {}
          BY <2>1, <2>2, <2>4, <4>2, SurplusIsEarliest
        <4> QED BY <4>1, <4>2
      <3>3. x \in DOMAIN n.flows /\ DOMAIN mem'.flows \subseteq DOMAIN m.flows
        BY <1>7, <1>11, <1>13
      <3> QED BY <2>3, <3>1, <3>2, <3>3 DEF LostToLater
    <2>6. CASE x \notin Surplus(n.flows, max_flows)
      <3>1. x \in Surplus(m2.flows, max_flows) /\ x \in DOMAIN n.flows /\ x \in DOMAIN m2.flows
        BY <1>7, <1>11, <2>1, <2>6
      <3>2. /\ \A b \in DOMAIN mem'.flows : Earlier(m2.flows, x, b)
            /\ Cardinality(DOMAIN mem'.flows) >= Watermark(max_flows)
        BY <2>1, <2>2, <2>4, <3>1, SurplusIsEarliest
      <3>3. \A b \in DOMAIN mem'.flows : Earlier(n.flows, x, b)
        BY <1>8, <1>11, <1>13, <3>1, <3>2 DEF Earlier
      <3> QED BY <2>3, <3>1, <3>2, <3>3 DEF LostToLater
    <2> QED BY <2>5, <2>6
  <1>20. RetentionInv'
    BY <1>1, <1>12, <1>13, <1>17 DEF RetentionInv
  <1> QED BY <1>18, <1>19, <1>20

\* A flow the engine has just made is added at the end of its list.
LEMMA NewFlowRetains ==
    ASSUME RetentionInv, StoreInv', NEW s \in {0} \cup SessionIds, CommitNew(s)
    PROVE  /\ RetentionInv'
           /\ Cardinality(DOMAIN mem'.flows) <= max_flows
           /\ Cardinality(DOMAIN mem'.sessions) <= max_sessions
           /\ \A x \in (DOMAIN mem.flows \cup (DOMAIN engine' \ DOMAIN engine)) \ DOMAIN mem'.flows :
                 LostToLater(engine', x)
  <1> DEFINE i == Len(engine) + 1
             row == [first |-> clock, session |-> s]
             en == Append(engine, row)
  <1>1. engine \in Seq([first : 0 .. MaxClock, session : 0 .. MaxSessionIds])
        /\ clock \in 0 .. MaxClock
    BY DEF RetentionInv, StoreInv, EngineType
  <1>2. row \in [first : 0 .. MaxClock, session : 0 .. MaxSessionIds]
    BY <1>1, StoreAssumption DEF SessionIds
  <1>3. /\ en \in Seq([first : 0 .. MaxClock, session : 0 .. MaxSessionIds])
        /\ DOMAIN en = DOMAIN engine \cup {i} /\ en[i] = row /\ Len(en) = i
        /\ \A j \in DOMAIN engine : en[j] = engine[j]
    <2> HIDE DEF row
    <2> QED BY <1>1, <1>2
  <1>4. /\ CommitFlow(i, en, s # 0) /\ (s # 0) \in BOOLEAN /\ running
        /\ Len(engine) < MaxFlowIds
    BY DEF CommitNew
  <1>5. i \in Ids /\ Len(en) <= MaxFlowIds
    BY <1>1, <1>3, <1>4, StoreAssumption DEF Ids
  <1>6. row.session = s
    OBVIOUS
  <1> HIDE DEF i, en, row
  <1>7. /\ RetentionInv'
        /\ Cardinality(DOMAIN mem'.flows) <= max_flows
        /\ Cardinality(DOMAIN mem'.sessions) <= max_sessions
        /\ \A x \in (DOMAIN mem.flows \cup {i}) \ DOMAIN mem'.flows : LostToLater(en, x)
    BY <1>3, <1>4, <1>5, <1>6, CommitRetains
  <1>8. engine' = en
    BY <1>4 DEF CommitFlow
  <1> QED BY <1>3, <1>7, <1>8

\* A flow that is committed again is updated in place.
LEMMA AgainRetains ==
    ASSUME RetentionInv, StoreInv', NEW i \in Ids, CommitAgain(i)
    PROVE  /\ RetentionInv'
           /\ Cardinality(DOMAIN mem'.flows) <= max_flows
           /\ Cardinality(DOMAIN mem'.sessions) <= max_sessions
           /\ engine' = engine
           /\ \A x \in DOMAIN mem.flows \ DOMAIN mem'.flows : LostToLater(engine', x)
  <1>1. /\ engine \in Seq([first : 0 .. MaxClock, session : 0 .. MaxSessionIds])
        /\ Len(engine) <= MaxFlowIds
    BY DEF RetentionInv, StoreInv, EngineType
  <1>2. CommitFlow(i, engine, FALSE) /\ running /\ i \in DOMAIN engine
    BY DEF CommitAgain
  <1>3. engine' = engine
    BY <1>2 DEF CommitFlow
  <1> QED BY <1>1, <1>2, <1>3, CommitRetains

\* The steps that commit nothing.
LEMMA OthersRetain ==
    ASSUME RetentionInv, StoreInv',
           \/ CaptureStarts \/ Tick \/ Restart \/ UNCHANGED vars
           \/ \E n \in FindingIds, refs \in SUBSET Refs : AddFinding(n, refs)
    PROVE  /\ RetentionInv'
           /\ running' => UNCHANGED <<mem.flows, mem.sessions>>
           /\ engine' = engine \/ engine' = <<>>
  <1>1. CASE CaptureStarts
    <2>1. /\ UNCHANGED <<mem, db>> /\ clock' = 0 /\ engine' = <<>> /\ capture' = capture + 1
          /\ capture < MaxCaptures /\ running' = TRUE
      BY <1>1 DEF CaptureStarts
    <2>2. capture \in 0 .. MaxCaptures
      BY DEF RetentionInv
    <2>3. TimesAgree'
      BY <2>1 DEF TimesAgree
    <2>4. capture' \in 0 .. MaxCaptures /\ capture' # 0
      BY <2>1, <2>2, StoreAssumption
    <2>5. Len(engine') <= MaxFlowIds
      BY <2>1, StoreAssumption
    <2>6. running' \in BOOLEAN
      BY <2>1
    <2> QED BY <2>1, <2>3, <2>4, <2>5, <2>6 DEF RetentionInv
  <1>2. CASE Tick
    <2>1. UNCHANGED <<mem, db, capture, running, engine>>
      BY <1>2 DEF Tick
    <2> QED BY <2>1 DEF RetentionInv, TimesAgree
  <1>3. CASE Restart
    <2> DEFINE m == Snapshot(db)
    <2>1. /\ mem' = m /\ UNCHANGED <<db, capture>> /\ clock' = 0 /\ engine' = <<>>
          /\ running' = FALSE
      BY <1>3 DEF Restart
    <2>2. /\ m.flows = db.flows /\ m.findings = db.findings /\ m.latest = NewestOf(db.flows)
          /\ DOMAIN m.sessions = DOMAIN db.sessions
          /\ \A s \in DOMAIN m.sessions :
                m.sessions[s] = [first |-> db.sessions[s],
                                 flow_ids |-> {i \in DOMAIN db.flows : db.session_of[i] = s}]
      BY DEF Snapshot
    <2> HIDE DEF m
    <2>3. Table(m.sessions, SessionIds, SessionType)
      <3>1. \A s \in DOMAIN db.sessions : s \in SessionIds /\ db.sessions[s] \in 0 .. MaxClock
        BY DEF RetentionInv, DbTyped, Table
      <3>2. \A s : {i \in DOMAIN db.flows : db.session_of[i] = s} \in SUBSET Ids
        BY DEF RetentionInv, DbTyped, Table
      <3>3. \A s \in DOMAIN m.sessions : m.sessions[s] \in SessionType
        <4> SUFFICES ASSUME NEW s \in DOMAIN m.sessions PROVE m.sessions[s] \in SessionType
          OBVIOUS
        <4> DEFINE ids == {i \in DOMAIN db.flows : db.session_of[i] = s}
        <4>1. m.sessions[s] = [first |-> db.sessions[s], flow_ids |-> ids]
          BY <2>2
        <4>2. ids \in SUBSET Ids /\ db.sessions[s] \in 0 .. MaxClock
          BY <2>2, <3>1, <3>2
        <4> HIDE DEF ids
        <4> QED BY <4>1, <4>2 DEF SessionType
      <3> QED BY <2>2, <3>1, <3>3 DEF Table
    <2>4. m.latest \in 0 .. MaxClock /\ UpTo(m.flows, m.latest)
      BY <2>2, NewestFound DEF RetentionInv, DbTyped
    <2>5. MemTyped(m)
      BY <2>2, <2>3, <2>4 DEF RetentionInv, DbTyped, MemTyped
    <2>6. TimesAgree'
      BY <2>1 DEF TimesAgree
    <2>7. Len(engine') <= MaxFlowIds
      BY <2>1, StoreAssumption
    <2>8. running' \in BOOLEAN /\ ~running'
      BY <2>1, Zenon
    <2> QED BY <2>1, <2>5, <2>6, <2>7, <2>8 DEF RetentionInv
  <1>4. CASE UNCHANGED vars
    BY <1>4 DEF vars, RetentionInv, TimesAgree
  <1>5. ASSUME NEW n \in FindingIds, NEW refs \in SUBSET Refs, AddFinding(n, refs)
        PROVE  /\ RetentionInv' /\ UNCHANGED <<mem.flows, mem.sessions>> /\ engine' = engine
    <2> DEFINE finding == [refs |-> refs, evidence_expired |-> FALSE]
               a == Put(mem.findings, n, finding)
               b == Put(db.findings, n, finding)
    <2>1. /\ mem' = [mem EXCEPT !.findings = a] /\ db' = [db EXCEPT !.findings = b]
          /\ UNCHANGED <<capture, running, clock, engine>>
      BY <1>5 DEF AddFinding
    <2>2. DOMAIN a = DOMAIN mem.findings \cup {n} /\ DOMAIN b = DOMAIN db.findings \cup {n}
      BY PutDomain
    <2> HIDE DEF a, b
    <2>3. /\ mem'.flows = mem.flows /\ mem'.sessions = mem.sessions
          /\ mem'.findings = a /\ mem'.latest = mem.latest
      BY <2>1 DEF RetentionInv, StoreInv, IsStore
    <2>4. /\ db'.flows = db.flows /\ db'.sessions = db.sessions
          /\ db'.findings = b /\ db'.session_of = db.session_of
      BY <2>1 DEF RetentionInv, StoreInv, IsDatabase
    <2>5. MemTyped(mem') /\ DbTyped(db')
      BY <2>2, <2>3, <2>4 DEF RetentionInv, MemTyped, DbTyped
    <2> QED BY <2>1, <2>3, <2>4, <2>5 DEF RetentionInv, TimesAgree
  <1> QED BY <1>1, <1>2, <1>3, <1>4, <1>5 DEF CaptureStarts, Tick, Restart, vars

\* One step per operation of the store.
LEMMA RetentionStep ==
    ASSUME RetentionInv, [Next]_vars
    PROVE  /\ RetentionInv'
           /\ running' /\ <<mem.flows, mem.sessions>>' # <<mem.flows, mem.sessions>>
                 => /\ Cardinality(DOMAIN mem'.flows) <= max_flows
                    /\ Cardinality(DOMAIN mem'.sessions) <= max_sessions
           /\ running' =>
                 \A x \in (DOMAIN mem.flows \cup (DOMAIN engine' \ DOMAIN engine)) \ DOMAIN mem'.flows :
                    LostToLater(engine', x)
  <1>1. StoreInv'
    BY StoreStep DEF RetentionInv
  <1>2. CASE \E s \in {0} \cup SessionIds : CommitNew(s)
    BY <1>1, <1>2, NewFlowRetains
  <1>3. CASE \E i \in Ids : CommitAgain(i)
    BY <1>1, <1>3, AgainRetains
  <1>4. CASE \/ CaptureStarts \/ Tick \/ Restart \/ UNCHANGED vars
             \/ \E n \in FindingIds, refs \in SUBSET Refs : AddFinding(n, refs)
    <2>1. /\ RetentionInv' /\ (running' => UNCHANGED <<mem.flows, mem.sessions>>)
          /\ engine' = engine \/ engine' = <<>>
      BY <1>1, <1>4, OthersRetain
    <2>2. DOMAIN engine' \ DOMAIN engine = {}
      BY <2>1
    <2> QED BY <2>1, <2>2
  <1> QED BY <1>2, <1>3, <1>4 DEF Next

\* Memory, database and engine keep their types, the cached time is late enough, and what
\* is retained of the running capture has the times its engine knows.
THEOREM RetentionInvariant == Spec => []RetentionInv
  <1>1. Init => RetentionInv
    BY RetentionStarts
  <1>2. RetentionInv /\ [Next]_vars => RetentionInv'
    BY RetentionStep
  <1> QED BY <1>1, <1>2, PTL DEF Spec

\* Every variable of the store keeps its type, for any limits and any number of captures.
THEOREM StoreTypes == Spec => []TypeOK
  <1>1. RetentionInv => TypeOK
    <2> SUFFICES ASSUME RetentionInv PROVE TypeOK
      OBVIOUS
    <2>1. mem.events \subseteq Ids /\ db.events \subseteq Ids
      BY DEF RetentionInv, StoreInv, Sound, Kept, MemTyped, DbTyped, Table
    <2>2. Table(mem.findings, FindingIds, FindingType) /\ Table(db.findings, FindingIds, FindingType)
      BY DEF RetentionInv, StoreInv, IsStore, IsDatabase, Findings, MemTyped, DbTyped, Table
    <2> QED BY <2>1, <2>2 DEF TypeOK, RetentionInv, MemTyped, DbTyped, StoreInv, EngineType
  <1> QED BY <1>1, RetentionInvariant, PTL

\* Eviction leaves the store consistent: the cached time of latest_mono_nanos is never
\* behind a retained flow, and no events outlive their flow.
THEOREM EvictionStaysClean == Spec => []EvictionIsClean
  <1>1. RetentionInv => EvictionIsClean
    BY DEF RetentionInv, StoreInv, Sound, MemTyped, UpTo, EvictionIsClean,
           LatestIsUpperBound, NoOrphanEvents
  <1> QED BY <1>1, RetentionInvariant, PTL

\* A commit leaves at most the configured number of flows and sessions in memory, whatever
\* a restart has restored.
THEOREM RetentionStaysBounded == Spec => RetentionBound
  <1>1. RetentionInv /\ [Next]_vars =>
          [running' /\ <<mem.flows, mem.sessions>>' # <<mem.flows, mem.sessions>>
             => /\ Cardinality(DOMAIN mem'.flows) <= max_flows
                /\ Cardinality(DOMAIN mem'.sessions) <= max_sessions]_vars
    BY RetentionStep
  <1> QED BY <1>1, RetentionInvariant, PTL DEF Spec, RetentionBound

\* And what a commit loses, a flow retained before or the one it brings, it loses to four
\* fifths of the limit that come later by clock and number, whatever captures they are of
\* (auto_evict_if_needed, evict_oldest_flows).  That the flow just brought may be the one
\* is run store_fresh.
THEOREM RetentionStaysFair == Spec => RetentionIsFair
  <1>1. RetentionInv /\ [Next]_vars =>
          [running' =>
             \A i \in (DOMAIN mem.flows \cup (DOMAIN engine' \ DOMAIN engine)) \ DOMAIN mem'.flows :
                 /\ Cardinality(DOMAIN mem'.flows) >= Watermark(max_flows)
                 /\ \A j \in DOMAIN mem'.flows :
                       \/ FirstTime(i) < mem'.flows[j].first
                       \/ FirstTime(i) = mem'.flows[j].first /\ i < j]_vars
    BY RetentionStep DEF LostToLater, FirstTimeIn, FirstTime
  <1>2. Spec => LosesEarliest
    BY <1>1, RetentionInvariant, PTL DEF Spec, LosesEarliest
  <1> QED BY <1>2, RetentionStaysBounded DEF RetentionIsFair
===============================================================================
