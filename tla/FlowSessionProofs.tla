--------------------------- MODULE FlowSessionProofs ---------------------------
(***************************************************************************)
(* What holds of the sessions for any conversations, names and bounds: a   *)
(* flow is linked to one lookup and counted there once, a lookup has one   *)
(* session, the sessions the store holds refer to flows it holds, and the  *)
(* end of the capture leaves out nothing.  The inductive invariant relates *)
(* the links, the groups, the numbers given to them and what the store was *)
(* told; it rests on FlowEngineProofs for the flows.                       *)
(***************************************************************************)
EXTENDS FlowEngineProofs, FiniteSetTheorems

LinksOf(n) == {l \in links : l.name = n}

\* The links and the groups: each link is in the group of its lookup, and nothing else is.
Grouping ==
    /\ resolutions \in [Ips -> {NoLookup} \cup [name : Names, at : Nat]]
    /\ links \subseteq [name : Names, flow_id : 1 .. next_flow_id]
    /\ groups \in [Names -> Seq(1 .. next_flow_id)]
    /\ dirty_groups \subseteq {n \in Names : groups[n] # << >>}
    /\ \A l \in links : \E j \in 1 .. Len(groups[l.name]) : groups[l.name][j] = l.flow_id
    /\ \A l, m \in links : l.flow_id = m.flow_id => l = m
    /\ \A n \in Names : IsFiniteSet(LinksOf(n)) /\ Cardinality(LinksOf(n)) = Len(groups[n])

\* The numbers: no two lookups have the same.
Numbered(ids, last) ==
    /\ ids \in [Names -> Nat] /\ last \in Nat
    /\ \A n \in Names : ids[n] <= last
    /\ \A m, n \in Names : ids[m] = ids[n] /\ ids[m] # 0 => m = n

\* What the store was told of sessions, under the numbers ids.
ToldUnder(ids) ==
    \A i \in DOMAIN stored_sessions :
        /\ i # 0 /\ stored_sessions[i].name \in Names
        /\ ids[stored_sessions[i].name] = i

\* Finish does not keep the numbers it gives, so they are of use until then only.
SessionInv ==
    /\ DeliveryInv /\ Grouping
    /\ ~ended => Numbered(assigned_ids, next_session_id) /\ ToldUnder(assigned_ids)
    /\ \A i, j \in DOMAIN stored_sessions :
          stored_sessions[i].name = stored_sessions[j].name => i = j
    /\ SessionFlowsStored
    /\ \A i \in DOMAIN stored : i \in LiveIds \/ stored[i].sealed
    /\ ended => DOMAIN flows = {}
    /\ FinishKeepsAll

\* A sequence over a set is one over a larger set.
LEMMA SeqOfMore ==
    ASSUME NEW S, NEW T, S \subseteq T, NEW s \in Seq(S) PROVE s \in Seq(T)
  <1>1. Len(s) \in Nat /\ s \in [1 .. Len(s) -> S]
    OBVIOUS
  <1>2. s \in [1 .. Len(s) -> T]
    BY <1>1
  <1> QED BY <1>1, <1>2

LEMMA SeqElements ==
    ASSUME NEW S, NEW s \in Seq(S) PROVE \A j \in 1 .. Len(s) : s[j] \in S
  OBVIOUS

\* New numbers: those of the names that have none yet.
LEMMA NumberingFact ==
    ASSUME Numbered(assigned_ids, next_session_id), NEW names \in SUBSET Names,
           NEW f \in Numberings(Unassigned(names))
    PROVE  /\ Numbered(IdsWith(f), next_session_id + Cardinality(Unassigned(names)))
           /\ \A n \in names : IdsWith(f)[n] # 0
           /\ \A n \in Names : assigned_ids[n] # 0 => IdsWith(f)[n] = assigned_ids[n]
  <1> DEFINE new == Unassigned(names)
             ids == IdsWith(f)
             last == next_session_id + Cardinality(new)
  <1>1. new \subseteq Names /\ IsFiniteSet(new)
    <2>1. new \subseteq Names
      BY DEF Unassigned
    <2> QED BY <2>1, FS_Subset, EngineAssumption
  <1>2. Cardinality(new) \in Nat
    BY <1>1, FS_CardinalityType
  <1>3. /\ f \in [new -> next_session_id + 1 .. last]
        /\ \A m, n \in new : m # n => f[m] # f[n]
    BY DEF Numberings
  <1>4. /\ ids = [n \in Names |-> IF n \in new THEN f[n] ELSE assigned_ids[n]]
        /\ DOMAIN f = new
    BY <1>3 DEF IdsWith
  <1>5. /\ \A n \in new : assigned_ids[n] = 0
        /\ \A n \in names \ new : assigned_ids[n] # 0
    BY DEF Unassigned
  <1>6. /\ assigned_ids \in [Names -> Nat] /\ next_session_id \in Nat
        /\ \A n \in Names : assigned_ids[n] <= next_session_id
        /\ \A m, n \in Names : assigned_ids[m] = assigned_ids[n] /\ assigned_ids[m] # 0 => m = n
    BY DEF Numbered
  <1> HIDE DEF new, ids, Numbered
  <1>7. \A n \in new : f[n] \in Nat /\ next_session_id < f[n] /\ f[n] <= last
    BY <1>2, <1>3, <1>6
  <1>8. last \in Nat /\ next_session_id <= last
    BY <1>2, <1>6
  <1> HIDE DEF last
  <1>9. ids \in [Names -> Nat] /\ \A n \in Names : ids[n] <= last
    BY <1>4, <1>6, <1>7, <1>8
  <1>10. ASSUME NEW m \in Names, NEW n \in Names, ids[m] = ids[n], ids[m] # 0 PROVE m = n
    BY <1>3, <1>4, <1>6, <1>7, <1>10
  <1>11. Numbered(ids, last)
    BY <1>8, <1>9, <1>10 DEF Numbered
  <1>12. \A n \in names : ids[n] # 0
    BY <1>4, <1>5, <1>6, <1>7
  <1>13. \A n \in Names : assigned_ids[n] # 0 => ids[n] = assigned_ids[n]
    BY <1>4, <1>5
  <1> QED BY <1>11, <1>12, <1>13 DEF new, ids, last

\* What the store is told: each of the names its group, under its number.
LEMMA ToldFact ==
    ASSUME NEW names \in SUBSET Names, NEW ids, NEW last, Numbered(ids, last),
           \A n \in names : ids[n] # 0
    PROVE  /\ \A i : i \in DOMAIN SessionsToldOf(names, ids) <=>
                        i \in DOMAIN stored_sessions \/ \E n \in names : ids[n] = i
           /\ \A n \in names :
                 /\ SessionsToldOf(names, ids)[ids[n]].name = n
                 /\ SessionsToldOf(names, ids)[ids[n]].flow_ids = groups[n]
           /\ \A i \in DOMAIN stored_sessions :
                 (\A n \in names : ids[n] # i) => SessionsToldOf(names, ids)[i] = stored_sessions[i]
  <1> DEFINE told == SessionsToldOf(names, ids)
  <1>1. ASSUME NEW n \in names PROVE (CHOOSE m \in names : ids[m] = ids[n]) = n
    BY DEF Numbered
  <1>2. ASSUME NEW n \in names PROVE told[ids[n]].name = n /\ told[ids[n]].flow_ids = groups[n]
    <2>1. told[ids[n]] = [name |-> n, flow_ids |-> groups[n]]
      BY <1>1 DEF SessionsToldOf
    <2> HIDE DEF told
    <2> QED BY <2>1
  <1>3. \A i \in DOMAIN stored_sessions :
           (\A n \in names : ids[n] # i) => told[i] = stored_sessions[i]
    BY DEF SessionsToldOf
  <1>4. \A i : i \in DOMAIN told <=>
                  i \in DOMAIN stored_sessions \/ \E n \in names : ids[n] = i
    BY DEF SessionsToldOf
  <1> QED BY <1>2, <1>3, <1>4


\* What a packet does to the flows, as far as the sessions are concerned.
LEMMA PacketFlow ==
    ASSUME DeliveryInv, NEW k \in Keys, NEW from_lo \in BOOLEAN, NEW sig, NEW answers,
           NEW ts \in Nat, NEW event \in 0 .. 1, last_mono <= ts,
           k \in TcpKeys => sig \in TcpSignals,
           Ingest(k, from_lo, sig, answers, ts, event)
    PROVE  /\ next_flow_id \in Nat /\ next_flow_id' \in Nat /\ next_flow_id <= next_flow_id'
           /\ RecordAfter(k, from_lo, sig, ts).id \in 1 .. next_flow_id'
           /\ LiveIds \subseteq LiveIds'
  <1> DEFINE place == <<k, EpochFor(k, ts)>>
             r == RecordAfter(k, from_lo, sig, ts)
             n == EventsOf(r.id) + event
             ev == IF event = 1 THEN Append(r.events, n) ELSE r.events
             v == [r EXCEPT !.events = ev]
  <1>1. /\ flows' = With(flows, place, v)
        /\ next_flow_id' = IF place \in DOMAIN flows THEN next_flow_id ELSE next_flow_id + 1
    BY DEF Ingest, ShardIngest
  <1>2. /\ r \in FlowRecord
        /\ r.id = IF place \in DOMAIN flows THEN flows[place].id ELSE next_flow_id + 1
    BY RecordOfPacket DEF DeliveryInv
  <1>3. next_flow_id \in Nat /\ \A p \in DOMAIN flows : flows[p].id \in 1 .. next_flow_id
    BY DEF DeliveryInv, FlowInv, TableType, FlowIdsAreFresh, LiveIds
  <1> HIDE DEF place, r, ev
  <1>4. v.id = r.id
    BY <1>2 DEF FlowRecord
  <1> HIDE DEF v
  <1>5. /\ DOMAIN flows' = DOMAIN flows \cup {place} /\ flows'[place] = v
        /\ \A p \in DOMAIN flows : p # place => flows'[p] = flows[p]
    BY <1>1 DEF With
  <1>6. \A p \in DOMAIN flows : flows'[p].id = flows[p].id
    BY <1>2, <1>4, <1>5
  <1>7. LiveIds \subseteq LiveIds'
    BY <1>5, <1>6 DEF LiveIds
  <1> QED BY <1>1, <1>2, <1>3, <1>7 DEF r

\* A packet links its flow at most once, and to one lookup.
LEMMA IngestGroups ==
    ASSUME SessionInv, NEW k \in Keys, NEW from_lo \in BOOLEAN, NEW sig,
           NEW answers \in Answers, NEW ts \in Nat, NEW event \in 0 .. 1, last_mono <= ts,
           k \in TcpKeys => sig \in TcpSignals,
           Ingest(k, from_lo, sig, answers, ts, event)
    PROVE  Grouping'
  <1> DEFINE id == RecordAfter(k, from_lo, sig, ts).id
             known == Learned(answers, ts)
             lookup == known[Dst(k, from_lo)]
             link == [name |-> lookup.name, flow_id |-> id]
  <1>1. /\ next_flow_id \in Nat /\ next_flow_id' \in Nat /\ next_flow_id <= next_flow_id'
        /\ id \in 1 .. next_flow_id'
    BY PacketFlow DEF SessionInv
  <1>2. known \in [Ips -> {NoLookup} \cup [name : Names, at : Nat]]
    <2>1. CASE answers = << >>
      BY <2>1 DEF Learned, SessionInv, Grouping
    <2>2. CASE answers # << >>
      <3>1. \A ip \in DOMAIN answers : answers[ip] \in Names
        <4>1. answers \in UNION {[{ip} -> Names] : ip \in Ips}
          BY <2>2, Zenon DEF Answers
        <4>2. PICK ip \in Ips : answers \in [{ip} -> Names]
          BY <4>1, Zenon
        <4> QED BY <4>2
      <3>2. ASSUME NEW ip \in Ips PROVE known[ip] \in {NoLookup} \cup [name : Names, at : Nat]
        <4>1. CASE ip \in DOMAIN answers
          <5>1. known[ip] = [name |-> answers[ip], at |-> ts]
            BY <4>1 DEF Learned
          <5> QED BY <3>1, <4>1, <5>1
        <4>2. CASE ip \notin DOMAIN answers
          BY <4>2 DEF Learned, SessionInv, Grouping
        <4> QED BY <4>1, <4>2
      <3>3. known = [ip \in Ips |-> known[ip]]
        BY DEF Learned
      <3> HIDE DEF known
      <3> QED BY <3>2, <3>3
    <2> QED BY <2>1, <2>2
  <1>3. lookup \in {NoLookup} \cup [name : Names, at : Nat]
    <2>1. Dst(k, from_lo) \in Ips
      BY EngineAssumption DEF Dst
    <2> HIDE DEF known
    <2> QED BY <1>2, <2>1
  <1>4. /\ resolutions' = known
        /\ \/ /\ lookup # NoLookup /\ ~already_linked(id)
              /\ links' = links \cup {link}
              /\ groups' = [groups EXCEPT ![lookup.name] = Append(@, id)]
              /\ dirty_groups' = dirty_groups \cup {lookup.name}
           \/ UNCHANGED <<links, groups, dirty_groups>>
    BY DEF Ingest, Observe
  <1> HIDE DEF id, known, lookup
  <1>5. 1 .. next_flow_id \subseteq 1 .. next_flow_id'
    BY <1>1
  <1>6. /\ links \subseteq [name : Names, flow_id : 1 .. next_flow_id']
        /\ groups \in [Names -> Seq(1 .. next_flow_id')]
    <2>1. \A s \in Seq(1 .. next_flow_id) : s \in Seq(1 .. next_flow_id')
      BY <1>5, SeqOfMore
    <2> QED BY <1>5, <2>1 DEF SessionInv, Grouping
  <1>7. CASE UNCHANGED <<links, groups, dirty_groups>>
    BY <1>2, <1>4, <1>6, <1>7 DEF SessionInv, Grouping, LinksOf
  <1>8. CASE /\ lookup # NoLookup /\ ~already_linked(id)
             /\ links' = links \cup {link}
             /\ groups' = [groups EXCEPT ![lookup.name] = Append(@, id)]
             /\ dirty_groups' = dirty_groups \cup {lookup.name}
    <2> DEFINE n == lookup.name
    <2>1. n \in Names /\ link \in [name : Names, flow_id : 1 .. next_flow_id']
      BY <1>1, <1>3, <1>8
    <2>2. link.name = n /\ link.flow_id = id
      OBVIOUS
    <2>3. \A l \in links : l.flow_id # id
      BY <1>8 DEF already_linked
    <2> HIDE DEF n, link
    <2>4. /\ links' = links \cup {link}
          /\ groups' = [groups EXCEPT ![n] = Append(groups[n], id)]
          /\ dirty_groups' = dirty_groups \cup {n}
      BY <1>8 DEF n
    <2>5. /\ groups[n] \in Seq(1 .. next_flow_id')
          /\ Append(groups[n], id) \in Seq(1 .. next_flow_id')
          /\ Len(Append(groups[n], id)) = Len(groups[n]) + 1 /\ Len(groups[n]) \in Nat
          /\ Append(groups[n], id)[Len(groups[n]) + 1] = id
          /\ \A j \in 1 .. Len(groups[n]) : Append(groups[n], id)[j] = groups[n][j]
      BY <1>1, <1>6, <2>1
    <2>6. /\ groups' \in [Names -> Seq(1 .. next_flow_id')]
          /\ groups'[n] = Append(groups[n], id)
          /\ \A m \in Names : m # n => groups'[m] = groups[m]
      BY <1>6, <2>1, <2>4, <2>5
    <2>7. dirty_groups' \subseteq {m \in Names : groups'[m] # << >>}
      <3>1. groups'[n] # << >>
        BY <2>5, <2>6
      <3> QED BY <2>1, <2>4, <2>6, <3>1 DEF SessionInv, Grouping
    <2>8. \A l \in links' : \E j \in 1 .. Len(groups'[l.name]) : groups'[l.name][j] = l.flow_id
      <3> SUFFICES ASSUME NEW l \in links'
                   PROVE  \E j \in 1 .. Len(groups'[l.name]) : groups'[l.name][j] = l.flow_id
        OBVIOUS
      <3>1. CASE l = link
        <4>1. Len(groups[n]) + 1 \in 1 .. Len(groups'[n])
          BY <2>5, <2>6
        <4> QED BY <2>2, <2>5, <2>6, <3>1, <4>1
      <3>2. CASE l # link
        <4>1. /\ l \in links /\ l.name \in Names
              /\ \E j \in 1 .. Len(groups[l.name]) : groups[l.name][j] = l.flow_id
          BY <1>6, <2>4, <3>2 DEF SessionInv, Grouping
        <4>2. PICK j \in 1 .. Len(groups[l.name]) : groups[l.name][j] = l.flow_id
          BY <4>1
        <4>3. CASE l.name = n
          <5>1. j \in 1 .. Len(groups'[n]) /\ groups'[n][j] = groups[n][j]
            BY <2>5, <2>6, <4>2, <4>3
          <5> QED BY <4>2, <4>3, <5>1
        <4>4. CASE l.name # n
          BY <2>6, <4>1, <4>2, <4>4
        <4> QED BY <4>3, <4>4
      <3> QED BY <3>1, <3>2
    <2>9. \A l, m \in links' : l.flow_id = m.flow_id => l = m
      BY <2>2, <2>3, <2>4 DEF SessionInv, Grouping
    <2>10. ASSUME NEW m \in Names
           PROVE  IsFiniteSet(LinksOf(m)') /\ Cardinality(LinksOf(m)') = Len(groups'[m])
      <3>1. IsFiniteSet(LinksOf(m)) /\ Cardinality(LinksOf(m)) = Len(groups[m])
        BY DEF SessionInv, Grouping
      <3>2. CASE m = n
        <4>1. LinksOf(m)' = LinksOf(m) \cup {link} /\ link \notin LinksOf(m)
          BY <2>2, <2>3, <2>4, <3>2 DEF LinksOf
        <4>2. /\ IsFiniteSet(LinksOf(m) \cup {link})
              /\ Cardinality(LinksOf(m) \cup {link}) = Cardinality(LinksOf(m)) + 1
          BY <3>1, <4>1, FS_AddElement
        <4> QED BY <2>5, <2>6, <3>1, <3>2, <4>1, <4>2
      <3>3. CASE m # n
        <4>1. LinksOf(m)' = LinksOf(m)
          BY <2>2, <2>4, <3>3 DEF LinksOf
        <4> QED BY <2>6, <3>1, <3>3, <4>1
      <3> QED BY <3>2, <3>3
    <2>11. links' \subseteq [name : Names, flow_id : 1 .. next_flow_id']
      BY <1>6, <2>1, <2>4
    <2> QED BY <1>2, <1>4, <2>6, <2>7, <2>8, <2>9, <2>10, <2>11 DEF Grouping
  <1> QED BY <1>4, <1>7, <1>8


\* Every flow there is, is live or stored.
LEMMA KnownFlows ==
    ASSUME DeliveryInv
    PROVE  /\ next_flow_id \in Nat /\ LiveIds \cup DOMAIN stored = 1 .. next_flow_id
           /\ \A p, q \in DOMAIN flows : p # q => flows[p].id # flows[q].id
  BY DEF DeliveryInv, FlowInv, TableType, FlowIdsAreFresh

\* The sessions after the names were told their groups: the numbers still say who is who,
\* and the flows of a session are flows of its lookup.
LEMMA SessionsTold ==
    ASSUME SessionInv, ~ended, NEW names \in SUBSET Names,
           NEW f \in Numberings(Unassigned(names)), NEW ids, ids = IdsWith(f),
           next_session_id' = next_session_id + Cardinality(Unassigned(names)),
           stored_sessions' = SessionsToldOf(names, ids),
           UNCHANGED <<groups, next_flow_id>>,
           1 .. next_flow_id \subseteq DOMAIN stored'
    PROVE  /\ Numbered(ids, next_session_id')
           /\ ToldUnder(ids)'
           /\ (\A i, j \in DOMAIN stored_sessions :
                 stored_sessions[i].name = stored_sessions[j].name => i = j)'
           /\ SessionFlowsStored'
           /\ \A n \in names : /\ ids[n] \in DOMAIN stored_sessions'
                               /\ stored_sessions'[ids[n]].name = n
                               /\ stored_sessions'[ids[n]].flow_ids = groups[n]
  <1> DEFINE last == next_session_id + Cardinality(Unassigned(names))
  <1>1. /\ Numbered(ids, last)
        /\ \A n \in names : ids[n] # 0
        /\ \A n \in Names : assigned_ids[n] # 0 => ids[n] = assigned_ids[n]
    BY NumberingFact DEF SessionInv
  <1>2. next_session_id' = last
    OBVIOUS
  <1> HIDE DEF last
  <1>3. stored_sessions' = SessionsToldOf(names, ids)
    OBVIOUS
  <1>4. /\ \A i : i \in DOMAIN stored_sessions' <=>
                     i \in DOMAIN stored_sessions \/ \E n \in names : ids[n] = i
        /\ \A n \in names : /\ stored_sessions'[ids[n]].name = n
                            /\ stored_sessions'[ids[n]].flow_ids = groups[n]
        /\ \A i \in DOMAIN stored_sessions :
              (\A n \in names : ids[n] # i) => stored_sessions'[i] = stored_sessions[i]
    <2>1. Numbered(ids, last) /\ \A n \in names : ids[n] # 0
      BY <1>1
    <2> HIDE DEF Numbered
    <2> QED BY <1>3, <2>1, ToldFact
  <1>5. \A i \in DOMAIN stored_sessions :
           /\ i # 0 /\ stored_sessions[i].name \in Names
           /\ assigned_ids[stored_sessions[i].name] = i
    BY DEF SessionInv, ToldUnder
  <1>6. ASSUME NEW i \in DOMAIN stored_sessions'
        PROVE  /\ i # 0 /\ stored_sessions'[i].name \in Names
               /\ ids[stored_sessions'[i].name] = i
               /\ \A j \in 1 .. Len(stored_sessions'[i].flow_ids) :
                     stored_sessions'[i].flow_ids[j] \in DOMAIN stored'
    <2>1. CASE \E n \in names : ids[n] = i
      <3> PICK n \in names : ids[n] = i
        BY <2>1
      <3>1. stored_sessions'[i].name = n /\ stored_sessions'[i].flow_ids = groups[n]
        BY <1>4
      <3>2. groups[n] \in Seq(1 .. next_flow_id)
        BY DEF SessionInv, Grouping
      <3>3. \A j \in 1 .. Len(groups[n]) : groups[n][j] \in 1 .. next_flow_id
        BY <3>2, SeqElements
      <3> QED BY <1>1, <3>1, <3>3
    <2>2. CASE \A n \in names : ids[n] # i
      <3>1. i \in DOMAIN stored_sessions /\ stored_sessions'[i] = stored_sessions[i]
        BY <1>4, <2>2
      <3>2. DOMAIN stored \subseteq DOMAIN stored'
        BY KnownFlows DEF SessionInv
      <3> QED BY <1>1, <1>5, <3>1, <3>2 DEF SessionInv, SessionFlowsStored
    <2> QED BY <2>1, <2>2
  <1>7. ToldUnder(ids)'
    BY <1>6 DEF ToldUnder
  <1>8. \A i, j \in DOMAIN stored_sessions' :
           stored_sessions'[i].name = stored_sessions'[j].name => i = j
    BY <1>6
  <1>9. SessionFlowsStored'
    BY <1>6 DEF SessionFlowsStored
  <1>10. \A n \in names : /\ ids[n] \in DOMAIN stored_sessions'
                          /\ stored_sessions'[ids[n]].name = n
                          /\ stored_sessions'[ids[n]].flow_ids = groups[n]
    BY <1>4
  <1> QED BY <1>1, <1>2, <1>7, <1>8, <1>9, <1>10


\* One packet.
LEMMA IngestSession ==
    ASSUME SessionInv, NEW k \in Keys, NEW from_lo \in BOOLEAN, NEW sig,
           NEW answers \in Answers, NEW ts \in Nat, NEW event \in 0 .. 1, last_mono <= ts,
           k \in TcpKeys => sig \in TcpSignals,
           Ingest(k, from_lo, sig, answers, ts, event), DeliveryInv'
    PROVE  SessionInv'
  <1>1. Grouping'
    BY IngestGroups
  <1>2. LiveIds \subseteq LiveIds'
    BY PacketFlow DEF SessionInv
  <1>3. /\ ~ended /\ ~ended'
        /\ UNCHANGED <<stored, stored_sessions, assigned_ids, next_session_id>>
    BY DEF Ingest, Observe
  <1>4. (Numbered(assigned_ids, next_session_id) /\ ToldUnder(assigned_ids))'
    BY <1>3 DEF SessionInv, Numbered, ToldUnder
  <1>5. (\A i \in DOMAIN stored : i \in LiveIds \/ stored[i].sealed)'
    BY <1>2, <1>3 DEF SessionInv
  <1>6. SessionFlowsStored' /\ FinishKeepsAll'
    BY <1>3 DEF SessionInv, SessionFlowsStored, FinishKeepsAll
  <1>7. (\A i, j \in DOMAIN stored_sessions :
           stored_sessions[i].name = stored_sessions[j].name => i = j)'
    BY <1>3 DEF SessionInv
  <1> QED BY <1>1, <1>3, <1>4, <1>5, <1>6, <1>7 DEF SessionInv

\* A tick: every flow a group has is stored by now, and the dirty groups are told.
LEMMA CommitSession ==
    ASSUME SessionInv, Commit, DeliveryInv' PROVE SessionInv'
  <1> DEFINE closed == ClosedPlaces(last_mono)
             open == DOMAIN flows \ closed
             places == closed \cup DirtyPlaces
  <1>1. /\ ~ended /\ ~ended'
        /\ next_session_id' = next_session_id + Cardinality(Unassigned(dirty_groups))
        /\ dirty_groups' = {}
        /\ UNCHANGED <<next_flow_id, resolutions, links, groups>>
    BY DEF Commit
  <1>2. flows' = [p \in open |-> IF p \in DirtyPlaces THEN TakenEvents(flows[p]) ELSE flows[p]]
    BY DEF Commit
  <1>3. stored' = Delivered(places, closed)
    BY DEF Commit
  <1>4. PICK f \in Numberings(Unassigned(dirty_groups)) :
              /\ assigned_ids' = IdsWith(f)
              /\ stored_sessions' = SessionsToldOf(dirty_groups, IdsWith(f))
    BY DEF Commit
  <1>5. /\ next_flow_id \in Nat /\ LiveIds \cup DOMAIN stored = 1 .. next_flow_id
        /\ \A p, q \in DOMAIN flows : p # q => flows[p].id # flows[q].id
    BY KnownFlows DEF SessionInv
  <1>6. places \subseteq DOMAIN flows /\ open \cup closed = DOMAIN flows /\ closed \subseteq places
    BY DEF ClosedPlaces, DirtyPlaces
  <1>7. /\ DOMAIN stored' = DOMAIN stored \cup {flows[p].id : p \in places}
        /\ \A p \in places : stored'[flows[p].id].sealed <=> p \in closed
        /\ \A i \in DOMAIN stored :
              (\A p \in places : flows[p].id # i) => stored'[i] = stored[i]
    <2> HIDE DEF places, closed, open
    <2> QED BY <1>3, <1>5, <1>6, DeliveredFact
  <1>8. \A p \in open : flows'[p].id = flows[p].id
    <2>1. ASSUME NEW p \in open PROVE flows[p] \in FlowRecord
      BY DEF SessionInv, DeliveryInv, FlowInv, TableType
    <2>2. ASSUME NEW p \in open PROVE TakenEvents(flows[p]).id = flows[p].id
      BY <2>1 DEF TakenEvents, FlowRecord
    <2> QED BY <1>2, <2>2
  <1>9. \A p \in DOMAIN flows \ places : flows[p].id \in DOMAIN stored
    BY <1>6 DEF DirtyPlaces, SessionInv, DeliveryInv, CleanMeansStored
  <1>10. DOMAIN flows' = open
    BY <1>2
  <1> HIDE DEF open, closed, places
  <1>11. 1 .. next_flow_id \subseteq DOMAIN stored'
    <2> SUFFICES ASSUME NEW i \in LiveIds PROVE i \in DOMAIN stored'
      BY <1>5, <1>7
    <2>1. PICK p \in DOMAIN flows : flows[p].id = i
      BY DEF LiveIds
    <2> QED BY <1>7, <1>9, <2>1
  <1>12. \A i \in DOMAIN stored' : i \in LiveIds' \/ stored'[i].sealed
    <2> SUFFICES ASSUME NEW i \in DOMAIN stored' PROVE i \in LiveIds' \/ stored'[i].sealed
      OBVIOUS
    <2>1. CASE i \in LiveIds
      <3>1. PICK p \in DOMAIN flows : flows[p].id = i
        BY <2>1 DEF LiveIds
      <3>2. CASE p \in closed
        BY <1>6, <1>7, <3>1, <3>2
      <3>3. CASE p \in open
        <4>1. flows'[p].id = i
          BY <1>8, <3>1, <3>3
        <4> QED BY <1>10, <3>3, <4>1 DEF LiveIds
      <3> QED BY <1>6, <3>2, <3>3
    <2>2. CASE i \notin LiveIds
      <3>1. \A p \in places : flows[p].id # i
        BY <1>6, <2>2 DEF LiveIds
      <3> QED BY <1>7, <2>2, <3>1 DEF SessionInv
    <2> QED BY <2>1, <2>2
  <1>13. Grouping'
    BY <1>1 DEF SessionInv, Grouping, LinksOf
  <1>14. /\ Numbered(assigned_ids', next_session_id')
         /\ ToldUnder(assigned_ids)'
         /\ (\A i, j \in DOMAIN stored_sessions :
               stored_sessions[i].name = stored_sessions[j].name => i = j)'
         /\ SessionFlowsStored'
    <2> PICK ids : ids = IdsWith(f)
      OBVIOUS
    <2>1. dirty_groups \in SUBSET Names /\ UNCHANGED <<groups, next_flow_id>>
      BY <1>1 DEF SessionInv, Grouping
    <2>2. ids = IdsWith(f) /\ assigned_ids' = ids
          /\ stored_sessions' = SessionsToldOf(dirty_groups, ids)
      BY <1>4
    <2>3. /\ Numbered(ids, next_session_id') /\ ToldUnder(ids)'
          /\ (\A i, j \in DOMAIN stored_sessions :
               stored_sessions[i].name = stored_sessions[j].name => i = j)'
          /\ SessionFlowsStored'
      <3>1. f \in Numberings(Unassigned(dirty_groups))
        BY <1>4
      <3> QED BY <1>1, <1>11, <2>1, <2>2, <3>1, SessionsTold
    <2> QED BY <2>2, <2>3 DEF ToldUnder
  <1>15. FinishKeepsAll'
    BY <1>1 DEF FinishKeepsAll
  <1> QED BY <1>1, <1>12, <1>13, <1>14, <1>15 DEF SessionInv, Numbered


\* The end: every flow is final, and every group is told, under the numbers given now.
LEMMA FinishSession ==
    ASSUME SessionInv, Finish, DeliveryInv' PROVE SessionInv'
  <1> DEFINE places == DOMAIN flows
  <1>1. /\ ~ended /\ ended' /\ DOMAIN flows' = {}
        /\ next_session_id' = next_session_id + Cardinality(Unassigned(Grouped))
        /\ UNCHANGED <<next_flow_id, resolutions, links, groups, dirty_groups>>
    BY DEF Finish
  <1>2. stored' = Delivered(places, places)
    BY DEF Finish
  <1>3. PICK f \in Numberings(Unassigned(Grouped)) :
              stored_sessions' = SessionsToldOf(Grouped, IdsWith(f))
    BY DEF Finish
  <1>4. /\ next_flow_id \in Nat /\ LiveIds \cup DOMAIN stored = 1 .. next_flow_id
        /\ \A p, q \in DOMAIN flows : p # q => flows[p].id # flows[q].id
    BY KnownFlows DEF SessionInv
  <1>5. places \subseteq DOMAIN flows /\ LiveIds = {flows[p].id : p \in places}
    BY DEF LiveIds
  <1>6. /\ DOMAIN stored' = DOMAIN stored \cup {flows[p].id : p \in places}
        /\ \A p \in places : stored'[flows[p].id].sealed <=> p \in places
        /\ \A i \in DOMAIN stored :
              (\A p \in places : flows[p].id # i) => stored'[i] = stored[i]
    <2> HIDE DEF places
    <2> QED BY <1>2, <1>4, <1>5, DeliveredFact
  <1> HIDE DEF places
  <1>7. DOMAIN stored' = 1 .. next_flow_id
    BY <1>4, <1>5, <1>6
  <1>8. \A i \in DOMAIN stored' : stored'[i].sealed
    <2> SUFFICES ASSUME NEW i \in DOMAIN stored' PROVE stored'[i].sealed
      OBVIOUS
    <2>1. CASE \E p \in places : flows[p].id = i
      BY <1>6, <2>1
    <2>2. CASE \A p \in places : flows[p].id # i
      BY <1>5, <1>6, <2>2 DEF SessionInv
    <2> QED BY <2>1, <2>2
  <1>9. Grouping'
    BY <1>1 DEF SessionInv, Grouping, LinksOf
  <1> PICK ids : ids = IdsWith(f)
    OBVIOUS
  <1>10. /\ (\A i, j \in DOMAIN stored_sessions :
               stored_sessions[i].name = stored_sessions[j].name => i = j)'
         /\ SessionFlowsStored'
         /\ \A n \in Grouped : /\ ids[n] \in DOMAIN stored_sessions'
                               /\ stored_sessions'[ids[n]].name = n
                               /\ stored_sessions'[ids[n]].flow_ids = groups[n]
    <2>1. Grouped \in SUBSET Names
      BY DEF Grouped
    <2>2. stored_sessions' = SessionsToldOf(Grouped, ids) /\ f \in Numberings(Unassigned(Grouped))
      BY <1>3
    <2>3. UNCHANGED <<groups, next_flow_id>> /\ 1 .. next_flow_id \subseteq DOMAIN stored'
      BY <1>1, <1>7
    <2> QED BY <1>1, <2>1, <2>2, <2>3, SessionsTold
  <1>11. ASSUME NEW l \in links
         PROVE  \E i \in DOMAIN stored_sessions' :
                   /\ stored_sessions'[i].name = l.name
                   /\ \E n \in 1 .. Len(stored_sessions'[i].flow_ids) :
                         stored_sessions'[i].flow_ids[n] = l.flow_id
    <2>1. /\ l.name \in Names /\ groups[l.name] \in Seq(1 .. next_flow_id)
          /\ \E j \in 1 .. Len(groups[l.name]) : groups[l.name][j] = l.flow_id
      BY DEF SessionInv, Grouping
    <2>2. groups[l.name] # << >>
      BY <2>1
    <2>3. l.name \in Grouped
      BY <2>1, <2>2 DEF Grouped
    <2> QED BY <1>10, <2>1, <2>3
  <1>12. FinishKeepsAll'
    BY <1>1, <1>7, <1>8, <1>11 DEF FinishKeepsAll
  <1> QED BY <1>1, <1>8, <1>9, <1>10, <1>12 DEF SessionInv

LEMMA SessionStarts == ASSUME Init PROVE SessionInv
  <1>1. /\ DOMAIN flows = {} /\ DOMAIN stored = {} /\ DOMAIN stored_sessions = {}
        /\ links = {} /\ dirty_groups = {} /\ next_flow_id = 0 /\ next_session_id = 0
        /\ resolutions = [ip \in Ips |-> NoLookup]
        /\ groups = [n \in Names |-> << >>] /\ assigned_ids = [n \in Names |-> 0]
        /\ ~ended
    BY DEF Init
  <1>2. \A n \in Names : IsFiniteSet(LinksOf(n)) /\ Cardinality(LinksOf(n)) = Len(groups[n])
    <2>1. \A n \in Names : LinksOf(n) = {} /\ Len(groups[n]) = 0
      BY <1>1 DEF LinksOf
    <2> QED BY <2>1, FS_EmptySet
  <1>3. Grouping
    BY <1>1, <1>2 DEF Grouping
  <1>4. Numbered(assigned_ids, next_session_id) /\ ToldUnder(assigned_ids)
    BY <1>1 DEF Numbered, ToldUnder
  <1>5. DeliveryInv
    BY DeliveryStarts
  <1>6. SessionFlowsStored /\ FinishKeepsAll
    BY <1>1 DEF SessionFlowsStored, FinishKeepsAll
  <1> QED BY <1>1, <1>3, <1>4, <1>5, <1>6 DEF SessionInv

LEMMA TcpSession == ASSUME SessionInv, IngestTcp, DeliveryInv' PROVE SessionInv'
  <1>1. PICK k \in TcpKeys, from_lo \in BOOLEAN, sig \in Segments,
             ts \in last_mono .. MaxTime, event \in 0 .. 1 :
                Ingest(k, from_lo, sig, << >>, ts, event)
    BY Zenon DEF IngestTcp
  <1>2. k \in Keys /\ sig \in TcpSignals /\ ts \in Nat /\ last_mono <= ts
    BY EngineAssumption DEF Keys, SessionInv, DeliveryInv, FlowInv, TableType
  <1>3. << >> \in Answers
    BY DEF Answers
  <1> QED BY <1>1, <1>2, <1>3, IngestSession

LEMMA UdpSession == ASSUME SessionInv, IngestUdp, DeliveryInv' PROVE SessionInv'
  <1>1. PICK k \in UdpKeys, from_lo \in BOOLEAN, answers \in Answers,
             ts \in last_mono .. MaxTime, event \in 0 .. 1 :
                Ingest(k, from_lo, "none", answers, ts, event)
    BY Zenon DEF IngestUdp
  <1>2. k \in Keys /\ k \notin TcpKeys /\ ts \in Nat /\ last_mono <= ts
    BY EngineAssumption DEF Keys, SessionInv, DeliveryInv, FlowInv, TableType
  <1> QED BY <1>1, <1>2, IngestSession

LEMMA SessionStep == ASSUME SessionInv, [Next]_vars PROVE SessionInv'
  <1>1. DeliveryInv'
    BY DeliveryStep DEF SessionInv
  <1>2. CASE Next
    BY <1>1, <1>2, TcpSession, UdpSession, CommitSession, FinishSession DEF Next
  <1>3. CASE UNCHANGED vars
    <2>1. Grouping'
      BY <1>3 DEF vars, table, sessions, SessionInv, Grouping, LinksOf
    <2>2. FinishKeepsAll' /\ SessionFlowsStored'
      BY <1>3 DEF vars, table, sessions, SessionInv, FinishKeepsAll, SessionFlowsStored
    <2>3. (~ended => Numbered(assigned_ids, next_session_id) /\ ToldUnder(assigned_ids))'
      BY <1>3 DEF vars, sessions, SessionInv, Numbered, ToldUnder
    <2> QED BY <1>1, <1>3, <2>1, <2>2, <2>3 DEF vars, table, SessionInv, LiveIds
  <1> QED BY <1>2, <1>3

\* The inductive invariant of the sessions: the links and the groups agree, no two lookups
\* share a number, and the store was told each session under the number of its lookup
\* (session.rs observe and snapshot_dirty, pipeline.rs finish).
THEOREM SessionInvariant == Spec => []SessionInv
  <1>1. Init => SessionInv
    BY SessionStarts
  <1>2. SessionInv /\ [Next]_vars => SessionInv'
    BY SessionStep
  <1> QED BY <1>1, <1>2, PTL DEF Spec

\* A session the store holds refers to flows the store holds, a flow is linked to one
\* lookup and counted there once, and a lookup has one session (session.rs observe and
\* snapshot_dirty, pipeline.rs commit_to_store).
THEOREM SessionsStaySound == Spec => []SessionsAreSound
  <1>1. SessionInv => SessionsAreSound
    BY DEF SessionInv, Grouping, LinksOf, SessionsAreSound, OneSessionPerFlow
  <1> QED BY <1>1, SessionInvariant, PTL

\* When the capture has ended every flow it saw is stored as final, and every link found is
\* in the session of its lookup (pipeline.rs finish).
THEOREM FinishLosesNothing == Spec => []FinishKeepsAll
  <1>1. SessionInv => FinishKeepsAll
    BY DEF SessionInv
  <1> QED BY <1>1, SessionInvariant, PTL

\* The types of what the store was told, and of the numbers once the capture has ended.
ToldTypes ==
    /\ \A i \in DOMAIN stored : stored[i] \in StoredFlow
    /\ \A i \in DOMAIN stored_sessions :
          stored_sessions[i] \in [name : Names, flow_ids : Seq(Nat)]
    /\ assigned_ids \in [Names -> Nat] /\ next_session_id \in Nat
    /\ ended \in BOOLEAN

\* A record in one of the states has a flow state to tell.
LEMMA SnapshotType ==
    ASSUME ToldTypes, NEW r \in FlowRecord, NEW S, NEW p
    PROVE  Snapshot(r, p \in S) \in StoredFlow
  <1>1. FlowState(r.tcp_state) \in {"SynSeen", "Established", "Closing", "Closed", "Datagram"}
    <2>1. r.tcp_state \in TcpState \cup {"none"}
      BY DEF FlowRecord
    <2>2. ASSUME NEW s \in TcpState \cup {"none"}
          PROVE  FlowState(s) \in {"SynSeen", "Established", "Closing", "Closed", "Datagram"}
      BY DEF FlowState, TcpState, Terminal
    <2> QED BY <2>1, <2>2
  <1>2. r.last_ts \in Nat /\ r.events \in Seq(Nat)
    BY DEF FlowRecord
  <1> DEFINE old == IF r.id \in DOMAIN stored THEN stored[r.id].events ELSE << >>
  <1>3. old \in Seq(Nat)
    BY DEF ToldTypes, StoredFlow
  <1>4. Snapshot(r, p \in S) = [state |-> FlowState(r.tcp_state), last_ts |-> r.last_ts,
                                events |-> old \o r.events, sealed |-> p \in S]
    BY Zenon DEF Snapshot
  <1>5. old \o r.events \in Seq(Nat)
    BY <1>2, <1>3
  <1>6. ASSUME NEW s \in {"SynSeen", "Established", "Closing", "Closed", "Datagram"},
               NEW t \in Nat, NEW e \in Seq(Nat), NEW b \in BOOLEAN
        PROVE  [state |-> s, last_ts |-> t, events |-> e, sealed |-> b] \in StoredFlow
    BY DEF StoredFlow
  <1>7. (p \in S) \in BOOLEAN
    OBVIOUS
  <1> HIDE DEF old
  <1>8. [state |-> FlowState(r.tcp_state), last_ts |-> r.last_ts,
         events |-> old \o r.events, sealed |-> p \in S] \in StoredFlow
    BY <1>1, <1>2, <1>5, <1>6, <1>7, Zenon
  <1> QED BY <1>4, <1>8, Zenon

LEMMA DeliveredTypes ==
    ASSUME ToldTypes, NEW places, NEW final,
           \A p \in places : flows[p] \in FlowRecord
    PROVE  \A i \in DOMAIN Delivered(places, final) : Delivered(places, final)[i] \in StoredFlow
  <1> DEFINE ids == {r.id : r \in Recs(places)}
  <1>1. Delivered(places, final) =
           [i \in DOMAIN stored \cup ids |->
               IF i \in ids
               THEN LET p == CHOOSE q \in places : flows[q].id = i
                    IN  Snapshot(flows[p], p \in final)
               ELSE stored[i]]
    BY DEF Delivered
  <1>2. ASSUME NEW i \in ids
        PROVE  (CHOOSE q \in places : flows[q].id = i) \in places
    BY DEF Recs
  <1> HIDE DEF ids
  <1>3. ASSUME NEW i \in ids PROVE Delivered(places, final)[i] \in StoredFlow
    <2> PICK p : p = CHOOSE q \in places : flows[q].id = i
      OBVIOUS
    <2>1. Snapshot(flows[p], p \in final) \in StoredFlow
      BY <1>2, SnapshotType
    <2> QED BY <1>1, <2>1
  <1>4. ASSUME NEW i \in DOMAIN stored, i \notin ids
        PROVE  Delivered(places, final)[i] \in StoredFlow
    BY <1>1, <1>4 DEF ToldTypes
  <1>5. DOMAIN Delivered(places, final) = DOMAIN stored \cup ids
    BY <1>1
  <1> QED BY <1>3, <1>4, <1>5

LEMMA SessionTypes ==
    ASSUME SessionInv, ~ended, ToldTypes, NEW names \in SUBSET Names,
           NEW f \in Numberings(Unassigned(names))
    PROVE  /\ IdsWith(f) \in [Names -> Nat]
           /\ next_session_id + Cardinality(Unassigned(names)) \in Nat
           /\ \A i \in DOMAIN SessionsToldOf(names, IdsWith(f)) :
                 SessionsToldOf(names, IdsWith(f))[i] \in [name : Names, flow_ids : Seq(Nat)]
  <1>1. Numbered(IdsWith(f), next_session_id + Cardinality(Unassigned(names)))
    BY NumberingFact DEF SessionInv
  <1>2. ASSUME NEW n \in Names PROVE groups[n] \in Seq(Nat)
    <2>1. groups[n] \in Seq(1 .. next_flow_id) /\ next_flow_id \in Nat
      BY KnownFlows DEF SessionInv, Grouping
    <2> QED BY <2>1, SeqOfMore
  <1> PICK ids : ids = IdsWith(f)
    OBVIOUS
  <1> DEFINE told == SessionsToldOf(names, ids)
  <1>3. ASSUME NEW i \in DOMAIN told PROVE told[i] \in [name : Names, flow_ids : Seq(Nat)]
    <2>1. CASE \E n \in names : ids[n] = i
      <3> PICK n : n = CHOOSE m \in names : ids[m] = i
        OBVIOUS
      <3>1. n \in names
        BY <2>1
      <3>2. told[i] = [name |-> n, flow_ids |-> groups[n]]
        BY <2>1 DEF SessionsToldOf
      <3> QED BY <1>2, <3>1, <3>2
    <2>2. CASE ~ \E n \in names : ids[n] = i
      <3>1. i \in DOMAIN stored_sessions /\ told[i] = stored_sessions[i]
        BY <2>2 DEF SessionsToldOf
      <3> QED BY <3>1 DEF ToldTypes
    <2> QED BY <2>1, <2>2
  <1> QED BY <1>1, <1>3 DEF Numbered

LEMMA ToldStep ==
    ASSUME SessionInv, ToldTypes, [Next]_vars PROVE ToldTypes'
  <1>1. \A p \in DOMAIN flows : flows[p] \in FlowRecord
    BY DEF SessionInv, DeliveryInv, FlowInv, TableType
  <1>2. CASE IngestTcp \/ IngestUdp
    <2>1. \E k, from_lo, sig, answers, ts, event : Ingest(k, from_lo, sig, answers, ts, event)
      BY <1>2, Zenon DEF IngestTcp, IngestUdp
    <2>2. UNCHANGED <<stored, stored_sessions, assigned_ids, next_session_id, ended>>
      BY <2>1 DEF Ingest, Observe
    <2> QED BY <2>2 DEF ToldTypes
  <1>3. CASE Commit
    <2> DEFINE places == ClosedPlaces(last_mono) \cup DirtyPlaces
    <2>1. /\ ~ended /\ stored' = Delivered(places, ClosedPlaces(last_mono)) /\ ended' = ended
          /\ next_session_id' = next_session_id + Cardinality(Unassigned(dirty_groups))
      BY <1>3 DEF Commit
    <2>2. PICK f \in Numberings(Unassigned(dirty_groups)) :
                /\ assigned_ids' = IdsWith(f)
                /\ stored_sessions' = SessionsToldOf(dirty_groups, IdsWith(f))
      BY <1>3 DEF Commit
    <2>3. \A p \in places : flows[p] \in FlowRecord
      BY <1>1 DEF ClosedPlaces, DirtyPlaces
    <2>4. dirty_groups \in SUBSET Names
      BY DEF SessionInv, Grouping
    <2> HIDE DEF places
    <2>5. \A i \in DOMAIN stored' : stored'[i] \in StoredFlow
      BY <2>1, <2>3, DeliveredTypes
    <2>6. /\ assigned_ids' \in [Names -> Nat] /\ next_session_id' \in Nat
          /\ \A i \in DOMAIN stored_sessions' :
                stored_sessions'[i] \in [name : Names, flow_ids : Seq(Nat)]
      BY <2>1, <2>2, <2>4, SessionTypes
    <2> QED BY <2>1, <2>5, <2>6 DEF ToldTypes
  <1>4. CASE Finish
    <2>1. /\ ~ended /\ stored' = Delivered(DOMAIN flows, DOMAIN flows) /\ ended' = TRUE
          /\ next_session_id' = next_session_id + Cardinality(Unassigned(Grouped))
          /\ assigned_ids' = assigned_ids
      BY <1>4 DEF Finish
    <2>2. PICK f \in Numberings(Unassigned(Grouped)) :
                stored_sessions' = SessionsToldOf(Grouped, IdsWith(f))
      BY <1>4 DEF Finish
    <2>3. Grouped \in SUBSET Names
      BY DEF Grouped
    <2>4. \A i \in DOMAIN stored' : stored'[i] \in StoredFlow
      BY <1>1, <2>1, DeliveredTypes
    <2>5. /\ next_session_id' \in Nat
          /\ \A i \in DOMAIN stored_sessions' :
                stored_sessions'[i] \in [name : Names, flow_ids : Seq(Nat)]
      BY <2>1, <2>2, <2>3, SessionTypes
    <2> QED BY <2>1, <2>4, <2>5 DEF ToldTypes
  <1>5. CASE UNCHANGED vars
    BY <1>5 DEF vars, sessions, ToldTypes
  <1> QED BY <1>2, <1>3, <1>4, <1>5 DEF Next

\* The flows, the lookups, the sessions and what the store was told of them keep their
\* types; in particular the number of the last session stays one, though the end of the
\* capture drops the numbers it gives (table.rs Shard, session.rs SessionReconstructor,
\* pipeline.rs finish).
THEOREM FlowTypes == Spec => []TypeOK
  <1>1. Init => SessionInv /\ ToldTypes
    <2> SUFFICES ASSUME Init PROVE ToldTypes
      BY SessionStarts
    <2>1. /\ DOMAIN stored = {} /\ DOMAIN stored_sessions = {} /\ ended = FALSE
          /\ assigned_ids = [n \in Names |-> 0] /\ next_session_id = 0
      BY DEF Init
    <2> QED BY <2>1 DEF ToldTypes
  <1>2. (SessionInv /\ ToldTypes) /\ [Next]_vars => (SessionInv /\ ToldTypes)'
    BY SessionStep, ToldStep
  <1>3. ASSUME SessionInv, ToldTypes PROVE TypeOK
    <2>1. /\ DOMAIN flows \subseteq Keys \X Nat
          /\ \A p \in DOMAIN flows : flows[p] \in FlowRecord
          /\ epochs \in [Keys -> Nat] /\ next_flow_id \in Nat /\ last_mono \in Nat
          /\ DOMAIN emitted = 1 .. next_flow_id
      BY <1>3 DEF SessionInv, DeliveryInv, FlowInv, TableType
    <2>2. /\ resolutions \in [Ips -> {NoLookup} \cup [name : Names, at : Nat]]
          /\ links \subseteq [name : Names, flow_id : 1 .. next_flow_id]
          /\ groups \in [Names -> Seq(1 .. next_flow_id)] /\ dirty_groups \subseteq Names
      BY <1>3 DEF SessionInv, Grouping
    <2>3. resolutions \in [Ips -> [name : Names \cup {"none"}, at : Nat]]
      BY <2>2 DEF NoLookup
    <2>4. links \subseteq [name : Names, flow_id : Nat]
      BY <2>1, <2>2
    <2>5. groups \in [Names -> Seq(Nat)]
      <3>1. \A n \in Names : groups[n] \in Seq(Nat)
        BY <2>1, <2>2, SeqOfMore
      <3> QED BY <2>2, <3>1
    <2> QED BY <1>3, <2>1, <2>2, <2>3, <2>4, <2>5 DEF TypeOK, ToldTypes
  <1> QED BY <1>1, <1>2, <1>3, PTL DEF Spec
===============================================================================
