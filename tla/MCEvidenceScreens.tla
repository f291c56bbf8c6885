-------------------------- MODULE MCEvidenceScreens --------------------------
(* Values for the constants of EvidenceScreens that a .cfg cannot write. *)
EXTENDS EvidenceScreens, TLC

Cited(kind, id) == <<[kind |-> kind, id |-> id]>>

\* Cards that are told apart by category, protocol, severity, evidence and words.
Handshake == [id |-> 1, category |-> "none", protocol |-> "TLS", severity |-> "neutral",
              evidence |-> Cited("flow", 1), text |-> {}, words |-> {"x"}]
Lookup == [id |-> 2, category |-> "dns", protocol |-> "none", severity |-> "neutral",
           evidence |-> Cited("packet", 2), text |-> {"performance"}, words |-> {}]
Intrusion == [id |-> 3, category |-> "none", protocol |-> "none", severity |-> "finding",
              evidence |-> Cited("flow", 3), text |-> {}, words |-> {}]
Slowness == [id |-> 4, category |-> "none", protocol |-> "TCP", severity |-> "notable",
             evidence |-> Cited("session", 4), text |-> {"performance"}, words |-> {"x"}]
PossibleFeeds == {<<>>, <<Handshake, Lookup>>, <<Slowness, Handshake>>, <<Slowness, Intrusion>>}
PossibleDiagnoses == {NoDiagnosis, [severity |-> "finding", evidence |-> Cited("flow", 3)],
                      [severity |-> "notable", evidence |-> <<>>]}

\* Two events share a time and a headline.
PossibleEvents ==
    {[id |-> 1, at |-> 1, headline |-> "dns", severity |-> "neutral", packet |-> 7],
     [id |-> 2, at |-> 1, headline |-> "dns", severity |-> "notable", packet |-> 0],
     [id |-> 3, at |-> 2, headline |-> "scan", severity |-> "finding", packet |-> 0],
     [id |-> 4, at |-> 3, headline |-> "tls", severity |-> "notable", packet |-> 8]}
FollowedRefs == {[kind |-> "packet", id |-> 7], [kind |-> "session", id |-> 1], [kind |-> "flow", id |-> 1], [kind |-> "flow", id |-> 2]}

StageCounts == <<2, 1>>
Endpoints == <<"x", "x">>
\* Two processes of one name, which is inside that of the bucket of nobody.
NamedAlike == {[pid |-> 1, name |-> "flow"], [pid |-> 2, name |-> "flow"]}
InsideNames == {<<"flow", "unattributed_flows">>}

ChainHops == <<"device", "dns">>
PossibleSnapshots ==
    {[telemetry |-> "active", rates |-> ("p" :> 1 @@ "q" :> 2), target |-> "t", status |-> "healthy",
      edges |-> <<[source |-> "h", destination |-> "w", class |-> "EXTERNAL_WAN", direction |-> "outgoing"],
                  [source |-> "h", destination |-> "c", class |-> "CDN_EDGE", direction |-> "outgoing"],
                  [source |-> "l", destination |-> "h", class |-> "LOCAL_SUBNET", direction |-> "local"]>>],
     [telemetry |-> "stale", rates |-> ("p" :> 2), target |-> "", status |-> "warning", edges |-> <<>>]}
=============================================================================
