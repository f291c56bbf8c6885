------------------------------ MODULE NameHints ------------------------------
(***************************************************************************)
(* Names of addresses: the table of names seen on the wire                 *)
(* (netpulse-flow, resolution.rs), the thread that asks the machine for    *)
(* the names it knows (LiveLoopContext of the shell's main.rs), and the    *)
(* commits by which both reach the names of the committed store.           *)
(*                                                                         *)
(* A packet with several answers is as many packets: no commit comes       *)
(* between them.                                                           *)
(***************************************************************************)
EXTENDS Integers, Sequences, FiniteSets

CONSTANTS
    Ips,            \* addresses, in the order of the table's keys
    HintedIps,      \* those the machine may have a name for
    Names,          \* the texts of names
    WireSources,    \* NameSource: Dns and Sni
    HintSources,    \* NameSource: HostsFile and OsResolver
    MAX_RESOLUTIONS,
    MaxCaptures,    \* bound: captures
    MaxWorkers      \* bound: hint workers ever spawned

ASSUME NamesAssumption ==
    /\ Ips \subseteq Nat /\ IsFiniteSet(Ips) /\ HintedIps \subseteq Ips
    /\ WireSources \cap HintSources = {}
    /\ {MAX_RESOLUTIONS, MaxCaptures, MaxWorkers} \subseteq Nat \ {0}

VARIABLES
    by_ip,          \* ResolutionTable: address -> names, for the addresses it holds
    hints,          \* the context: hint_cache, whether a refresh is due, hint_in_flight, the channel
    workers,        \* the refresh threads alive, by number, of whichever capture
    loop,           \* the capture's thread: where it is, the capture's number, the stop flag
    names,          \* CaptureStore::resolutions
    spawned         \* refresh threads spawned so far

vars == <<by_ip, hints, workers, loop, names, spawned>>

\* HostName: one text seen from two sources is two names.
HostNames(sources) == [name : Names, source : sources]
WireNames == HostNames(WireSources)
HintNames == HostNames(HintSources)

HintMaps == UNION {[S -> SUBSET HintNames \ {{}}] : S \in SUBSET HintedIps}
NoNames == << >>
Alive == {"reading", "refreshing", "committing", "finishing"}

\* LiveLoopContext::new.
FreshHints == [cache |-> NoNames, due |-> TRUE, in_flight |-> FALSE, channel |-> << >>]

Init ==
    /\ by_ip = NoNames /\ hints = FreshHints /\ workers = {} /\ spawned = 0
    /\ loop = [at |-> "idle", capture |-> 0, last |-> FALSE, stop |-> FALSE]
    /\ names = [ip \in Ips |-> {}]

NamesOf(t, ip) == IF ip \in DOMAIN t THEN t[ip] ELSE {}

-----------------------------------------------------------------------------
(* ResolutionTable.                                                        *)

\* prune: the lowest keys go until there is room for one more.
Pruned(t) ==
    {ip \in DOMAIN t : Cardinality({j \in DOMAIN t : j > ip}) < MAX_RESOLUTIONS - 1}

\* record, of one name seen for ip.
Record(ip, name) ==
    LET kept == IF ip \notin DOMAIN by_ip /\ Cardinality(DOMAIN by_ip) >= MAX_RESOLUTIONS
                THEN Pruned(by_ip) ELSE DOMAIN by_ip
    IN  [j \in kept \cup {ip} |-> NamesOf(by_ip, j) \cup (IF j = ip THEN {name} ELSE {})]

\* observe, as the loop ingests a batch.
Observe(ip, name) ==
    /\ loop.at = "reading"
    /\ by_ip' = Record(ip, name)
    /\ UNCHANGED <<hints, workers, loop, names, spawned>>

-----------------------------------------------------------------------------
(* The store.                                                              *)

\* set_resolution of every entry of the table, which replaces what was known of
\* the address.
SetAll(known) == [ip \in Ips |-> IF ip \in DOMAIN by_ip THEN by_ip[ip] ELSE known[ip]]

\* merge_resolution of every entry of the cache.
MergeAll(known, cache) == [ip \in Ips |-> known[ip] \cup NamesOf(cache, ip)]

\* Mutant: the cache is merged before the table is written.
TableWins(known, cache)  == SetAll(MergeAll(known, cache))
Committed(known, cache)  == MergeAll(SetAll(known), cache)

-----------------------------------------------------------------------------
(* The capture's thread.                                                   *)

CaptureStarts ==
    /\ loop.at \in {"idle", "over"} /\ loop.capture < MaxCaptures
    /\ loop' = [at |-> "reading", capture |-> loop.capture + 1, last |-> FALSE, stop |-> FALSE]
    /\ by_ip' = NoNames /\ hints' = FreshHints
    /\ UNCHANGED <<workers, names, spawned>>

StopIsAsked ==
    /\ loop.at \in Alive /\ ~loop.stop
    /\ loop' = [loop EXCEPT !.stop = TRUE]
    /\ UNCHANGED <<by_ip, hints, workers, names, spawned>>

\* rebuild_and_commit begins, from the loop or from finish: drain_hint_channel.
DrainHintChannel ==
    /\ loop.at = "reading"
    /\ \E last \in BOOLEAN : loop' = [loop EXCEPT !.at = "refreshing", !.last = last]
    /\ hints' = IF hints.channel = << >> THEN hints
                ELSE [hints EXCEPT !.cache = hints.channel[Len(hints.channel)],
                                   !.due = FALSE, !.channel = << >>]
    /\ UNCHANGED <<by_ip, workers, names, spawned>>

\* hint_refresh_secs have passed since the last answer.
RefreshFallsDue ==
    /\ loop.at \in Alive /\ ~hints.due
    /\ hints' = [hints EXCEPT !.due = TRUE]
    /\ UNCHANGED <<by_ip, workers, loop, names, spawned>>

\* Mutant: the flag is not looked at.
AlwaysWanted == hints.due /\ ~loop.stop
Wanted       == hints.due /\ ~loop.stop /\ ~hints.in_flight

\* refresh_dns_hints; a thread that cannot be spawned gives the flag back.
RefreshDnsHints ==
    /\ loop.at = "refreshing"
    /\ loop' = [loop EXCEPT !.at = "committing"]
    /\ \/ /\ Wanted /\ spawned < MaxWorkers
          /\ workers' = workers \cup {[n |-> spawned + 1, capture |-> loop.capture, sent |-> FALSE]}
          /\ spawned' = spawned + 1
          /\ hints' = [hints EXCEPT !.in_flight = TRUE]
       \/ UNCHANGED <<hints, workers, spawned>>
    /\ UNCHANGED <<by_ip, names>>

\* commit_pipeline, under the store's lock.
CommitPipeline ==
    /\ loop.at = "committing"
    /\ names' = Committed(names, hints.cache)
    /\ loop' = [loop EXCEPT !.at = IF loop.last THEN "finishing" ELSE "reading"]
    /\ UNCHANGED <<by_ip, hints, workers, spawned>>

\* LivePipeline::finish, after which the context and its receiver are gone.
Finish ==
    /\ loop.at = "finishing"
    /\ names' = SetAll(names)
    /\ loop' = [loop EXCEPT !.at = "over"]
    /\ hints' = [hints EXCEPT !.channel = << >>]
    /\ UNCHANGED <<by_ip, workers, spawned>>

-----------------------------------------------------------------------------
(* The refresh threads.                                                    *)

OfTheContext(w) == w.capture = loop.capture

\* The machine's names are sent; nobody listens once the capture is over.
WorkerSends(w, map) ==
    /\ w \in workers /\ ~w.sent
    /\ workers' = (workers \ {w}) \cup {[w EXCEPT !.sent = TRUE]}
    /\ hints' = IF OfTheContext(w) /\ loop.at # "over"
                THEN [hints EXCEPT !.channel = Append(@, map)] ELSE hints
    /\ UNCHANGED <<by_ip, loop, names, spawned>>

\* Mutant: a thread that panics leaves the flag set.
FlagAfterSend(w) == IF OfTheContext(w) /\ w.sent THEN FALSE ELSE hints.in_flight
FlagAfter(w)     == IF OfTheContext(w) THEN FALSE ELSE hints.in_flight

\* It ends, after its send or by a panic: HintGuard gives its own capture's flag back.
WorkerEnds(w) ==
    /\ w \in workers
    /\ workers' = workers \ {w}
    /\ hints' = [hints EXCEPT !.in_flight = FlagAfter(w)]
    /\ UNCHANGED <<by_ip, loop, names, spawned>>

Next ==
    \/ CaptureStarts \/ StopIsAsked \/ DrainHintChannel \/ RefreshFallsDue \/ RefreshDnsHints
    \/ CommitPipeline \/ Finish
    \/ \E ip \in Ips, name \in WireNames : Observe(ip, name)
    \/ \E w \in workers : WorkerEnds(w) \/ \E map \in HintMaps : WorkerSends(w, map)

Spec == Init /\ [][Next]_vars

-----------------------------------------------------------------------------
(* Properties.                                                             *)

\* A capture has at most one refresh thread, and the flag that keeps the next one out is
\* set exactly while there is one: no panic, failed spawn or late end of an earlier
\* capture's thread stops the refreshes for good or lets two run (HintGuard).
OneWorker ==
    /\ Cardinality({w \in workers : OfTheContext(w)}) <= 1
    /\ hints.in_flight <=> \E w \in workers : OfTheContext(w)

\* Names on their way to the store, whatever packets, answers and commits come in between:
\* the names the machine gave are in it as long as the loop runs, although every commit
\* replaces what it knows of the addresses in the table, and those of the table are in it
\* when the capture is over (then Finish has replaced the machine's once more).  The table,
\* which grows with every packet, keeps its limit.
NamesAreKept ==
    /\ loop.at = "reading" =>
          \A ip \in HintedIps : NamesOf(hints.cache, ip) \subseteq names[ip]
    /\ loop.at = "over" => \A ip \in Ips : NamesOf(by_ip, ip) \subseteq names[ip]
    /\ Cardinality(DOMAIN by_ip) <= MAX_RESOLUTIONS
=============================================================================
