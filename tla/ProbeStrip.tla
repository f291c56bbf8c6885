--------------------------------- MODULE ProbeStrip ---------------------------------
(***************************************************************************)
(* The strip of the seven hops on the dashboard (Dashboard/                *)
(* DiagnosticChainStrip.tsx).  A hop is inspected, a target typed, and a   *)
(* probe sent; the reader may turn to another hop and probe that one too   *)
(* before the first has answered.                                          *)
(***************************************************************************)
EXTENDS Integers, FiniteSets

CONSTANTS
    StripHops,    \* the hops shown
    Quiet,        \* those whose panel has no field for a target
    StripTargets,      \* the addresses a hop may have, and a reader may type
    MaxStripProbes \* BOUND: how many probes are under way at once

NoAddress == ""        \* an empty field, a hop without a target

ASSUME StripConstants == Quiet \subseteq StripHops /\ NoAddress \notin StripTargets /\ MaxStripProbes \in Nat

VARIABLES
    chain,        \* the snapshot: the first target of each hop, NoAddress when it has none
    strip,        \* what the strip holds
    stripProbes   \* the probes under way: [hop, target, nth] in the order they were sent

stripVars == <<chain, strip, stripProbes>>

NoHop == "none"
NodeTarget(hop, targets) == IF hop = NoHop THEN NoAddress ELSE targets[hop]

ProbeStripInit ==
    /\ chain = [h \in StripHops |-> NoAddress]
    /\ strip = [inspected |-> NoHop, custom |-> NoAddress, probing |-> NoHop,
                results |-> [h \in StripHops |-> {}], error |-> {}]
    /\ stripProbes = {}

\* Every snapshot makes the nodes anew: the field takes the target of the inspected one again.
ChainArrives(targets) ==
    /\ chain' = targets
    /\ strip' = [strip EXCEPT !.custom = NodeTarget(strip.inspected, targets)]
    /\ UNCHANGED stripProbes

\* handleNodeClick, and the button that closes the panel.
HandleNodeClick(hop) ==
    /\ strip' = IF strip.inspected = hop THEN [strip EXCEPT !.inspected = NoHop, !.custom = NoAddress]
                ELSE [strip EXCEPT !.inspected = hop, !.error = {}, !.custom = NodeTarget(hop, chain)]
    /\ UNCHANGED <<chain, stripProbes>>

SetCustomTarget(text) ==
    /\ strip.inspected \in StripHops \ Quiet /\ text # strip.custom
    /\ strip' = [strip EXCEPT !.custom = text]
    /\ UNCHANGED <<chain, stripProbes>>

\* handleRunProbe: the button is held for the hop whose probe was sent last, and for no other.
HandleRunProbe ==
    LET hop == strip.inspected IN
    /\ hop # NoHop /\ strip.probing # hop /\ Cardinality(stripProbes) < MaxStripProbes
    /\ strip' = [strip EXCEPT !.probing = hop, !.error = {}]
    /\ stripProbes' = {[p EXCEPT !.nth = @ + 1] : p \in stripProbes} \cup
                      {[hop |-> hop, nth |-> 1,
                        target |-> IF strip.custom # NoAddress THEN strip.custom ELSE chain[hop]]}
    /\ UNCHANGED chain

\* Mutant: a failure leaves the button held.
FailureHolds(p, failed) ==
    /\ p \in stripProbes
    /\ stripProbes' = {[q EXCEPT !.nth = IF @ > p.nth THEN @ - 1 ELSE @] : q \in stripProbes \ {p}}
    /\ strip' = [strip EXCEPT !.probing = IF failed THEN @ ELSE NoHop,
                    !.error = IF failed THEN {p.hop} ELSE @,
                    !.results[p.hop] = IF failed THEN @ ELSE {[hop |-> p.hop, target |-> p.target]}]
    /\ UNCHANGED chain

\* The answer, kept under its hop, or the failure, shown under whichever is inspected by then.
ProbeSettles(p, failed) ==
    /\ p \in stripProbes
    /\ stripProbes' = {[q EXCEPT !.nth = IF @ > p.nth THEN @ - 1 ELSE @] : q \in stripProbes \ {p}}
    /\ strip' = [strip EXCEPT !.probing = NoHop,
                    !.error = IF failed THEN {p.hop} ELSE @,
                    !.results[p.hop] = IF failed THEN @ ELSE {[hop |-> p.hop, target |-> p.target]}]
    /\ UNCHANGED chain

ShownStripResult == IF strip.inspected = NoHop THEN {} ELSE strip.results[strip.inspected]

ProbeStripNext ==
    \/ \E t \in [StripHops -> StripTargets \cup {NoAddress}] : ChainArrives(t)
    \/ \E h \in StripHops : HandleNodeClick(h)
    \/ \E x \in StripTargets \cup {NoAddress} : SetCustomTarget(x)
    \/ HandleRunProbe
    \/ \E p \in stripProbes, failed \in BOOLEAN : ProbeSettles(p, failed)

-----------------------------------------------------------------------------------
StripTypeOK ==
    /\ chain \in [StripHops -> StripTargets \cup {NoAddress}]
    /\ {strip.inspected, strip.probing} \subseteq StripHops \cup {NoHop}
    /\ \A p \in stripProbes : p.hop \in StripHops /\ p.nth \in 1..MaxStripProbes

\* The button of a hop is held only while a probe of that hop is under way, whichever probes of
\* other hops were sent and answered in between: it is never held for good (handleRunProbe).
HeldHopIsProbed == strip.probing # NoHop => \E p \in stripProbes : p.hop = strip.probing /\ p.nth = 1

\* A result stands under the hop it was measured for, though its answer came while another was
\* inspected: a figure of one hop is never read as another's.
ResultsStandUnderTheirHop == \A r \in ShownStripResult : r.hop = strip.inspected
=============================================================================
