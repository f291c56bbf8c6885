---------------------------- MODULE TcpLifecycle ----------------------------
(***************************************************************************)
(* The TCP lifecycle machine of netpulse-flow (state.rs).  A segment is    *)
(* the four flags the machine reads; sequence numbers are not read.        *)
(***************************************************************************)

TcpState == {"SynSeen", "SynAckSeen", "Established", "FinWait", "Closing",
             "Closed", "Reset", "Abandoned", "JoinedMidStream"}

Terminal(s) == s \in {"Closed", "Reset", "Abandoned"}

\* TcpState::to_flow_state, the state the rest of the program sees.
FlowState(s) ==
    CASE s \in {"SynSeen", "SynAckSeen"} -> "SynSeen"
      [] s \in {"Established", "JoinedMidStream"} -> "Established"
      [] s \in {"FinWait", "Closing"} -> "Closing"
      [] Terminal(s) -> "Closed"
      [] s = "none" -> "Datagram"

TcpSignals == [syn : BOOLEAN, ack : BOOLEAN, fin : BOOLEAN, rst : BOOLEAN]

initial_tcp(sig) ==
    CASE sig.rst -> "Reset"
      [] ~sig.rst /\ sig.syn /\ ~sig.ack -> "SynSeen"
      [] ~sig.rst /\ sig.syn /\ sig.ack -> "SynAckSeen"
      [] ~sig.rst /\ ~sig.syn -> "JoinedMidStream"

\* One segment advances the machine; fromInitiator says which side sent it.
advance_tcp(s, sig, fromInitiator) ==
    CASE sig.rst -> "Reset"
      [] ~sig.rst /\ s = "SynSeen" ->
            IF sig.syn /\ sig.ack /\ ~fromInitiator THEN "SynAckSeen"
            ELSE IF sig.fin THEN "FinWait" ELSE "SynSeen"
      [] ~sig.rst /\ s = "SynAckSeen" ->
            IF sig.ack /\ fromInitiator THEN "Established" ELSE "SynAckSeen"
      [] ~sig.rst /\ s \in {"Established", "JoinedMidStream"} ->
            IF sig.fin THEN "FinWait" ELSE "Established"
      [] ~sig.rst /\ s = "FinWait" -> IF sig.fin THEN "Closing" ELSE "FinWait"
      [] ~sig.rst /\ s = "Closing" -> IF sig.ack THEN "Closed" ELSE "Closing"
      [] ~sig.rst /\ Terminal(s) -> s
=============================================================================
