---------------------------- MODULE MCToolScreens ----------------------------
(* Values for the constants of ToolScreens that a .cfg cannot write. *)
EXTENDS ToolScreens

TermOf == [t \in {"", "a", "A "} |-> IF t = "A " THEN "a" ELSE t]

SavedRecordings == {[level |-> "metadata_only", payloads |-> FALSE],
                    [level |-> "full_payload", payloads |-> TRUE]}

ReportedHosts == {[name |-> "a", words |-> {"online"}], [name |-> "b", words |-> {"offline"}],
                  [name |-> "c", words |-> {"syncing"}],
                  [name |-> "d", words |-> {"error", "degraded"}]}

ReportedFindings ==
    {[kind |-> "scan", ids |-> {1}, category |-> "suspicious", confidence |-> 90],
     [kind |-> "scan", ids |-> {1}, category |-> "anomaly", confidence |-> 40],
     [kind |-> "dns", ids |-> {}, category |-> "informational", confidence |-> 20]}

\* The figures of SessionDiffEngine::compare, in tenths of a millisecond.
EngineRtt == -384
EngineTtfb == -421

OfferedStacks == {<<"IPv4", "TCP">>, <<"IPv4">>}
FirstStack == <<"IPv4", "TCP">>

NeedsOf(l) == IF l = "b" THEN {"a"} ELSE {}
StepsOf(l) == IF l = "a" THEN 2 ELSE 1
=============================================================================
