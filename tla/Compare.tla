-------------------------------- MODULE Compare --------------------------------
(***************************************************************************)
(* The comparison of two sessions (hooks/useCompareController.ts,          *)
(* screens/SessionDiff.tsx and screens/Compare).  The engine answers every *)
(* pair in one direction; the client turns the answer round when the       *)
(* baseline is the later session.                                          *)
(***************************************************************************)
EXTENDS Integers

CONSTANTS
    SessionIds,    \* what parseSessionId makes of the input, 0 for no number
    RawRtt,        \* the engine's figures: round trips, in tenths of a ms
    RawTtfb        \* and time to the first byte

ASSUME CompareConstants ==
    SessionIds \subseteq Nat /\ {0, 1, 2} \subseteq SessionIds /\ RawRtt \in Int /\ RawTtfb \in Int

VARIABLES
    compare,     \* what the mounted screen holds
    comparing,   \* the pair asked for, or NoPair
    verdicts     \* history: which session each report called the faster

compareVars == <<compare, comparing, verdicts>>

NoPair == <<0, 0>>
NoDiff == [a |-> 0, b |-> 0, rtt |-> 0, ttfb |-> 0, shift |-> <<"", "">>, faster |-> 0]

\* SessionDiffEngine::compare: the same figures for every pair.
EngineCompare == [rtt |-> RawRtt, ttfb |-> RawTtfb, shift |-> <<"HTTP/1.1", "HTTP/3">>]

\* computeDirectionalDiff, and the session its explanation calls the faster.
ComputeDirectionalDiff(a, b, raw) ==
    LET turned == a > b
        rtt == IF turned THEN -raw.rtt ELSE raw.rtt
    IN [a |-> a, b |-> b, rtt |-> rtt,
        ttfb |-> IF turned THEN -raw.ttfb ELSE raw.ttfb,
        shift |-> IF turned THEN <<raw.shift[2], raw.shift[1]>> ELSE raw.shift,
        faster |-> IF rtt > 0 THEN a ELSE IF rtt < 0 THEN b ELSE 0]

\* The colours of the scorecards.
CompareScorecards(d) ==
    [rtt |-> IF d.rtt > 0 THEN "finding" ELSE IF d.rtt < 0 THEN "good" ELSE "text",
     ttfb |-> IF d.ttfb > 0 THEN "finding" ELSE IF d.ttfb < 0 THEN "good" ELSE "text"]

CompareInit ==
    /\ compare = [a |-> 1, b |-> 2, diff |-> NoDiff, comparing |-> FALSE, notice |-> "none"]
    /\ comparing = NoPair
    /\ verdicts = {}

\* The controls are one fieldset.
CompareView ==
    [controls |-> ~compare.comparing,
     body |-> IF compare.comparing THEN "skeletons"
              ELSE IF compare.diff # NoDiff THEN "report" ELSE "empty"]

\* runCompareWithIds, up to its await.
RunCompare(screen, a, b) ==
    IF a <= 0 \/ b <= 0
    THEN compare' = [screen EXCEPT !.notice = "err_positive"] /\ UNCHANGED comparing
    ELSE IF a = b
    THEN compare' = [screen EXCEPT !.notice = "err_different"] /\ UNCHANGED comparing
    ELSE /\ compare' = [screen EXCEPT !.notice = "none", !.comparing = TRUE]
         /\ comparing' = <<a, b>>

SetSession(side, id) ==
    /\ CompareView.controls
    /\ compare' = [compare EXCEPT ![side] = id]
    /\ UNCHANGED <<comparing, verdicts>>

PressCompare ==
    /\ CompareView.controls
    /\ RunCompare(compare, compare.a, compare.b)
    /\ UNCHANGED verdicts

SwapSessions ==
    LET swapped == [compare EXCEPT !.a = compare.b, !.b = compare.a, !.diff = NoDiff]
    IN /\ CompareView.controls
       /\ IF compare.diff # NoDiff THEN RunCompare(swapped, swapped.a, swapped.b)
          ELSE compare' = swapped /\ UNCHANGED comparing
       /\ UNCHANGED verdicts

CompareAnswered ==
    /\ comparing # NoPair
    /\ LET d == ComputeDirectionalDiff(comparing[1], comparing[2], EngineCompare)
       IN /\ compare' = [compare EXCEPT !.diff = d, !.comparing = FALSE]
          /\ verdicts' = verdicts \cup {<<{d.a, d.b}, d.faster>>}
    /\ comparing' = NoPair

CompareFailed ==
    /\ comparing # NoPair
    /\ compare' = [compare EXCEPT !.notice = "failed", !.comparing = FALSE]
    /\ comparing' = NoPair
    /\ UNCHANGED verdicts

DismissCompareNotice ==
    /\ compare.notice # "none"
    /\ compare' = [compare EXCEPT !.notice = "none"]
    /\ UNCHANGED <<comparing, verdicts>>

CompareNext ==
    \/ \E side \in {"a", "b"}, id \in SessionIds : SetSession(side, id)
    \/ PressCompare \/ SwapSessions \/ CompareAnswered \/ CompareFailed \/ DismissCompareNotice

-----------------------------------------------------------------------------
CompareTypeOK ==
    /\ compare.a \in SessionIds /\ compare.b \in SessionIds
    /\ compare.notice \in {"none", "err_positive", "err_different", "failed"}
    /\ comparing \in SessionIds \X SessionIds

\* Whichever way round two sessions are compared, before and after any swaps and edits,
\* the reports call the same one of them the faster.
OneFasterSession ==
    \A v, w \in verdicts : v[1] = w[1] => v[2] = w[2]

\* A report that is shown is of two different sessions, its sign, its colour and its
\* direction of change agree, and the controls that led to it are not left disabled.
ReportIsCoherent ==
    /\ compare.comparing <=> comparing # NoPair
    /\ compare.diff # NoDiff =>
          /\ compare.diff.a # compare.diff.b
          /\ (CompareScorecards(compare.diff).rtt = "good") <=> (compare.diff.faster = compare.diff.b)
          /\ (compare.diff.shift = EngineCompare.shift) <=> (compare.diff.a < compare.diff.b)
=============================================================================
