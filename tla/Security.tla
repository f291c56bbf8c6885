------------------------------- MODULE Security -------------------------------
(***************************************************************************)
(* The security screen (hooks/useSecurityController.ts and                 *)
(* screens/Security): findings the user has marked as expected are hidden, *)
(* the marks outlive the screen in localStorage, and a finding is known    *)
(* again by its kind and the ids of its evidence.                          *)
(***************************************************************************)
EXTENDS Integers, FiniteSets

CONSTANT Findings   \* [kind, ids, category, confidence] records the engine may report

FindingCategories == {"anomaly", "suspicious", "informational"}

ASSUME SecurityConstants ==
    \A f \in Findings : f.category \in FindingCategories /\ f.confidence \in 0 .. 100

VARIABLES
    security,       \* what the mounted screen holds
    secQuery,       \* is its query in flight
    expectedStored  \* the marks in localStorage, and whether they can be read

securityVars == <<security, secQuery, expectedStored>>

\* getFindingKey: marks survive because findings are recognised by value.
FindingKey(f) == <<f.kind, f.ids>>
Keys == {FindingKey(f) : f \in Findings}

LoadExpectedSet(stored) == IF stored.readable THEN stored.marks ELSE {}

SecurityFresh(stored) ==
    [findings |-> {}, loaded |-> FALSE, notice |-> FALSE, category |-> "all",
     showExpected |-> FALSE, expected |-> LoadExpectedSet(stored)]

SecurityInit ==
    /\ expectedStored \in [readable : BOOLEAN, marks : {{}}]
    /\ security = SecurityFresh(expectedStored)
    /\ secQuery = TRUE

CriticalThreat(f) == f.category = "suspicious" /\ f.confidence >= 85

FilteredFindings ==
    {f \in security.findings :
        /\ FindingKey(f) \notin security.expected \/ security.showExpected \/ CriticalThreat(f)
        /\ security.category \in {"all", f.category}}

\* The comparison the list is sorted by: confidence, then suspicion.
RanksBefore(f, g) ==
    \/ f.confidence > g.confidence
    \/ f.confidence = g.confidence /\ f.category = "suspicious" /\ g.category # "suspicious"

\* One card: its marks and, with the technical text, its depth.
FindingCard(f, shows) ==
    [style |-> f.category, expected |-> FindingKey(f) \in security.expected, technical |-> shows]

SecurityView ==
    [body |-> IF ~security.loaded THEN "skeletons"
              ELSE IF security.findings = {} THEN "none"
              ELSE IF FilteredFindings # {} THEN "cards"
              ELSE IF security.category # "all" THEN "no match" ELSE "all suppressed",
     toggle |-> security.loaded /\ security.findings # {} /\ security.expected # {},
     categories |-> security.loaded /\ security.findings # {}]

\* saveExpectedSet: a storage that is full or forbidden keeps what it had.
Save(set) == expectedStored' \in {[readable |-> TRUE, marks |-> set], expectedStored}

\* The button of a card: markExpected or unmarkExpected, by what the card shows.
ToggleExpected(f) ==
    LET key == FindingKey(f)
        next == IF key \in security.expected THEN security.expected \ {key}
                                             ELSE security.expected \cup {key}
    IN /\ security.loaded /\ f \in FilteredFindings
       /\ security' = [security EXCEPT !.expected = next]
       /\ Save(next)
       /\ UNCHANGED secQuery

ToggleShowExpected ==
    /\ SecurityView.toggle
    /\ security' = [security EXCEPT !.showExpected = ~@]
    /\ UNCHANGED <<secQuery, expectedStored>>

SetFindingCategory(c) ==
    /\ SecurityView.categories
    /\ security' = [security EXCEPT !.category = c]
    /\ UNCHANGED <<secQuery, expectedStored>>

DismissSecurityNotice ==
    /\ security.notice /\ security.loaded
    /\ security' = [security EXCEPT !.notice = FALSE]
    /\ UNCHANGED <<secQuery, expectedStored>>

FindingsAnswered(kind, fs) ==
    /\ secQuery
    /\ secQuery' = FALSE
    /\ security' = [security EXCEPT !.findings = IF kind = "ok" THEN fs ELSE {},
                                    !.notice = (kind # "ok"), !.loaded = TRUE]
    /\ UNCHANGED expectedStored

LeaveSecurity ==
    /\ security' = SecurityFresh(expectedStored)
    /\ secQuery' = TRUE
    /\ UNCHANGED expectedStored

SecurityNext ==
    \/ \E f \in Findings : ToggleExpected(f)
    \/ ToggleShowExpected \/ DismissSecurityNotice \/ LeaveSecurity
    \/ \E c \in {"all"} \cup FindingCategories : SetFindingCategory(c)
    \/ \E fs \in SUBSET Findings : FindingsAnswered("ok", fs)
    \/ \E kind \in {"other", "failed"} : FindingsAnswered(kind, {})

-----------------------------------------------------------------------------
SecurityTypeOK ==
    /\ security.findings \subseteq Findings /\ security.expected \subseteq Keys
    /\ security.category \in {"all"} \cup FindingCategories
    /\ secQuery \in BOOLEAN
    /\ expectedStored \in [readable : BOOLEAN, marks : SUBSET Keys]

\* A mark is taken back only by the user at a card on the screen, or forgotten on return
\* because the storage did not take it: never by an answer, a filter or a failed load.
MarksAreKept ==
    [][\A key \in security.expected \ security'.expected :
          \/ \E f \in FilteredFindings : ToggleExpected(f) /\ FindingKey(f) = key
          \/ LeaveSecurity /\ key \notin LoadExpectedSet(expectedStored)]_securityVars
=============================================================================
