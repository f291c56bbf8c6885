---------------------------------- MODULE Journey ----------------------------------
(***************************************************************************)
(* The page journey (hooks/useJourneyController.ts, screens/Journey.tsx,   *)
(* viz JourneyFlow).  The session shown is the reader's choice, else the   *)
(* one evidence was followed to, else the newest known; each change of it  *)
(* or of the depth asks again, and no answer is told from another.         *)
(***************************************************************************)
EXTENDS Navigation, FiniteSets

CONSTANTS
    StagesOf,     \* the sessions (from 1, newest last) and how many stages each one's journey has
    ReadingDepths,
    MaxAsks       \* bound: the journeys asked for while the screen is mounted

ASSUME JourneyConstants ==
    /\ DOMAIN StagesOf \subseteq Nat \ {0}
    /\ \A s \in DOMAIN StagesOf : StagesOf[s] \in Nat
    /\ MaxAsks \in Nat

VARIABLES
    evidence,     \* outside the screen: sessions stored, sessions the cards cite, the depth
    journey,      \* what the mounted screen holds; "overlapped" is history, see Overlaps
    journeyCalls  \* the queries under way: journeys, and a refresh still listing sessions

journeyVars == <<nav, evidence, journey, journeyCalls>>

NoSession == 0
NothingWanted == [session |-> NoSession, depth |-> "none"]
NothingShown == [session |-> NoSession, stages |-> 0, depth |-> "none"]
JourneyFresh == [mounted |-> FALSE, known |-> {}, chosen |-> NoSession, shown |-> NothingShown,
                 loaded |-> FALSE, failed |-> FALSE, stage |-> 0, overlapped |-> FALSE]
NoCalls == [asked |-> 0, out |-> {}, refresh |-> NothingWanted]

JourneyInit ==
    /\ NavInit /\ journey = JourneyFresh /\ journeyCalls = NoCalls
    /\ \E d \in ReadingDepths : evidence = [stored |-> {}, cited |-> {}, depth |-> d]

\* The options of the picker: stored sessions first, those of the cards merged in.
SessionOptions(j, e) == j.known \cup e.cited
Newest(sessions) == CHOOSE s \in sessions : \A other \in sessions : other <= s
SessionCategory(s, j, e) ==
    IF s = Newest(SessionOptions(j, e)) THEN "latest" ELSE IF s \in e.cited THEN "active" ELSE "historical"

\* activeSessionId.
ActiveSession(j, n, e) ==
    IF j.chosen # NoSession THEN j.chosen
    ELSE IF TargetFor("journey", n) # 0 THEN TargetFor("journey", n)
    ELSE IF SessionOptions(j, e) # {} THEN Newest(SessionOptions(j, e)) ELSE NoSession

Wanted(j, n, e) == [session |-> ActiveSession(j, n, e), depth |-> e.depth]
NowWanted == Wanted(journey, nav, evidence)

JourneyView ==
    IF ~journey.mounted THEN "elsewhere" ELSE IF ~journey.loaded THEN "skeleton"
    ELSE IF journey.shown.stages = 0 THEN "empty" ELSE "flow"

\* The screen once it is loaded: the error banner and what it offers, the filter's clear button.
JourneyBanner ==
    [refresh |-> journey.failed, backToLatest |-> journey.failed /\ journey.chosen # NoSession,
     clear |-> TargetFor("journey", nav) # 0]

\* JourneyFlow: the stage read out, and the stepper held at both ends.
JourneyFlow ==
    LET active == IF journey.stage < journey.shown.stages THEN journey.stage ELSE 0
    IN [active |-> active, previous |-> active > 0, next |-> active < journey.shown.stages - 1]

\* What was asked last may be overtaken: something else is on its way, or about to be asked.
Overlaps(calls) == calls.out # {} \/ calls.refresh # NothingWanted

\* fetchJourney, for a session and a depth.
FetchJourney(j, calls, wanted) ==
    /\ calls.asked < MaxAsks
    /\ journey' = [j EXCEPT !.loaded = FALSE, !.failed = FALSE]
    /\ journeyCalls' = [calls EXCEPT !.asked = @ + 1, !.out = @ \cup {[n |-> calls.asked + 1, wanted |-> wanted]}]

\* The render that follows a change, with the effect that asks when the session or the
\* depth is another one.
Rendered(j, n, e, calls) ==
    LET now == Wanted(j, n, e)
    IN IF n.screen # "journey" THEN journey' = JourneyFresh /\ journeyCalls' = NoCalls
       ELSE IF journey.mounted /\ now = NowWanted THEN journey' = j /\ journeyCalls' = calls
       ELSE IF now.session = NoSession
            THEN /\ journey' = [j EXCEPT !.mounted = TRUE, !.shown = NothingShown, !.loaded = TRUE,
                                         !.stage = 0, !.overlapped = Overlaps(calls)]
                 /\ journeyCalls' = calls
       ELSE FetchJourney([j EXCEPT !.mounted = TRUE, !.stage = 0, !.overlapped = Overlaps(calls)],
                         calls, now)

JourneyMoves(n) == n # nav /\ nav' = n /\ Rendered(journey, n, evidence, journeyCalls) /\ UNCHANGED evidence

\* The engine stores a session, a card cites one or the store drops it, the depth is changed.
EvidenceChanges ==
    /\ \/ \E s \in DOMAIN StagesOf \ evidence.stored : evidence' = [evidence EXCEPT !.stored = @ \cup {s}]
       \/ \E s \in DOMAIN StagesOf : evidence' = [evidence EXCEPT !.cited = (@ \cup {s}) \ (@ \cap {s})]
       \/ \E d \in ReadingDepths \ {evidence.depth} : evidence' = [evidence EXCEPT !.depth = d]
    /\ Rendered(journey, nav, evidence', journeyCalls)
    /\ UNCHANGED nav

\* fetchSessions, asked at every change of the snapshot or the feed, answers.
SessionsListed ==
    /\ journey.mounted /\ journey.known # evidence.stored
    /\ Rendered([journey EXCEPT !.known = evidence.stored], nav, evidence, journeyCalls)
    /\ UNCHANGED <<nav, evidence>>

ChooseSession(s) ==
    /\ journey.mounted /\ journey.loaded /\ s # journey.chosen
    /\ s \in SessionOptions(journey, evidence)
    /\ Rendered([journey EXCEPT !.chosen = s], nav, evidence, journeyCalls)
    /\ UNCHANGED <<nav, evidence>>

ResetSelection ==
    /\ journey.loaded /\ JourneyBanner.backToLatest
    /\ Rendered([journey EXCEPT !.chosen = NoSession], nav, evidence, journeyCalls)
    /\ UNCHANGED <<nav, evidence>>

HandleClearFilter ==
    /\ journey.mounted /\ journey.loaded /\ JourneyBanner.clear
    /\ nav' = Untargeted
    /\ Rendered([journey EXCEPT !.chosen = NoSession], nav', evidence, journeyCalls)
    /\ UNCHANGED evidence

\* refetch lists the sessions, then asks for what was wanted when it was clicked.
Refetch ==
    /\ journey.loaded /\ JourneyBanner.refresh /\ journeyCalls.refresh = NothingWanted
    /\ journeyCalls' = [journeyCalls EXCEPT !.refresh = NowWanted]
    /\ journey' = [journey EXCEPT !.overlapped = Overlaps(journeyCalls)]
    /\ UNCHANGED <<nav, evidence>>

RefetchContinues ==
    /\ journeyCalls.refresh # NothingWanted
    /\ LET wanted == journeyCalls.refresh
           calls == [journeyCalls EXCEPT !.refresh = NothingWanted]
           j == [journey EXCEPT !.overlapped = @ \/ Overlaps(calls)]
       IN IF wanted.session = NoSession
          THEN /\ journey' = [j EXCEPT !.shown = NothingShown, !.loaded = TRUE]
               /\ journeyCalls' = calls
          ELSE FetchJourney(j, calls, wanted)
    /\ UNCHANGED <<nav, evidence>>

\* A journey arrives; a session that is not stored has one without stages.
JourneyArrives(call) ==
    /\ call \in journeyCalls.out
    /\ journeyCalls' = [journeyCalls EXCEPT !.out = @ \ {call}]
    /\ LET s == call.wanted.session
       IN journey' = [journey EXCEPT !.shown = [session |-> s, depth |-> call.wanted.depth,
                                                stages |-> IF s \in evidence.stored THEN StagesOf[s] ELSE 0],
                                     !.stage = 0, !.loaded = TRUE]
    /\ UNCHANGED <<nav, evidence>>

JourneyFails(call) ==
    /\ call \in journeyCalls.out
    /\ journeyCalls' = [journeyCalls EXCEPT !.out = @ \ {call}]
    /\ journey' = [journey EXCEPT !.failed = TRUE, !.loaded = TRUE]
    /\ UNCHANGED <<nav, evidence>>

SelectStage(i) ==
    /\ JourneyView = "flow" /\ i # journey.stage
    /\ journey' = [journey EXCEPT !.stage = i]
    /\ UNCHANGED <<nav, evidence, journeyCalls>>

JourneyNext ==
    \/ EvidenceChanges \/ SessionsListed \/ ResetSelection \/ HandleClearFilter \/ Refetch \/ RefetchContinues
    \/ \E s \in Screens : JourneyMoves(Switched(s))
    \/ \E r \in Refs : JourneyMoves(Followed(r))
    \/ \E s \in DOMAIN StagesOf : ChooseSession(s)
    \/ \E c \in journeyCalls.out : JourneyArrives(c) \/ JourneyFails(c)
    \/ JourneyView = "flow" /\ \E i \in 0..(journey.shown.stages - 1) : SelectStage(i)

-----------------------------------------------------------------------------
JourneyTypeOK ==
    /\ NavTypeOK /\ evidence.stored \cup evidence.cited \cup journey.known \subseteq DOMAIN StagesOf
    /\ evidence.depth \in ReadingDepths /\ journey.chosen \in DOMAIN StagesOf \cup {NoSession}
    /\ journeyCalls.asked \in 0..MaxAsks
    /\ journey.mounted => nav.screen = "journey"

\* The screen is a skeleton, without its picker, only while a journey is on its way: no
\* failure and no change of session leaves the reader with nothing to click.
SkeletonHasCause == journey.mounted /\ ~journey.loaded => journeyCalls.out # {}

\* Journeys asked for one at a time: however the session wanted changes between them, by
\* choice, by evidence followed, by a newer session or by depth, and whatever fails and is
\* asked again, what a loaded screen shows is the session and the depth it names, unless it
\* reports an error.  Nothing is said of journeys asked for while another was on its way:
\* their answers are not told apart, and the last one to land is shown (fetchJourney).
ShownJourneyIsWanted ==
    journey.mounted /\ journey.loaded /\ ~journey.failed /\ ~journey.overlapped
        => IF NowWanted.session = NoSession THEN journey.shown = NothingShown
           ELSE <<journey.shown.session, journey.shown.depth>> = <<NowWanted.session, NowWanted.depth>>

\* The stage read out is one of the journey shown, in whatever order journeys of different
\* lengths land: the readout never falls back to a stage the reader did not choose.
ReadStageExists == JourneyView = "flow" => journey.stage < journey.shown.stages
=============================================================================
