--------------------------------- MODULE Dashboard ---------------------------------
(***************************************************************************)
(* The dashboard (screens/Dashboard.tsx, Dashboard/useDashboardController, *)
(* SummaryEngine, NarrativeFilterBar): the narrative feed under a category *)
(* and a search, the summary of the situation with its recommendation, and *)
(* the two ways a reader is taken to the card of a piece of evidence, in a *)
(* feed that changes every second.                                         *)
(***************************************************************************)
EXTENDS Sequences, Integers, FiniteSets

CONSTANTS
    Feeds,        \* what the feed may be: sequences of cards [id, category, protocol, severity,
                  \* evidence, text, words]
    EngineDiagnoses,    \* what the engine may find: [severity, evidence], both "none" when nothing
    SearchWords,  \* what may be searched for
    MaxRetries    \* BOUND: how often the connection is retried

AnyWord == ""          \* the empty search
NoDiagnosis == [severity |-> "none", evidence |-> <<>>]
NoRef == [kind |-> "none", id |-> 0]
FeedCards == UNION {{f[i] : i \in DOMAIN f} : f \in Feeds}
EvidenceOf(c) == {c.evidence[i] : i \in DOMAIN c.evidence}
CardCategories == {"performance", "dns", "tls", "applications", "security", "network"}
Citations == [kind : {"flow", "session", "packet"}, id : Nat]
NarrativeCategories == {"all", "findings"} \cup CardCategories

ASSUME DashboardConstants ==
    /\ AnyWord \in SearchWords /\ NoDiagnosis \in EngineDiagnoses /\ <<>> \in Feeds /\ MaxRetries \in Nat
    /\ \A c \in FeedCards : /\ c.category \in CardCategories \cup {"none"}
                            /\ c.severity \in {"neutral", "notable", "finding"}
                            /\ c.text \subseteq CardCategories
                            /\ c.evidence \in Seq(Citations)
    /\ \A d \in EngineDiagnoses : d.evidence \in Seq(Citations)
    /\ \A f \in Feeds : f \in Seq(FeedCards)

VARIABLES
    board,        \* the store: the feed, the diagnosis and state of telemetry, the error
    dash,         \* what the mounted screen holds
    dashCalls     \* the retries under way

dashboardVars == <<board, dash, dashCalls>>

HasEvidence(c, kinds) == \E e \in EvidenceOf(c) : e.kind \in kinds

\* cardMatchesCategory: the card's own category, else its protocol, else its evidence, else its words.
ByCategory(c, category) ==
    CASE category = "security" -> c.category = "security" \/ c.severity \in {"finding", "notable"}
      [] category = "network" -> c.category \in {"network", "tls", "dns"} \/ HasEvidence(c, {"flow", "packet"})
      [] OTHER -> c.category = category
ByProtocol(c, category) ==
    CASE category = "dns" -> c.protocol = "DNS"
      [] category = "tls" -> c.protocol \in {"TLS", "QUIC", "HTTP/3", "HTTPS"}
      [] category = "network" -> c.protocol \in {"TCP", "UDP", "HTTP", "TLS", "DNS", "QUIC"}
      [] category = "applications" -> HasEvidence(c, {"session"})
      [] OTHER -> c.severity \in {"finding", "notable"}
ByContent(c, category) ==
    \/ category = "applications" /\ HasEvidence(c, {"session"})
    \/ category = "network" /\ HasEvidence(c, {"flow", "packet"})
    \/ category = "security" /\ c.severity \in {"finding", "notable"}
    \/ category \in c.text
CardMatchesCategory(c, category) ==
    CASE category = "all" -> TRUE
      [] category = "findings" -> c.severity = "finding" \/ c.category = "security"
      [] OTHER -> IF c.category # "none" THEN ByCategory(c, category)
                  ELSE IF c.protocol # "none" /\ category # "performance" THEN ByProtocol(c, category)
                  ELSE ByContent(c, category)

\* filteredNarratives.
IsListed(c, category, search) == CardMatchesCategory(c, category) /\ (search = AnyWord \/ search \in c.words)
FilteredNarratives ==
    {i \in DOMAIN board.feed : IsListed(board.feed[i], dash.category, dash.search)}

FirstOf(places) == {board.feed[i] : i \in {i \in places : \A j \in places : i <= j}}
WithSeverity(severity) == FirstOf({i \in DOMAIN board.feed : board.feed[i].severity = severity})
FirstRef(evidence) == IF evidence = <<>> THEN NoRef ELSE evidence[1]

\* generateSituationSummary: the engine's diagnosis first, then a finding, then a notable card.
Summary ==
    LET Because(health, evidence) ==
            [health |-> health, type |-> IF health = "finding" THEN "investigate" ELSE "monitor",
             ref |-> FirstRef(evidence)]
        worst == IF WithSeverity("finding") # {} THEN "finding" ELSE "notable"
    IN IF board.diagnosis # NoDiagnosis
       THEN Because(IF board.diagnosis.severity = "finding" THEN "finding" ELSE "notable",
                    board.diagnosis.evidence)
       ELSE IF WithSeverity(worst) # {}
       THEN Because(worst, (CHOOSE c \in WithSeverity(worst) : TRUE).evidence)
       ELSE [health |-> "healthy", type |-> "ignore", ref |-> NoRef]

\* heroViewModel; the recommendation is offered with it unless there is none to give.
Hero == CASE Summary.health = "finding" -> "finding" [] Summary.health = "notable" -> "spike"
          [] OTHER -> IF board.telemetry \in {"none", "standby"} THEN "idle" ELSE "healthy"

DashFresh == [mounted |-> TRUE, category |-> "all", search |-> AnyWord, notice |-> NoRef, retrying |-> FALSE]

DashboardInit ==
    /\ board = [feed |-> <<>>, diagnosis |-> NoDiagnosis, telemetry |-> "none", error |-> "none"]
    /\ dash = DashFresh /\ dashCalls = 0

DashLoading == board.telemetry = "none" /\ board.error = "none"

\* What a snapshot tells of the network: one that comes (stale and unavailable telemetry are
\* shown as active is), and the one held when none does.
ComingSnapshots == [diagnosis : EngineDiagnoses, telemetry : {"active", "standby"}]
HeldSnapshot == [diagnosis |-> board.diagnosis, telemetry |-> board.telemetry]

\* setSnapshotBatch: either of the two may be the one there was, and either may have failed.
Batch(feed, snapshot, error) ==
    board' = [feed |-> feed, diagnosis |-> snapshot.diagnosis, telemetry |-> snapshot.telemetry, error |-> error]

\* The store changes: a feed and a snapshot, or one of them, or an error beside what there was.
FeedArrives(feed, snapshot, error) == Batch(feed, snapshot, error) /\ UNCHANGED <<dash, dashCalls>>
FeedFails == board' = [board EXCEPT !.error = "failed"] /\ UNCHANGED <<dash, dashCalls>>

\* NarrativeFilterBar, and the button of the empty list that clears both.
SetCategory(category) ==
    /\ dash.mounted /\ category # dash.category
    /\ dash' = [dash EXCEPT !.category = category] /\ UNCHANGED <<board, dashCalls>>
SetDashSearch(search) ==
    /\ dash.mounted /\ search # dash.search
    /\ dash' = [dash EXCEPT !.search = search] /\ UNCHANGED <<board, dashCalls>>
ClearDashFilters ==
    /\ dash.mounted /\ FilteredNarratives = {} /\ (dash.search # AnyWord \/ dash.category # "all")
    /\ dash' = [dash EXCEPT !.category = "all", !.search = AnyWord] /\ UNCHANGED <<board, dashCalls>>

\* The card evidence leads to: the first that cites it.
TargetCard(ref) == FirstOf({i \in DOMAIN board.feed : ref \in EvidenceOf(board.feed[i])})

\* handleNavigateToEvidence: a chip of a card, or the evidence of a hop.
CategoryFor(card) ==
    IF CardMatchesCategory(card, dash.category) THEN dash.category
    ELSE IF card.severity = "finding" THEN "findings"
    ELSE IF card.category # "none" THEN card.category ELSE "all"
ShownCard(category) == [dash EXCEPT !.category = category, !.search = AnyWord, !.notice = NoRef]
HandleNavigateToEvidence(ref) ==
    /\ dash.mounted
    /\ dash' = IF TargetCard(ref) = {} THEN [dash EXCEPT !.notice = ref]
               ELSE ShownCard(CategoryFor(CHOOSE c \in TargetCard(ref) : TRUE))
    /\ UNCHANGED <<board, dashCalls>>

\* navigateToRecommendation, handleRecommendationClick.
RecommendedCategory(type, card) ==
    IF type = "investigate" /\ card.severity = "finding" THEN "findings"
    ELSE IF CardMatchesCategory(card, dash.category) THEN dash.category
    ELSE IF card.category # "none" THEN card.category
    ELSE IF CardMatchesCategory(card, "performance") THEN "performance" ELSE "all"
HandleRecommendationClick ==
    /\ dash.mounted /\ Hero # "idle" /\ Summary.type # "ignore"
    /\ LET ref == Summary.ref IN
       dash' = IF ref = NoRef
               THEN [dash EXCEPT !.category = IF Summary.type = "investigate" THEN "findings" ELSE "all"]
               ELSE IF TargetCard(ref) = {} THEN [dash EXCEPT !.notice = ref]
               ELSE ShownCard(RecommendedCategory(Summary.type, CHOOSE c \in TargetCard(ref) : TRUE))
    /\ UNCHANGED <<board, dashCalls>>

\* The notice of evidence outside the feed: followed, dismissed, or gone after six seconds.
HandleNoticeNavigate ==
    /\ dash.notice # NoRef /\ dash' = [DashFresh EXCEPT !.mounted = FALSE] /\ UNCHANGED <<board, dashCalls>>
DismissEvidenceNotice ==
    /\ dash.notice # NoRef /\ dash' = [dash EXCEPT !.notice = NoRef] /\ UNCHANGED <<board, dashCalls>>

LeaveDashboard ==
    /\ dash.mounted /\ dash' = [DashFresh EXCEPT !.mounted = FALSE] /\ UNCHANGED <<board, dashCalls>>
OpenDashboard == ~dash.mounted /\ dash' = DashFresh /\ UNCHANGED <<board, dashCalls>>

\* handleRetry: the feed and a snapshot together, no error if neither answer was of its kind; the
\* answer of a screen that was left still counts.
HandleRetry ==
    /\ dash.mounted /\ board.error # "none" /\ ~dash.retrying /\ dashCalls < MaxRetries
    /\ dash' = [dash EXCEPT !.retrying = TRUE] /\ dashCalls' = dashCalls + 1 /\ UNCHANGED board
RetryOver ==
    /\ dashCalls > 0 /\ dashCalls' = dashCalls - 1
    /\ \/ dash.retrying /\ dash' = [dash EXCEPT !.retrying = FALSE]
       \/ (~dash.retrying \/ dashCalls > 1) /\ UNCHANGED dash
RetryServed(feed, snapshot) == Batch(feed, snapshot, "none") /\ RetryOver
RetryRefused == Batch(board.feed, HeldSnapshot, "failed") /\ RetryOver

AllRefs == UNION {EvidenceOf(c) : c \in FeedCards \cup EngineDiagnoses}

DashboardNext ==
    \/ \E f \in Feeds, s \in ComingSnapshots \cup {HeldSnapshot} :
         \/ \E error \in {"none", "failed"} : FeedArrives(f, s, error)
         \/ RetryServed(f, s)
    \/ \E c \in NarrativeCategories : SetCategory(c)
    \/ \E s \in SearchWords : SetDashSearch(s)
    \/ \E r \in AllRefs : HandleNavigateToEvidence(r)
    \/ FeedFails \/ RetryRefused \/ ClearDashFilters \/ HandleRecommendationClick \/ HandleNoticeNavigate
    \/ DismissEvidenceNotice \/ LeaveDashboard \/ OpenDashboard \/ HandleRetry

-----------------------------------------------------------------------------------
DashboardTypeOK ==
    /\ board.feed \in Feeds /\ board.diagnosis \in EngineDiagnoses
    /\ board.telemetry \in {"none", "active", "standby"} /\ board.error \in {"none", "failed"}
    /\ dash.category \in NarrativeCategories /\ dash.search \in SearchWords
    /\ dash.notice \in AllRefs \cup {NoRef} /\ dashCalls \in 0..MaxRetries

\* Whoever is taken to a card of the feed finds it in the list, under whatever category and search
\* were set before: the filters are widened as far as that card needs (handleNavigateToEvidence,
\* navigateToRecommendation).  When no card cites the evidence the filters stay and a notice says so.
EvidenceLeadsToItsCard ==
    [][dash' # dash /\ board' = board => \A ref \in AllRefs :
         HandleNavigateToEvidence(ref) \/ (Summary.ref = ref /\ HandleRecommendationClick) =>
            IF TargetCard(ref) = {} THEN dash'.notice = ref /\ dash'.category = dash.category
            ELSE \A c \in TargetCard(ref) : IsListed(c, dash'.category, dash'.search)]_dashboardVars

\* Whatever feed meets whatever snapshot, one with a finding or a notable card, or beside a
\* diagnosis, is never summed up as healthy or idle.  Without a diagnosis the summary and what the
\* reader is asked to look into are of the first finding, and lead to a card of that feed.  A
\* diagnosis comes before every card: its severity alone decides, findings are then only in the
\* feed (generateSituationSummary).
FindingsAreNotHidden ==
    /\ Hero \in {"healthy", "idle"}
         => board.diagnosis = NoDiagnosis /\ WithSeverity("finding") \cup WithSeverity("notable") = {}
    /\ board.diagnosis = NoDiagnosis
         => \A c \in WithSeverity("finding") : Hero = "finding" /\ Summary.ref = FirstRef(c.evidence)
    /\ Summary.ref # NoRef => \/ board.diagnosis # NoDiagnosis
                              \/ TargetCard(Summary.ref) # {}

\* The skeleton and the busy retry each have their cause: nothing has come, or a retry is under way.
RetryHasCause == dash.retrying => dashCalls > 0 /\ dash.mounted
=============================================================================
