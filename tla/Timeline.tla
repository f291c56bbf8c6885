--------------------------------- MODULE Timeline ---------------------------------
(***************************************************************************)
(* The timeline (hooks/useTimelineController.ts, screens/Timeline).  The   *)
(* feed changes under the reader: the selected event is remembered by its  *)
(* time and headline, never by its place, and an event that evidence was   *)
(* followed to is selected anew whenever the list changes.                 *)
(***************************************************************************)
EXTENDS Navigation, FiniteSets

CONSTANTS
    EventPool,    \* the events a capture may produce: [id, at, headline, severity, packet]
    SearchTerms   \* what may be searched for

AnyEvent == ""         \* the empty search

ASSUME TimelineConstants ==
    /\ AnyEvent \in SearchTerms
    /\ \A e \in EventPool : e.id \in Nat /\ e.at \in Nat /\ e.severity \in {"finding", "notable", "neutral"}
    /\ \A e, f \in EventPool : e.id = f.id => e = f

VARIABLES
    eventFeed,    \* the cards of the store
    timeline      \* what the mounted screen holds

timelineVars == <<nav, eventFeed, timeline>>

NoKey == [at |-> -1, headline |-> "none"]
KeyOf(e) == [at |-> e.at, headline |-> e.headline]
SeverityFilters == {"all", "finding", "notable", "neutral"}
TimelineFresh == [mounted |-> FALSE, term |-> AnyEvent, severity |-> "all", key |-> NoKey]

TimelineInit == NavInit /\ eventFeed = {} /\ timeline = TimelineFresh

Precedes(e, f) == e.at < f.at \/ (e.at = f.at /\ e.id < f.id)
First(events) == CHOOSE e \in events : \A f \in events \ {e} : Precedes(e, f)
Last(events) == CHOOSE e \in events : \A f \in events \ {e} : Precedes(f, e)

\* matchesTimelineSearch: a term finds an event by its headline or its severity.
MatchesSearch(e, term) == term = AnyEvent \/ e.headline = term \/ e.severity = term

\* filteredEvents.
Listed(events, screen) ==
    {e \in events : (screen.severity = "all" \/ e.severity = screen.severity) /\ MatchesSearch(e, screen.term)}

Weight(e) == [finding |-> 3, notable |-> 2, neutral |-> 1][e.severity]

\* selectedEventIndex: the remembered event, else the one evidence led to, else the gravest.
Selected(listed, screen, target) ==
    LET remembered == {e \in listed : KeyOf(e) = screen.key}
        followed == {e \in listed : target # 0 /\ e.packet = target}
        gravest == {e \in listed : \A f \in listed : Weight(f) <= Weight(e)}
    IN First(IF remembered # {} THEN remembered ELSE IF followed # {} THEN followed ELSE gravest)

Target == TargetFor("timeline", nav)
NowListed == Listed(eventFeed, timeline)
NowSelected == Selected(NowListed, timeline, Target)

\* TimelineSummary: how many events of each severity, filters apart.
TimelineSummary ==
    [total |-> Cardinality(eventFeed),
     by |-> [s \in SeverityFilters \ {"all"} |-> Cardinality({e \in eventFeed : e.severity = s})]]

TimelineFilters == [clear |-> timeline.term # AnyEvent \/ timeline.severity # "all" \/ Target # 0]

\* resolveCategory: what the card is filed under when it names no category of its own.
ResolveCategory(e) ==
    IF e.headline = "dns" THEN "dns" ELSE IF e.severity = "finding" THEN "security"
    ELSE IF e.packet # 0 THEN "network" ELSE "general"

\* The inspector's stepper is held at both ends of the list.
TimelineInspector ==
    [previous |-> NowSelected # First(NowListed), next |-> NowSelected # Last(NowListed),
     chip |-> NowSelected.packet, category |-> ResolveCategory(NowSelected)]

TimelineView ==
    IF ~timeline.mounted THEN "elsewhere" ELSE IF eventFeed = {} THEN "awaiting"
    ELSE IF NowListed = {} THEN "no_match" ELSE "ribbon"

\* Mutant: the event chosen before stays chosen when evidence is followed.
NotSynced(screen, events, target) == screen

\* The effect that follows a change of the list or of the target.
Synced(screen, events, target) ==
    LET followed == {e \in Listed(events, screen) : target # 0 /\ e.packet = target}
    IN IF screen.mounted /\ followed # {} THEN [screen EXCEPT !.key = KeyOf(First(followed))] ELSE screen

\* The pipeline publishes a card, the store drops one, or the list is replaced by an equal one.
FeedChanges ==
    /\ \E e \in EventPool : eventFeed' \in {eventFeed \cup {e}, eventFeed \ {e}, eventFeed}
    /\ timeline' = Synced(timeline, eventFeed', Target)
    /\ UNCHANGED nav

SetSearch(term) ==
    /\ timeline.mounted /\ eventFeed # {} /\ term # timeline.term
    /\ timeline' = Synced([timeline EXCEPT !.term = term], eventFeed, Target)
    /\ UNCHANGED <<nav, eventFeed>>

SetSeverity(s) ==
    /\ timeline.mounted /\ eventFeed # {} /\ s # timeline.severity
    /\ timeline' = Synced([timeline EXCEPT !.severity = s], eventFeed, Target)
    /\ UNCHANGED <<nav, eventFeed>>

SelectEvent(e) ==
    /\ TimelineView = "ribbon" /\ e \in NowListed
    /\ timeline' = [timeline EXCEPT !.key = KeyOf(e)]
    /\ UNCHANGED <<nav, eventFeed>>

SelectNext ==
    /\ TimelineView = "ribbon" /\ TimelineInspector.next
    /\ timeline' = [timeline EXCEPT !.key = KeyOf(First({e \in NowListed : Precedes(NowSelected, e)}))]
    /\ UNCHANGED <<nav, eventFeed>>

SelectPrev ==
    /\ TimelineView = "ribbon" /\ TimelineInspector.previous
    /\ timeline' = [timeline EXCEPT !.key = KeyOf(Last({e \in NowListed : Precedes(e, NowSelected)}))]
    /\ UNCHANGED <<nav, eventFeed>>

ClearTimelineFilters ==
    /\ timeline.mounted /\ TimelineFilters.clear
    /\ timeline' = [TimelineFresh EXCEPT !.mounted = TRUE]
    /\ nav' = Untargeted
    /\ UNCHANGED eventFeed

\* Any change of screen or target; the screen is mounted and unmounted by it.
MoveTo(n) ==
    /\ n # nav
    /\ nav' = n
    /\ timeline' = IF n.screen # "timeline" THEN TimelineFresh
                   ELSE Synced([timeline EXCEPT !.mounted = TRUE], eventFeed, TargetFor("timeline", n))
    /\ UNCHANGED eventFeed

TimelineNext ==
    \/ FeedChanges \/ SelectNext \/ SelectPrev \/ ClearTimelineFilters
    \/ \E t \in SearchTerms : SetSearch(t)
    \/ \E s \in SeverityFilters : SetSeverity(s)
    \/ \E e \in EventPool : SelectEvent(e)
    \/ \E s \in Screens : MoveTo(Switched(s))
    \/ \E r \in Refs : MoveTo(Followed(r))

-----------------------------------------------------------------------------
TimelineTypeOK ==
    /\ NavTypeOK /\ eventFeed \subseteq EventPool
    /\ timeline.term \in SearchTerms /\ timeline.severity \in SeverityFilters
    /\ timeline.key \in {KeyOf(e) : e \in EventPool} \cup {NoKey}

\* Whatever arrives, is dropped or is filtered: as long as the event the reader chose is
\* listed and no evidence was followed here, it is the one that stays shown (NET-UX-002).
ChosenStaysShown ==
    [][ /\ Target = 0 /\ timeline.mounted
        /\ \/ FeedChanges
           \/ \E t \in SearchTerms : SetSearch(t)
           \/ \E s \in SeverityFilters : SetSeverity(s)
        /\ \E e \in NowListed' : KeyOf(e) = timeline.key
        => KeyOf(NowSelected') = timeline.key ]_timelineVars

\* An event that evidence was followed to is the one shown as long as it is listed and the
\* reader has not picked another since the list was last replaced, be it by an equal one.
FollowedIsShown ==
    [][ /\ timeline'.mounted /\ TargetFor("timeline", nav') # 0
        /\ \/ FeedChanges
           \/ <<nav', timeline'.term, timeline'.severity>> # <<nav, timeline.term, timeline.severity>>
        /\ \E e \in NowListed' : e.packet = TargetFor("timeline", nav')
        => \E e \in EventPool : /\ e.packet = TargetFor("timeline", nav')
                                /\ KeyOf(e) = KeyOf(NowSelected') ]_timelineVars
=============================================================================
