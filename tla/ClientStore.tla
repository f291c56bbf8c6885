----------------------------- MODULE ClientStore -----------------------------
(***************************************************************************)
(* The client store (ui/app/src/state/store.ts): the feed of narrative     *)
(* cards, newest first and bounded, the last monitoring snapshot, the      *)
(* rolling samples behind the sparklines and the connection error.  Every  *)
(* operation runs to completion on the one UI thread, so an operation is   *)
(* an action.                                                              *)
(*                                                                         *)
(* A card's key (its instant and headline) is its instant; a card is the   *)
(* detail it carries: lines (and summary) present or not, and how much     *)
(* evidence.  A snapshot is its number of hosts and of flows.              *)
(* resetSession is left out: only tests call it.                           *)
(***************************************************************************)
EXTENDS Integers, Sequences, FiniteSets, Functions, FiniteSetsExt

CONSTANTS
    Instants,    \* instants of cards
    MaxFeed,     \* MAX_FEED
    MaxSamples,  \* MAX_SAMPLES
    SeqModulus   \* bound: snapshotSequence and the emissions count modulo this

ASSUME StoreConstants ==
    /\ Instants \subseteq Nat
    /\ MaxFeed \in Nat \ {0}
    /\ MaxSamples \in Nat \ {0}
    /\ SeqModulus \in Nat \ {0, 1}

VARIABLES
    cardFeed,       \* instant -> card, for the cards in the feed
    shownMonitor,    \* the last snapshot, or NoMonitor
    snapshotSequence,   \* counts the snapshots
    samples,    \* [cards, hosts, flows]: the rolling histories
    storeError,      \* whether an error is set
    emissions   \* how often the listeners were called

storeVars == <<cardFeed, shownMonitor, snapshotSequence, samples, storeError, emissions>>

Cards == [lines : {0, 1}, evidence : {0, 1}]
NoMonitor == [hosts |-> 0, flows |-> 0]
MonitorAnswers == {[hosts |-> 1, flows |-> 1], [hosts |-> 1, flows |-> 2]}

\* Batches of cards, by instant: one projection gives all its cards the same depth of
\* detail.  Bound: at most two cards in a batch.
Batches == {[i \in d |-> c] : d \in {x \in SUBSET Instants : IsFiniteSet(x) /\ Cardinality(x) <= 2}, c \in Cards}

NewestFirst(c) == [k \in {i \in DOMAIN c :
                        Cardinality({j \in DOMAIN c : j > i}) < MaxFeed} |-> c[k]]

\* mergeCard: an incoming card never takes detail away from the one it replaces.
MergeCard(incoming, existing) ==
    [lines |-> IF incoming.lines > 0 THEN incoming.lines ELSE existing.lines,
     evidence |-> IF incoming.evidence >= existing.evidence
                  THEN incoming.evidence ELSE existing.evidence]

Merged(batch) ==
    [i \in DOMAIN batch |->
        IF i \in DOMAIN cardFeed THEN MergeCard(batch[i], cardFeed[i]) ELSE batch[i]]

\* Mutant: one sample too many is kept.
OneSampleMore(history, x) ==
    LET h == Append(history, x)
    IN IF Len(h) > MaxSamples + 1 THEN Tail(h) ELSE h
Sample(history, x) ==
    LET h == Append(history, x)
    IN IF Len(h) > MaxSamples THEN Tail(h) ELSE h

Emit == emissions' = (emissions + 1) % SeqModulus

StoreInit ==
    /\ cardFeed = <<>>
    /\ shownMonitor = NoMonitor
    /\ snapshotSequence = 0
    /\ samples = [cards |-> <<>>, hosts |-> <<>>, flows |-> <<>>]
    /\ storeError = FALSE
    /\ emissions = 0

\* pushCards: a live delta joins the feed; the newest MaxFeed stay.
Pushed(batch) ==
    LET merged == Merged(batch)
    IN NewestFirst([i \in DOMAIN cardFeed \cup DOMAIN batch |->
                        IF i \in DOMAIN batch THEN merged[i] ELSE cardFeed[i]])

PushCards(batch) ==
    /\ DOMAIN batch # {}
    /\ cardFeed' = Pushed(batch)
    /\ samples' = [samples EXCEPT !.cards = Sample(@, Cardinality(DOMAIN cardFeed'))]
    /\ Emit
    /\ UNCHANGED <<shownMonitor, snapshotSequence, storeError>>

\* setSnapshotBatch(cards?, monitor?, error?): an answer to a poll.  The feed is
\* replaced, though the detail already held is kept; what is absent is left alone.  The
\* first MaxFeed cards stay, the newest ones: the query answers newest first (setFeed).
NewFeed(batch) == NewestFirst(Merged(batch))

SetSnapshotBatch(hasCards, batch, hasMonitor, snap, hasError, e) ==
    /\ cardFeed' = IF hasCards THEN NewFeed(batch) ELSE cardFeed
    /\ IF hasMonitor
       THEN shownMonitor' = snap /\ snapshotSequence' = (snapshotSequence + 1) % SeqModulus
       ELSE UNCHANGED <<shownMonitor, snapshotSequence>>
    /\ samples' = [cards |-> IF hasCards THEN Sample(samples.cards, Cardinality(DOMAIN cardFeed'))
                             ELSE samples.cards,
                   hosts |-> IF hasMonitor THEN Sample(samples.hosts, snap.hosts)
                             ELSE samples.hosts,
                   flows |-> IF hasMonitor THEN Sample(samples.flows, snap.flows)
                             ELSE samples.flows]
    /\ storeError' = IF hasError THEN e ELSE storeError
    /\ IF hasCards \/ hasMonitor \/ storeError' # storeError THEN Emit ELSE UNCHANGED emissions

SetFeed(batch) == SetSnapshotBatch(TRUE, batch, FALSE, NoMonitor, FALSE, FALSE)
SetMonitor(snap) == SetSnapshotBatch(FALSE, <<>>, TRUE, snap, FALSE, FALSE)
SetError(e) == SetSnapshotBatch(FALSE, <<>>, FALSE, NoMonitor, TRUE, e)

StoreNext ==
    \/ \E b \in Batches : PushCards(b)
    \/ \E b \in Batches : SetFeed(b)
    \/ \E s \in MonitorAnswers : SetMonitor(s)
    \/ \E e \in BOOLEAN : SetError(e)
    \/ \E b \in Batches, s \in MonitorAnswers, e \in BOOLEAN :
            SetSnapshotBatch(TRUE, b, TRUE, s, TRUE, e)

-----------------------------------------------------------------------------
StoreTypeOK ==
    /\ DOMAIN cardFeed \subseteq Instants
    /\ Range(cardFeed) \subseteq Cards
    /\ Cardinality(DOMAIN cardFeed) <= MaxFeed
    /\ shownMonitor \in MonitorAnswers \cup {NoMonitor}
    /\ snapshotSequence \in 0 .. SeqModulus - 1
    /\ \A h \in Range(samples) : Len(h) <= MaxSamples
    /\ storeError \in BOOLEAN
    /\ emissions \in 0 .. SeqModulus - 1

\* The sparklines of hosts and of flows are drawn from the same snapshots: whatever
\* mixture of polls and live events arrives, one never has a sample the other lacks,
\* and both end with the snapshot shown beside them.
SamplesMatchSnapshot ==
    /\ Len(samples.hosts) = Len(samples.flows)
    /\ samples.hosts # <<>> =>
          /\ samples.hosts[Len(samples.hosts)] = shownMonitor.hosts
          /\ samples.flows[Len(samples.flows)] = shownMonitor.flows

\* No operation strips a card that stays in the feed of its lines or of its
\* evidence, in whatever order shallow and rich projections of it arrive.
DetailNeverStripped ==
    [][\A i \in DOMAIN cardFeed \cap DOMAIN cardFeed' :
          /\ cardFeed'[i].lines >= cardFeed[i].lines
          /\ cardFeed'[i].evidence >= cardFeed[i].evidence]_storeVars

\* A live delta pushes a card out of the feed only in favour of newer ones and only
\* when the feed is full, so a late delta with old cards cannot displace a newer card.
PushKeepsNewest ==
    \A b \in Batches :
        LET after == DOMAIN Pushed(b)
        IN \A i \in (DOMAIN cardFeed \cup DOMAIN b) \ after :
              Cardinality(after) = MaxFeed /\ \A j \in after : j > i

\* Listeners hear of every change to what they read: no operation changes the store
\* silently.
ChangesAreEmitted ==
    [][<<cardFeed, shownMonitor, samples, storeError>>' # <<cardFeed, shownMonitor, samples, storeError>>
          => emissions' # emissions]_storeVars
=============================================================================
