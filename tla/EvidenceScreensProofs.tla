-------------------------- MODULE EvidenceScreensProofs --------------------------
(***************************************************************************)
(* What holds of the screens on which the observed is read, for every      *)
(* feed, event, session, process, hop, snapshot and target, and any number *)
(* of snapshots, queries, probes, analyses and visits.                     *)
(*                                                                         *)
(* Each part has an invariant of its own, <Part>Inv, that relates what it  *)
(* shows to what it holds and waits for.  The part looked at takes its own *)
(* steps and leaves the variables of the others alone, the navigation      *)
(* apart (OnlyPart); a screen that is not looked at is not mounted, so     *)
(* that the navigation is nothing to it.  The invariants hold together:    *)
(* EvidenceInv.                                                            *)
(***************************************************************************)
EXTENDS EvidenceScreens, TLAPS, FiniteSetTheorems, SequenceTheorems, WellFoundedInduction

-----------------------------------------------------------------------------
\* Facts about numbers and finite sets that several parts need.

\* The pairs of numbers in their order.
Smaller == {pair \in Nat \X Nat : pair[1] < pair[2]}

\* No sequence of numbers falls for ever.
LEMMA SmallerIsWellFounded == IsWellFoundedOn(Smaller, Nat)
  <1>1. Smaller = OpToRel(<, Nat)
    BY DEF Smaller, OpToRel
  <1> QED BY <1>1, NatLessThanWellFounded

\* A set of numbers that is not empty has a least one.
LEMMA LeastOf ==
    ASSUME NEW S \in SUBSET Nat, S # {}
    PROVE  \E m \in S : \A n \in S : m <= n
  <1>1. PICK m \in S : \A n \in S : <<n, m>> \notin Smaller
    BY SmallerIsWellFounded, WFMin
  <1>2. ASSUME NEW n \in S PROVE m <= n
    <2>1. m \in Nat /\ n \in Nat
      OBVIOUS
    <2>2. n < m => <<n, m>> \in Smaller
      BY <2>1 DEF Smaller
    <2> QED BY <1>1, <2>1, <2>2
  <1> QED BY <1>2

\* Of several things, one has the least of a number each has.
LEMMA LeastBy ==
    ASSUME NEW S, S # {}, NEW f \in [S -> Nat]
    PROVE  \E m \in S : \A n \in S : f[m] <= f[n]
  <1> DEFINE values == {f[x] : x \in S}
  <1>1. values \in SUBSET Nat /\ values # {}
    OBVIOUS
  <1>2. PICK v \in values : \A w \in values : v <= w
    <2> HIDE DEF values
    <2> QED BY <1>1, LeastOf
  <1> QED BY <1>2

\* A finite set of numbers has a greatest one.
LEMMA GreatestOf ==
    ASSUME NEW S \in SUBSET Nat, IsFiniteSet(S), S # {}
    PROVE  \E m \in S : \A n \in S : n <= m
  <1> DEFINE above == [x \in S |-> Cardinality({y \in S : y > x})]
  <1>1. \A x \in S : IsFiniteSet({y \in S : y > x}) /\ Cardinality({y \in S : y > x}) \in Nat
    <2> SUFFICES ASSUME NEW x \in S
                 PROVE  IsFiniteSet({y \in S : y > x}) /\ Cardinality({y \in S : y > x}) \in Nat
      OBVIOUS
    <2>1. {y \in S : y > x} \in SUBSET S
      OBVIOUS
    <2> QED BY <2>1, FS_Subset, FS_CardinalityType
  <1>2. PICK m \in S : \A n \in S : above[m] <= above[n]
    <2>1. above \in [S -> Nat]
      BY <1>1
    <2> HIDE DEF above
    <2> QED BY <2>1, LeastBy
  <1>3. ASSUME NEW n \in S, n > m PROVE FALSE
    <2> DEFINE A == {y \in S : y > m}
               B == {y \in S : y > n}
    <2>1. B \in SUBSET A /\ n \in A /\ n \notin B
      <3>1. m \in Nat /\ n \in Nat /\ S \subseteq Nat
        OBVIOUS
      <3>2. ASSUME NEW y \in B PROVE y \in A
        BY <1>3, <3>1
      <3>3. n \in A /\ n \notin B
        BY <1>3, <3>1
      <3> QED BY <3>2, <3>3
    <2>2. IsFiniteSet(A) /\ Cardinality(A) \in Nat /\ Cardinality(B) \in Nat
      BY <1>1
    <2>3. Cardinality(A) <= Cardinality(B)
      BY <1>2
    <2> HIDE DEF A, B
    <2>4. Cardinality(B) <= Cardinality(A) /\ (Cardinality(A) = Cardinality(B) => A = B)
      BY <2>1, <2>2, FS_Subset
    <2> QED BY <2>1, <2>2, <2>3, <2>4
  <1> QED BY <1>3

\* What a one-to-one function makes of a finite set is as many.
LEMMA ImageOfInjection ==
    ASSUME NEW S, IsFiniteSet(S), NEW T, NEW f \in [S -> T],
           \A x, y \in S : f[x] = f[y] => x = y,
           \A y \in T : \E x \in S : y = f[x]
    PROVE  IsFiniteSet(T) /\ Cardinality(T) = Cardinality(S)
  <1>2. f \in Injection(S, T)
    BY DEF Injection, IsInjective
  <1>3. f \in Surjection(S, T)
    BY DEF Surjection
  <1>4. f \in Bijection(S, T)
    BY <1>2, <1>3 DEF Bijection
  <1>5. ExistsBijection(S, T)
    BY <1>4 DEF ExistsBijection
  <1> QED BY <1>5, FS_Bijection

-----------------------------------------------------------------------------
\* The client store (store.ts).

\* A feed of cards, by instant.
IsFeed(c) ==
    /\ c = [i \in DOMAIN c |-> c[i]]
    /\ DOMAIN c \subseteq Instants /\ IsFiniteSet(DOMAIN c)
    /\ \A i \in DOMAIN c : c[i] \in Cards

\* The cards that are newer than one of them.
Later(c, i) == {j \in DOMAIN c : j > i}

\* They are finitely many.
LEMMA LaterCount ==
    ASSUME NEW c, IsFeed(c), NEW i \in Instants
    PROVE  /\ Later(c, i) \subseteq DOMAIN c /\ IsFiniteSet(Later(c, i))
           /\ Cardinality(Later(c, i)) \in Nat
  <1>1. Later(c, i) \in SUBSET DOMAIN c
    BY DEF Later
  <1> QED BY <1>1, FS_Subset, FS_CardinalityType DEF IsFeed

\* The cut of a feed keeps those with fewer than MaxFeed newer ones, as they are.
LEMMA NewestFirstFeed ==
    ASSUME NEW c, IsFeed(c)
    PROVE  /\ IsFeed(NewestFirst(c))
           /\ DOMAIN NewestFirst(c) \subseteq DOMAIN c
           /\ \A i \in DOMAIN NewestFirst(c) : NewestFirst(c)[i] = c[i]
           /\ DOMAIN NewestFirst(c) = {i \in DOMAIN c : Cardinality(Later(c, i)) < MaxFeed}
  <1> DEFINE K == {i \in DOMAIN c : Cardinality(Later(c, i)) < MaxFeed}
  <1>1. NewestFirst(c) = [k \in K |-> c[k]]
    BY DEF NewestFirst, Later
  <1>2. K \in SUBSET DOMAIN c
    OBVIOUS
  <1>3. IsFiniteSet(K)
    BY <1>2, FS_Subset DEF IsFeed
  <1> HIDE DEF K
  <1>4. DOMAIN NewestFirst(c) = K
    BY <1>1
  <1>5. \A i \in K : NewestFirst(c)[i] = c[i]
    BY <1>1
  <1>6. IsFeed(NewestFirst(c))
    BY <1>1, <1>2, <1>3, <1>4, <1>5 DEF IsFeed
  <1> QED BY <1>2, <1>4, <1>5, <1>6 DEF K

\* Of two instants that are not kept alike, the later one is.
LEMMA KeptUpwards ==
    ASSUME NEW c, IsFeed(c), NEW i \in DOMAIN c, NEW j \in DOMAIN c, j > i,
           Cardinality(Later(c, i)) < MaxFeed
    PROVE  Cardinality(Later(c, j)) < MaxFeed
  <1> USE StoreConstants
  <1>1. i \in Instants /\ j \in Instants /\ i \in Nat /\ j \in Nat /\ DOMAIN c \subseteq Nat
    BY DEF IsFeed
  <1>2. Later(c, j) \in SUBSET Later(c, i)
    BY <1>1 DEF Later
  <1> QED BY <1>1, <1>2, LaterCount, FS_Subset

\* The cut leaves no more than MaxFeed cards: the oldest of them has all the others
\* above it.
LEMMA FeedIsBounded ==
    ASSUME NEW c, IsFeed(c)
    PROVE  /\ Cardinality(DOMAIN NewestFirst(c)) \in Nat
           /\ Cardinality(DOMAIN NewestFirst(c)) <= MaxFeed
  <1> USE StoreConstants
  <1> DEFINE K == {i \in DOMAIN c : Cardinality(Later(c, i)) < MaxFeed}
  <1>1. DOMAIN NewestFirst(c) = K
    BY NewestFirstFeed
  <1>2. K \in SUBSET DOMAIN c /\ DOMAIN c \subseteq Nat /\ DOMAIN c \subseteq Instants
    BY DEF IsFeed
  <1>3. IsFiniteSet(K) /\ Cardinality(K) \in Nat
    BY <1>2, FS_Subset, FS_CardinalityType DEF IsFeed
  <1>4. ASSUME K # {} PROVE Cardinality(K) <= MaxFeed
    <2>1. PICK m \in K : \A i \in K : m <= i
      <3>1. K \in SUBSET Nat
        BY <1>2
      <3> HIDE DEF K
      <3> QED BY <3>1, <1>4, LeastOf
    <2>2. m \in DOMAIN c /\ m \in Instants /\ m \in Nat /\ Cardinality(Later(c, m)) < MaxFeed
      BY <1>2
    <2>3. K \ {m} \in SUBSET Later(c, m)
      <3>1. ASSUME NEW i \in K \ {m} PROVE i \in Later(c, m)
        <4>1. i \in DOMAIN c /\ i \in Nat /\ m <= i /\ i # m
          BY <1>2, <2>1
        <4> QED BY <4>1, <2>2 DEF Later
      <3> QED BY <3>1
    <2>4. Cardinality(K \ {m}) <= Cardinality(Later(c, m)) /\ Cardinality(Later(c, m)) \in Nat
      BY <2>2, <2>3, LaterCount, FS_Subset
    <2>5. Cardinality(K \ {m}) = Cardinality(K) - 1
      BY <1>3, <2>1, FS_RemoveElement
    <2> HIDE DEF K
    <2> QED BY <1>3, <2>2, <2>4, <2>5
  <1>5. K = {} => Cardinality(K) <= MaxFeed
    BY FS_EmptySet
  <1> QED BY <1>1, <1>3, <1>4, <1>5

\* What NewestFirst leaves out is older than all it keeps, and it leaves nothing out of a feed
\* that is not full.
LEMMA LeftOutIsOlder ==
    ASSUME NEW c, IsFeed(c), NEW i \in DOMAIN c \ DOMAIN NewestFirst(c)
    PROVE  /\ Cardinality(DOMAIN NewestFirst(c)) = MaxFeed
           /\ \A j \in DOMAIN NewestFirst(c) : j > i
  <1> USE StoreConstants
  <1> DEFINE K == {k \in DOMAIN c : Cardinality(Later(c, k)) < MaxFeed}
             out == DOMAIN c \ K
  <1>1. DOMAIN NewestFirst(c) = K
    BY NewestFirstFeed
  <1>2. DOMAIN c \subseteq Nat /\ DOMAIN c \subseteq Instants /\ IsFiniteSet(DOMAIN c)
    BY DEF IsFeed
  <1>3. \A k \in DOMAIN c : k \in K <=> Cardinality(Later(c, k)) < MaxFeed
    OBVIOUS
  <1>4. \A k \in out : \A j \in K : j > k
    <2> SUFFICES ASSUME NEW k \in out, NEW j \in K, ~(j > k) PROVE FALSE
      OBVIOUS
    <2>1. k \in Nat /\ j \in Nat /\ k \in DOMAIN c /\ j \in DOMAIN c /\ k # j /\ k > j
      BY <1>2
    <2>2. k \in K
      BY <2>1, <1>3, KeptUpwards
    <2> QED BY <2>2
  <1>5. i \in out /\ out \in SUBSET DOMAIN c /\ out \in SUBSET Nat /\ IsFiniteSet(out)
    <2>1. i \in out /\ out \in SUBSET DOMAIN c
      BY <1>1
    <2> HIDE DEF out
    <2> QED BY <1>2, <2>1, FS_Subset
  <1>6. PICK m \in out : \A n \in out : n <= m
    <2> HIDE DEF out
    <2> QED BY <1>5, GreatestOf
  <1>7. Later(c, m) = K
    <2>1. m \in DOMAIN c /\ m \in Nat
      BY <1>5
    <2>2. ASSUME NEW j \in Later(c, m) PROVE j \in K
      <3>1. j \in DOMAIN c /\ j > m /\ j \in Nat
        BY <1>2 DEF Later
      <3>2. j \notin out
        BY <1>6, <2>1, <3>1
      <3> QED BY <3>1, <3>2
    <2>3. ASSUME NEW j \in K PROVE j \in Later(c, m)
      BY <1>4, <2>1 DEF Later
    <2> QED BY <2>2, <2>3
  <1>8. Cardinality(K) \in Nat /\ ~(Cardinality(K) < MaxFeed)
    <2>1. m \in DOMAIN c /\ m \in Instants
      BY <1>2, <1>5
    <2>2. ~(Cardinality(Later(c, m)) < MaxFeed) /\ Cardinality(Later(c, m)) \in Nat
      BY <1>3, <2>1, LaterCount
    <2> HIDE DEF K
    <2> QED BY <1>7, <2>2
  <1>9. Cardinality(K) <= MaxFeed
    BY <1>1, FeedIsBounded
  <1> QED BY <1>1, <1>4, <1>5, <1>8, <1>9

\* A batch is a feed.
LEMMA BatchIsFeed ==
    ASSUME NEW b \in Batches
    PROVE  IsFeed(b)
  <1>1. PICK d \in {x \in SUBSET Instants : IsFiniteSet(x) /\ Cardinality(x) <= 2}, c \in Cards :
            b = [i \in d |-> c]
    BY DEF Batches
  <1> QED BY <1>1 DEF IsFeed

\* Merging a batch into the feed takes nothing from a card.
LEMMA MergedFeed ==
    ASSUME IsFeed(cardFeed), NEW b, IsFeed(b)
    PROVE  /\ IsFeed(Merged(b)) /\ DOMAIN Merged(b) = DOMAIN b
           /\ \A i \in DOMAIN b \cap DOMAIN cardFeed : /\ Merged(b)[i].lines >= cardFeed[i].lines
                                                       /\ Merged(b)[i].evidence >= cardFeed[i].evidence
  <1>1. \A x, y \in Cards : /\ MergeCard(x, y) \in Cards
                            /\ MergeCard(x, y).lines >= y.lines /\ MergeCard(x, y).evidence >= y.evidence
    BY DEF Cards, MergeCard
  <1>2. DOMAIN Merged(b) = DOMAIN b /\ Merged(b) = [i \in DOMAIN Merged(b) |-> Merged(b)[i]]
    BY DEF Merged
  <1>3. \A i \in DOMAIN b : Merged(b)[i] = IF i \in DOMAIN cardFeed THEN MergeCard(b[i], cardFeed[i]) ELSE b[i]
    BY DEF Merged
  <1> QED BY <1>1, <1>2, <1>3 DEF IsFeed

\* What a push starts from: the feed with the batch merged into it.
AllOf(b) == [i \in DOMAIN cardFeed \cup DOMAIN b |-> IF i \in DOMAIN b THEN Merged(b)[i] ELSE cardFeed[i]]

\* It is a feed, and no card of it has lost anything.
LEMMA AllOfFeed ==
    ASSUME IsFeed(cardFeed), NEW b, IsFeed(b)
    PROVE  /\ IsFeed(AllOf(b)) /\ DOMAIN AllOf(b) = DOMAIN cardFeed \cup DOMAIN b
           /\ Pushed(b) = NewestFirst(AllOf(b))
           /\ \A i \in DOMAIN cardFeed : /\ AllOf(b)[i].lines >= cardFeed[i].lines
                                         /\ AllOf(b)[i].evidence >= cardFeed[i].evidence
  <1>1. DOMAIN AllOf(b) = DOMAIN cardFeed \cup DOMAIN b /\ AllOf(b) = [i \in DOMAIN AllOf(b) |-> AllOf(b)[i]]
    BY DEF AllOf
  <1>2. \A i \in DOMAIN AllOf(b) : AllOf(b)[i] = IF i \in DOMAIN b THEN Merged(b)[i] ELSE cardFeed[i]
    BY <1>1 DEF AllOf
  <1>3. IsFiniteSet(DOMAIN cardFeed \cup DOMAIN b)
    BY FS_Union DEF IsFeed
  <1>4. \A i \in DOMAIN cardFeed : cardFeed[i].lines >= cardFeed[i].lines /\ cardFeed[i].evidence >= cardFeed[i].evidence
    BY DEF IsFeed, Cards
  <1>5. IsFeed(AllOf(b))
    BY <1>1, <1>2, <1>3, MergedFeed DEF IsFeed
  <1>6. Pushed(b) = NewestFirst(AllOf(b))
    BY DEF Pushed, AllOf
  <1> QED BY <1>1, <1>2, <1>4, <1>5, <1>6, MergedFeed

\* The sample rings.
Histories == {h \in Seq(Nat) : Len(h) <= MaxSamples}

\* The feed is a feed no longer than MaxFeed, and the rings end in the snapshot shown.
StoreInv ==
    /\ IsFeed(cardFeed) /\ Cardinality(DOMAIN cardFeed) <= MaxFeed
    /\ shownMonitor \in MonitorAnswers \cup {NoMonitor}
    /\ snapshotSequence \in 0 .. SeqModulus - 1
    /\ samples \in [cards : Histories, hosts : Histories, flows : Histories]
    /\ storeError \in BOOLEAN
    /\ emissions \in 0 .. SeqModulus - 1
    /\ SamplesMatchSnapshot

\* A ring that takes a sample stays within its length and ends in that sample.
LEMMA SampleKeeps ==
    ASSUME NEW h \in Histories, NEW x \in Nat
    PROVE  /\ Sample(h, x) \in Histories /\ Sample(h, x) # <<>>
           /\ Sample(h, x)[Len(Sample(h, x))] = x
           /\ Len(Sample(h, x)) = IF Len(h) + 1 > MaxSamples THEN Len(h) ELSE Len(h) + 1
  <1> USE StoreConstants
  <1> DEFINE a == Append(h, x)
  <1>1. a \in Seq(Nat) /\ Len(a) = Len(h) + 1 /\ a[Len(a)] = x /\ Len(h) \in Nat /\ Len(h) <= MaxSamples
    BY DEF Histories
  <1>2. CASE Len(a) > MaxSamples
    <2>1. Sample(h, x) = Tail(a)
      BY <1>2 DEF Sample
    <2> HIDE DEF a
    <2>2. Tail(a) \in Seq(Nat) /\ Len(Tail(a)) = Len(a) - 1 /\ Len(a) > 1
      BY <1>1, <1>2
    <2>3. Tail(a)[Len(a) - 1] = a[Len(a)]
      BY <1>1, <2>2
    <2>4. Tail(a) # <<>>
      <3>1. Len(<<>>) = 0
        OBVIOUS
      <3>2. Len(Tail(a)) > 0
        BY <1>1, <2>2
      <3> QED BY <3>1, <3>2
    <2> QED BY <1>1, <1>2, <2>1, <2>2, <2>3, <2>4 DEF Histories
  <1>3. CASE ~(Len(a) > MaxSamples)
    <2>1. Sample(h, x) = a
      BY <1>3 DEF Sample
    <2> HIDE DEF a
    <2>2. a # <<>>
      BY <1>1
    <2> QED BY <1>1, <1>3, <2>1, <2>2 DEF Histories
  <1> QED BY <1>2, <1>3

\* The modulus of the emission counter does not hide one emission.
LEMMA Emits ==
    ASSUME emissions \in 0 .. SeqModulus - 1, Emit
    PROVE  emissions' \in 0 .. SeqModulus - 1 /\ emissions' # emissions
  <1> USE StoreConstants
  <1>1. CASE emissions + 1 = SeqModulus
    <2>1. SeqModulus % SeqModulus = 0
      OBVIOUS
    <2> QED BY <1>1, <2>1 DEF Emit
  <1>2. CASE emissions + 1 < SeqModulus
    <2>1. (emissions + 1) % SeqModulus = emissions + 1
      BY <1>2
    <2> QED BY <1>2, <2>1 DEF Emit
  <1> QED BY <1>1, <1>2

\* The store when the application starts.
LEMMA StoreStart == ASSUME StoreInit PROVE StoreInv
  <1> USE StoreConstants
  <1>1. IsFeed(cardFeed) /\ Cardinality(DOMAIN cardFeed) <= MaxFeed
    <2>1. DOMAIN cardFeed = {}
      BY DEF StoreInit
    <2> QED BY <2>1, FS_EmptySet DEF StoreInit, IsFeed
  <1>2. <<>> \in Histories
    BY DEF Histories
  <1>3. samples \in [cards : Histories, hosts : Histories, flows : Histories]
        /\ samples.hosts = <<>> /\ samples.flows = <<>>
    BY <1>2 DEF StoreInit
  <1>4. SamplesMatchSnapshot
    BY <1>3 DEF SamplesMatchSnapshot
  <1>5. shownMonitor = NoMonitor /\ snapshotSequence = 0 /\ emissions = 0 /\ storeError = FALSE
    BY DEF StoreInit
  <1>6. 0 \in 0 .. SeqModulus - 1 /\ FALSE \in BOOLEAN
    OBVIOUS
  <1> QED BY <1>1, <1>3, <1>4, <1>5, <1>6, Zenon DEF StoreInv

\* What one operation does to what the theorems speak of.
StoreStepped ==
    /\ \A i \in DOMAIN cardFeed \cap DOMAIN cardFeed' :
          cardFeed'[i].lines >= cardFeed[i].lines /\ cardFeed'[i].evidence >= cardFeed[i].evidence
    /\ <<cardFeed, shownMonitor, samples, storeError>>' # <<cardFeed, shownMonitor, samples, storeError>>
          => emissions' # emissions

\* A live delta.
LEMMA CardsPushed ==
    ASSUME StoreInv, NEW b \in Batches, PushCards(b)
    PROVE  StoreInv' /\ StoreStepped
  <1> USE StoreConstants
  <1>1. cardFeed' = NewestFirst(AllOf(b)) /\ IsFeed(AllOf(b))
    BY BatchIsFeed, AllOfFeed DEF PushCards, StoreInv
  <1>2. IsFeed(cardFeed') /\ Cardinality(DOMAIN cardFeed') <= MaxFeed /\ Cardinality(DOMAIN cardFeed') \in Nat
    BY <1>1, NewestFirstFeed, FeedIsBounded
  <1>3. samples' \in [cards : Histories, hosts : Histories, flows : Histories]
        /\ samples'.hosts = samples.hosts /\ samples'.flows = samples.flows
    <2> DEFINE s == Sample(samples.cards, Cardinality(DOMAIN cardFeed'))
    <2>1. s \in Histories
      BY <1>2, SampleKeeps DEF StoreInv
    <2>2. samples' = [samples EXCEPT !.cards = s]
      BY DEF PushCards
    <2> HIDE DEF s
    <2> QED BY <2>1, <2>2 DEF StoreInv
  <1>4. emissions' \in 0 .. SeqModulus - 1 /\ emissions' # emissions
    BY Emits DEF PushCards, StoreInv
  <1>5. \A i \in DOMAIN cardFeed \cap DOMAIN cardFeed' :
          cardFeed'[i].lines >= cardFeed[i].lines /\ cardFeed'[i].evidence >= cardFeed[i].evidence
    <2> SUFFICES ASSUME NEW i \in DOMAIN cardFeed \cap DOMAIN cardFeed'
                 PROVE  cardFeed'[i].lines >= cardFeed[i].lines /\ cardFeed'[i].evidence >= cardFeed[i].evidence
      OBVIOUS
    <2>1. IsFeed(b) /\ IsFeed(cardFeed)
      BY BatchIsFeed DEF StoreInv
    <2>2. AllOf(b)[i].lines >= cardFeed[i].lines /\ AllOf(b)[i].evidence >= cardFeed[i].evidence
      BY <2>1, AllOfFeed
    <2>3. cardFeed'[i] = AllOf(b)[i]
      BY <1>1, NewestFirstFeed
    <2> QED BY <2>2, <2>3
  <1>6. UNCHANGED <<shownMonitor, snapshotSequence, storeError>>
    BY DEF PushCards
  <1>7. SamplesMatchSnapshot'
    BY <1>3, <1>6 DEF StoreInv, SamplesMatchSnapshot
  <1> QED BY <1>2, <1>3, <1>4, <1>5, <1>6, <1>7 DEF StoreInv, StoreStepped

\* A batch of a poll, any part of it.
LEMMA BatchSet ==
    ASSUME StoreInv, NEW hasCards \in BOOLEAN, NEW b, hasCards => IsFeed(b), NEW hasMonitor \in BOOLEAN,
           NEW snap, hasMonitor => snap \in MonitorAnswers, NEW hasError \in BOOLEAN, NEW e \in BOOLEAN,
           SetSnapshotBatch(hasCards, b, hasMonitor, snap, hasError, e)
    PROVE  StoreInv' /\ StoreStepped
  <1> USE StoreConstants
  <1>1. IsFeed(cardFeed') /\ Cardinality(DOMAIN cardFeed') <= MaxFeed /\ Cardinality(DOMAIN cardFeed') \in Nat
        /\ \A i \in DOMAIN cardFeed \cap DOMAIN cardFeed' :
              cardFeed'[i].lines >= cardFeed[i].lines /\ cardFeed'[i].evidence >= cardFeed[i].evidence
    <2>1. CASE hasCards
      <3>1. cardFeed' = NewestFirst(Merged(b)) /\ IsFeed(Merged(b))
        BY <2>1, MergedFeed DEF SetSnapshotBatch, NewFeed, StoreInv
      <3>2. IsFeed(cardFeed') /\ Cardinality(DOMAIN cardFeed') <= MaxFeed /\ Cardinality(DOMAIN cardFeed') \in Nat
        BY <3>1, NewestFirstFeed, FeedIsBounded
      <3>3. ASSUME NEW i \in DOMAIN cardFeed \cap DOMAIN cardFeed'
            PROVE  cardFeed'[i].lines >= cardFeed[i].lines /\ cardFeed'[i].evidence >= cardFeed[i].evidence
        <4>1. IsFeed(b) /\ IsFeed(cardFeed)
          BY <2>1 DEF StoreInv
        <4>2. cardFeed'[i] = Merged(b)[i] /\ i \in DOMAIN Merged(b)
          BY <3>1, NewestFirstFeed
        <4> QED BY <4>1, <4>2, MergedFeed
      <3> QED BY <3>2, <3>3
    <2>2. CASE ~hasCards
      <3>1. cardFeed' = cardFeed
        BY <2>2 DEF SetSnapshotBatch
      <3> QED BY <3>1, FS_CardinalityType DEF StoreInv, IsFeed, Cards
    <2> QED BY <2>1, <2>2
  <1> DEFINE cs == IF hasCards THEN Sample(samples.cards, Cardinality(DOMAIN cardFeed')) ELSE samples.cards
             hs == IF hasMonitor THEN Sample(samples.hosts, snap.hosts) ELSE samples.hosts
             fs == IF hasMonitor THEN Sample(samples.flows, snap.flows) ELSE samples.flows
  <1>2. samples' = [cards |-> cs, hosts |-> hs, flows |-> fs]
    BY DEF SetSnapshotBatch
  <1>3. samples.cards \in Histories /\ samples.hosts \in Histories /\ samples.flows \in Histories
    BY DEF StoreInv
  <1>4. hasMonitor => snap.hosts \in Nat /\ snap.flows \in Nat
    BY DEF MonitorAnswers
  <1>5. cs \in Histories /\ hs \in Histories /\ fs \in Histories
    BY <1>1, <1>3, <1>4, SampleKeeps
  <1>6. IF hasMonitor THEN shownMonitor' = snap /\ snapshotSequence' = (snapshotSequence + 1) % SeqModulus
        ELSE shownMonitor' = shownMonitor /\ snapshotSequence' = snapshotSequence
    BY DEF SetSnapshotBatch
  <1>7. shownMonitor' \in MonitorAnswers \cup {NoMonitor}
    BY <1>6 DEF StoreInv
  <1>8. snapshotSequence' \in 0 .. SeqModulus - 1
    BY <1>6 DEF StoreInv
  <1>9. storeError' = IF hasError THEN e ELSE storeError
    BY DEF SetSnapshotBatch
  <1>10. emissions' \in 0 .. SeqModulus - 1
         /\ (hasCards \/ hasMonitor \/ storeError' # storeError => emissions' # emissions)
    <2>1. IF hasCards \/ hasMonitor \/ storeError' # storeError THEN Emit ELSE UNCHANGED emissions
      BY DEF SetSnapshotBatch
    <2> QED BY <2>1, Emits DEF StoreInv
  <1>11. SamplesMatchSnapshot'
    <2>1. samples'.hosts = hs /\ samples'.flows = fs
      BY <1>2
    <2>2. Len(samples.hosts) = Len(samples.flows)
      BY DEF StoreInv, SamplesMatchSnapshot
    <2>3. CASE hasMonitor
      <3>1. hs = Sample(samples.hosts, snap.hosts) /\ fs = Sample(samples.flows, snap.flows)
        BY <2>3
      <3>2. Len(hs) = Len(fs) /\ hs[Len(hs)] = snap.hosts /\ fs[Len(fs)] = snap.flows
        <4>1. snap.hosts \in Nat /\ snap.flows \in Nat
          BY <1>4, <2>3
        <4>2. hs[Len(hs)] = snap.hosts
              /\ Len(hs) = IF Len(samples.hosts) + 1 > MaxSamples THEN Len(samples.hosts) ELSE Len(samples.hosts) + 1
          BY <1>3, <3>1, <4>1, SampleKeeps
        <4>3. fs[Len(fs)] = snap.flows
              /\ Len(fs) = IF Len(samples.flows) + 1 > MaxSamples THEN Len(samples.flows) ELSE Len(samples.flows) + 1
          BY <1>3, <3>1, <4>1, SampleKeeps
        <4> HIDE DEF hs, fs
        <4> QED BY <2>2, <4>2, <4>3
      <3> HIDE DEF hs, fs
      <3> QED BY <1>6, <2>1, <2>3, <3>2 DEF SamplesMatchSnapshot
    <2>4. CASE ~hasMonitor
      BY <1>6, <2>1, <2>4 DEF StoreInv, SamplesMatchSnapshot
    <2> QED BY <2>3, <2>4
  <1>12. ~hasCards /\ ~hasMonitor /\ storeError' = storeError
           => <<cardFeed, shownMonitor, samples, storeError>>' = <<cardFeed, shownMonitor, samples, storeError>>
    BY <1>2, <1>6 DEF SetSnapshotBatch, StoreInv
  <1>13. samples' \in [cards : Histories, hosts : Histories, flows : Histories]
    <2> HIDE DEF cs, hs, fs
    <2> QED BY <1>2, <1>5
  <1>14. StoreInv'
    BY <1>1, <1>13, <1>7, <1>8, <1>9, <1>10, <1>11 DEF StoreInv
  <1>15. StoreStepped
    BY <1>1, <1>10, <1>12 DEF StoreStepped
  <1> QED BY <1>14, <1>15

\* Every step of the store, in any order of deltas and polls.
LEMMA StoreStep == ASSUME StoreInv, [StoreNext]_storeVars PROVE StoreInv' /\ (StoreStepped \/ UNCHANGED storeVars)
  <1>1. CASE UNCHANGED storeVars
    BY <1>1 DEF storeVars, StoreInv, SamplesMatchSnapshot
  <1>2. ASSUME NEW b \in Batches, PushCards(b) PROVE StoreInv' /\ StoreStepped
    BY <1>2, CardsPushed
  <1>3. ASSUME NEW b \in Batches, SetFeed(b) PROVE StoreInv' /\ StoreStepped
    <2>1. SetSnapshotBatch(TRUE, b, FALSE, NoMonitor, FALSE, FALSE)
      BY <1>3 DEF SetFeed
    <2>2. TRUE \in BOOLEAN /\ FALSE \in BOOLEAN /\ (TRUE => IsFeed(b)) /\ (FALSE => NoMonitor \in MonitorAnswers)
      BY BatchIsFeed
    <2> QED BY <2>1, <2>2, BatchSet, Zenon
  <1>4. ASSUME NEW s \in MonitorAnswers, SetMonitor(s) PROVE StoreInv' /\ StoreStepped
    <2>1. SetSnapshotBatch(FALSE, <<>>, TRUE, s, FALSE, FALSE)
      BY <1>4 DEF SetMonitor
    <2>2. TRUE \in BOOLEAN /\ FALSE \in BOOLEAN /\ (FALSE => IsFeed(<<>>)) /\ (TRUE => s \in MonitorAnswers)
      OBVIOUS
    <2> QED BY <2>1, <2>2, BatchSet, Zenon
  <1>5. ASSUME NEW e \in BOOLEAN, SetError(e) PROVE StoreInv' /\ StoreStepped
    <2>1. SetSnapshotBatch(FALSE, <<>>, FALSE, NoMonitor, TRUE, e)
      BY <1>5 DEF SetError
    <2>2. TRUE \in BOOLEAN /\ FALSE \in BOOLEAN /\ (FALSE => IsFeed(<<>>)) /\ (FALSE => NoMonitor \in MonitorAnswers)
      OBVIOUS
    <2> QED BY <2>1, <2>2, BatchSet, Zenon
  <1>6. ASSUME NEW b \in Batches, NEW s \in MonitorAnswers, NEW e \in BOOLEAN,
               SetSnapshotBatch(TRUE, b, TRUE, s, TRUE, e)
        PROVE StoreInv' /\ StoreStepped
    <2>2. TRUE \in BOOLEAN /\ (TRUE => IsFeed(b)) /\ (TRUE => s \in MonitorAnswers)
      BY BatchIsFeed
    <2> QED BY <1>6, <2>2, BatchSet, Zenon
  <1> QED BY <1>1, <1>2, <1>3, <1>4, <1>5, <1>6 DEF StoreNext

\* The samples are of the snapshot, and a delta displaces older cards only.
LEMMA StoreHolds == ASSUME StoreInv PROVE StoreTypeOK /\ SamplesMatchSnapshot /\ PushKeepsNewest
  <1>1. Range(cardFeed) \subseteq Cards
    BY DEF StoreInv, IsFeed, Range
  <1>2. \A h \in Range(samples) : Len(h) <= MaxSamples
    BY DEF StoreInv, Histories, Range
  <1>3. PushKeepsNewest
    BY BatchIsFeed, AllOfFeed, LeftOutIsOlder DEF StoreInv, PushKeepsNewest
  <1> QED BY <1>1, <1>2, <1>3 DEF StoreInv, IsFeed, StoreTypeOK

-----------------------------------------------------------------------------
\* The dashboard (Dashboard.tsx).

\* The states of the screen.
DashScreens == [mounted : BOOLEAN, category : NarrativeCategories, search : SearchWords,
                notice : AllRefs \cup {NoRef}, retrying : BOOLEAN]

\* The board is one that can be sent, the screen is such a screen, and a retry that is
\* shown is under way.
DashboardInv ==
    /\ board \in [feed : Feeds, diagnosis : EngineDiagnoses, telemetry : {"none", "active", "standby"},
                  error : {"none", "failed"}]
    /\ dash \in DashScreens
    /\ dashCalls \in 0..MaxRetries
    /\ RetryHasCause

\* The categories of the cards can be chosen.
LEMMA CategoriesOfCards ==
    /\ CardCategories \subseteq NarrativeCategories
    /\ {"all", "findings", "performance"} \subseteq NarrativeCategories
    /\ \A c \in FeedCards : c.category # "none" => c.category \in CardCategories
  BY DashboardConstants DEF CardCategories, NarrativeCategories

\* The absence of a reference is none.
LEMMA NoRefIsNoCitation == NoRef \notin Citations
  BY DEF NoRef, Citations

\* The evidence of a card is such references, the first among them.
LEMMA RefsOfCards ==
    ASSUME NEW c \in FeedCards
    PROVE  /\ EvidenceOf(c) \subseteq AllRefs /\ EvidenceOf(c) \subseteq Citations
           /\ FirstRef(c.evidence) # NoRef => FirstRef(c.evidence) \in EvidenceOf(c)
  <1>1. c.evidence \in Seq(Citations)
    BY DashboardConstants
  <1>2. EvidenceOf(c) \subseteq AllRefs
    BY DEF AllRefs
  <1>3. EvidenceOf(c) \subseteq Citations
    BY <1>1 DEF EvidenceOf
  <1>4. c.evidence # <<>> => c.evidence[1] \in EvidenceOf(c)
    BY <1>1 DEF EvidenceOf
  <1> QED BY <1>2, <1>3, <1>4 DEF FirstRef

\* The first reference of a diagnosis.
LEMMA RefsOfDiagnoses ==
    ASSUME NEW d \in EngineDiagnoses
    PROVE  FirstRef(d.evidence) \in AllRefs \cup {NoRef}
  <1>1. d.evidence \in Seq(Citations)
    BY DashboardConstants
  <1>2. d.evidence # <<>> => d.evidence[1] \in EvidenceOf(d)
    BY <1>1 DEF EvidenceOf
  <1> QED BY <1>2 DEF FirstRef, AllRefs

\* Every reference there is cites something.
LEMMA AllRefsAreCitations == AllRefs \subseteq Citations
  <1>1. \A c \in FeedCards \cup EngineDiagnoses : c.evidence \in Seq(Citations)
    BY DashboardConstants
  <1>2. \A c \in FeedCards \cup EngineDiagnoses : EvidenceOf(c) \subseteq Citations
    BY <1>1 DEF EvidenceOf
  <1> QED BY <1>2 DEF AllRefs

\* The first card of some places of the feed is one of them.
LEMMA FirstCard ==
    ASSUME board.feed \in Feeds, NEW places \in SUBSET DOMAIN board.feed
    PROVE  /\ FirstOf(places) \subseteq FeedCards
           /\ FirstOf(places) \subseteq {board.feed[i] : i \in places}
           /\ places # {} => FirstOf(places) # {}
           /\ \A c, d \in FirstOf(places) : c = d
  <1>1. board.feed \in Seq(FeedCards) /\ DOMAIN board.feed \subseteq Nat
    BY DashboardConstants
  <1>2. \A i \in DOMAIN board.feed : board.feed[i] \in FeedCards
    BY <1>1
  <1>3. places # {} => \E i \in places : \A j \in places : i <= j
    BY <1>1, LeastOf
  <1>4. \A i, j \in places : i <= j /\ j <= i => i = j
    BY <1>1
  <1> QED BY <1>2, <1>3, <1>4 DEF FirstOf

\* The first card of a severity.
LEMMA CardWithSeverity ==
    ASSUME board.feed \in Feeds, NEW severity
    PROVE  /\ \A c \in WithSeverity(severity) : /\ c \in FeedCards /\ c.severity = severity
                                                /\ \E i \in DOMAIN board.feed : c = board.feed[i]
           /\ \A c, d \in WithSeverity(severity) : c = d
  <1> DEFINE places == {i \in DOMAIN board.feed : board.feed[i].severity = severity}
  <1>1. WithSeverity(severity) = FirstOf(places)
    BY DEF WithSeverity
  <1>2. places \in SUBSET DOMAIN board.feed
    OBVIOUS
  <1>3. /\ FirstOf(places) \subseteq FeedCards /\ FirstOf(places) \subseteq {board.feed[i] : i \in places}
        /\ \A c, d \in FirstOf(places) : c = d
    BY <1>2, FirstCard
  <1> QED BY <1>1, <1>3

\* The first card that cites a reference.
LEMMA CardOfEvidence ==
    ASSUME board.feed \in Feeds, NEW ref
    PROVE  /\ \A c \in TargetCard(ref) : c \in FeedCards /\ ref \in EvidenceOf(c)
           /\ \A c, d \in TargetCard(ref) : c = d
           /\ (\E i \in DOMAIN board.feed : ref \in EvidenceOf(board.feed[i])) => TargetCard(ref) # {}
  <1> DEFINE places == {i \in DOMAIN board.feed : ref \in EvidenceOf(board.feed[i])}
  <1>1. TargetCard(ref) = FirstOf(places)
    BY DEF TargetCard
  <1>2. places \in SUBSET DOMAIN board.feed
    OBVIOUS
  <1>3. /\ FirstOf(places) \subseteq FeedCards /\ FirstOf(places) \subseteq {board.feed[i] : i \in places}
        /\ \A c, d \in FirstOf(places) : c = d
        /\ places # {} => FirstOf(places) # {}
    BY <1>2, FirstCard
  <1> QED BY <1>1, <1>3

\* The summary points to evidence of the diagnosis or of a card of the feed.
LEMMA SummaryRef ==
    ASSUME DashboardInv
    PROVE  /\ Summary.ref \in AllRefs \cup {NoRef}
           /\ Summary.ref # NoRef => board.diagnosis # NoDiagnosis \/ TargetCard(Summary.ref) # {}
  <1> DEFINE worst == IF WithSeverity("finding") # {} THEN "finding" ELSE "notable"
             card == CHOOSE c \in WithSeverity(worst) : TRUE
  <1>1. board.feed \in Feeds /\ board.diagnosis \in EngineDiagnoses
    BY DEF DashboardInv
  <1>2. CASE board.diagnosis # NoDiagnosis
    <2>1. Summary.ref = FirstRef(board.diagnosis.evidence)
      BY <1>2 DEF Summary
    <2> QED BY <1>1, <1>2, <2>1, RefsOfDiagnoses
  <1>3. CASE board.diagnosis = NoDiagnosis /\ WithSeverity(worst) # {}
    <2>1. Summary.ref = FirstRef(card.evidence)
      BY <1>3 DEF Summary
    <2>2. card \in WithSeverity(worst)
      BY <1>3
    <2> HIDE DEF card, worst
    <2>3. PICK i \in DOMAIN board.feed : card = board.feed[i]
      BY <1>1, <2>2, CardWithSeverity
    <2>4. card \in FeedCards
      BY <1>1, <2>2, CardWithSeverity
    <2>5. Summary.ref # NoRef => Summary.ref \in EvidenceOf(card)
      BY <2>1, <2>4, RefsOfCards
    <2>6. EvidenceOf(card) \subseteq AllRefs
      BY <2>4, RefsOfCards
    <2>7. Summary.ref # NoRef => TargetCard(Summary.ref) # {}
      BY <1>1, <2>3, <2>5, CardOfEvidence
    <2> QED BY <2>5, <2>6, <2>7
  <1>4. CASE board.diagnosis = NoDiagnosis /\ WithSeverity(worst) = {}
    <2>1. Summary.ref = NoRef
      BY <1>4 DEF Summary
    <2> QED BY <2>1
  <1> QED BY <1>2, <1>3, <1>4

\* The category a card is shown under can be chosen.
LEMMA CategoryIsOne ==
    ASSUME DashboardInv, NEW c \in FeedCards, NEW type
    PROVE  CategoryFor(c) \in NarrativeCategories /\ RecommendedCategory(type, c) \in NarrativeCategories
  <1>1. dash.category \in NarrativeCategories
    BY DEF DashboardInv, DashScreens
  <1> QED BY <1>1, CategoriesOfCards DEF CategoryFor, RecommendedCategory

\* The screen after the filters were widened.
LEMMA ShownCardIsScreen ==
    ASSUME DashboardInv, NEW category \in NarrativeCategories
    PROVE  /\ ShownCard(category) \in DashScreens
           /\ ShownCard(category).category = category /\ ShownCard(category).search = AnyWord
           /\ ShownCard(category).mounted = dash.mounted /\ ShownCard(category).retrying = dash.retrying
  BY DashboardConstants DEF DashboardInv, DashScreens, ShownCard

\* The dashboard when it is opened.
LEMMA DashboardStart == ASSUME DashboardInit PROVE DashboardInv
  <1>1. DashFresh \in DashScreens /\ ~DashFresh.retrying
    BY DashboardConstants, CategoriesOfCards DEF DashFresh, DashScreens
  <1> QED BY <1>1, DashboardConstants DEF DashboardInit, DashboardInv, RetryHasCause

\* Every step of the dashboard and of the boards it is sent.
LEMMA DashboardStep == ASSUME DashboardInv, [DashboardNext]_dashboardVars PROVE DashboardInv'
  <1> USE DashboardConstants
  <1>0. DashFresh \in DashScreens /\ ~DashFresh.retrying
    BY CategoriesOfCards DEF DashFresh, DashScreens
  <1>1. CASE UNCHANGED dashboardVars
    BY <1>1 DEF dashboardVars, DashboardInv, RetryHasCause
  <1> DEFINE boards == [feed : Feeds, diagnosis : EngineDiagnoses, telemetry : {"none", "active", "standby"},
                        error : {"none", "failed"}]
             coming == ComingSnapshots \cup {HeldSnapshot}
  <1>a. ASSUME NEW f \in Feeds, NEW s \in coming, NEW error \in {"none", "failed"}, Batch(f, s, error)
        PROVE  board' \in boards
    <2>1. s.diagnosis \in EngineDiagnoses /\ s.telemetry \in {"none", "active", "standby"}
      BY DEF DashboardInv, ComingSnapshots, HeldSnapshot
    <2> QED BY <1>a, <2>1 DEF Batch
  <1> HIDE DEF coming
  <1>2. ASSUME NEW f \in Feeds, NEW s \in coming, NEW error \in {"none", "failed"}, FeedArrives(f, s, error)
        PROVE  DashboardInv'
    BY <1>2, <1>a DEF FeedArrives, DashboardInv, RetryHasCause
  <1>b. ASSUME RetryOver, board' \in boards
        PROVE  DashboardInv'
    <2>1. dashCalls > 0 /\ dashCalls' = dashCalls - 1
      BY <1>b DEF RetryOver
    <2>2. \/ dash.retrying /\ dash' = [dash EXCEPT !.retrying = FALSE]
          \/ (~dash.retrying \/ dashCalls > 1) /\ dash' = dash
      BY <1>b DEF RetryOver
    <2>3. dashCalls' \in 0..MaxRetries
      BY <2>1 DEF DashboardInv
    <2>5. dash' \in DashScreens
      BY <2>2 DEF DashboardInv, DashScreens
    <2>6. RetryHasCause'
      BY <2>1, <2>2 DEF DashboardInv, DashScreens, RetryHasCause
    <2> QED BY <1>b, <2>3, <2>5, <2>6 DEF DashboardInv
  <1>3. ASSUME NEW f \in Feeds, NEW s \in coming, RetryServed(f, s) PROVE DashboardInv'
    BY <1>3, <1>a, <1>b DEF RetryServed
  <1>c. CASE RetryRefused
    <2>1. board.feed \in Feeds /\ HeldSnapshot \in coming
      BY DEF DashboardInv, coming
    <2> QED BY <1>c, <1>a, <1>b, <2>1 DEF RetryRefused
  <1>4. ASSUME NEW c \in NarrativeCategories, SetCategory(c) PROVE DashboardInv'
    BY <1>4 DEF SetCategory, DashboardInv, DashScreens, RetryHasCause
  <1>5. ASSUME NEW s \in SearchWords, SetDashSearch(s) PROVE DashboardInv'
    BY <1>5 DEF SetDashSearch, DashboardInv, DashScreens, RetryHasCause
  <1>6. ASSUME NEW r \in AllRefs, HandleNavigateToEvidence(r) PROVE DashboardInv'
    <2>1. UNCHANGED <<board, dashCalls>>
      BY <1>6 DEF HandleNavigateToEvidence
    <2>2. CASE TargetCard(r) = {}
      <3>1. dash' = [dash EXCEPT !.notice = r]
        BY <1>6, <2>2 DEF HandleNavigateToEvidence
      <3> QED BY <2>1, <3>1 DEF DashboardInv, DashScreens, RetryHasCause
    <2>3. CASE TargetCard(r) # {}
      <3> DEFINE card == CHOOSE c \in TargetCard(r) : TRUE
      <3>1. dash' = ShownCard(CategoryFor(card))
        BY <1>6, <2>3 DEF HandleNavigateToEvidence
      <3>2. card \in FeedCards
        BY <2>3, CardOfEvidence DEF DashboardInv
      <3> HIDE DEF card
      <3> QED BY <2>1, <3>1, <3>2, CategoryIsOne, ShownCardIsScreen DEF DashboardInv, RetryHasCause
    <2> QED BY <2>2, <2>3
  <1>7. CASE FeedFails
    BY <1>7 DEF FeedFails, DashboardInv, RetryHasCause
  <1>8. CASE ClearDashFilters
    BY <1>8, CategoriesOfCards DEF ClearDashFilters, DashboardInv, DashScreens, RetryHasCause
  <1>9. CASE HandleRecommendationClick
    <2> DEFINE ref == Summary.ref
    <2>1. UNCHANGED <<board, dashCalls>>
      BY <1>9 DEF HandleRecommendationClick
    <2>2. CASE ref = NoRef
      <3> DEFINE cat == IF Summary.type = "investigate" THEN "findings" ELSE "all"
      <3>1. dash' = [dash EXCEPT !.category = cat] /\ cat \in NarrativeCategories
        BY <1>9, <2>2, CategoriesOfCards DEF HandleRecommendationClick
      <3> HIDE DEF cat
      <3> QED BY <2>1, <3>1 DEF DashboardInv, DashScreens, RetryHasCause
    <2>3. CASE ref # NoRef /\ TargetCard(ref) = {}
      <3>1. dash' = [dash EXCEPT !.notice = ref]
        BY <1>9, <2>3 DEF HandleRecommendationClick
      <3>2. ref \in AllRefs \cup {NoRef}
        BY SummaryRef
      <3> HIDE DEF ref
      <3> QED BY <2>1, <3>1, <3>2 DEF DashboardInv, DashScreens, RetryHasCause
    <2>4. CASE ref # NoRef /\ TargetCard(ref) # {}
      <3> DEFINE card == CHOOSE c \in TargetCard(ref) : TRUE
      <3>1. dash' = ShownCard(RecommendedCategory(Summary.type, card))
        BY <1>9, <2>4 DEF HandleRecommendationClick
      <3>2. card \in FeedCards
        BY <2>4, CardOfEvidence DEF DashboardInv
      <3> HIDE DEF card
      <3> QED BY <2>1, <3>1, <3>2, CategoryIsOne, ShownCardIsScreen DEF DashboardInv, RetryHasCause
    <2> QED BY <2>2, <2>3, <2>4
  <1>10. CASE HandleNoticeNavigate
    BY <1>0, <1>10 DEF HandleNoticeNavigate, DashboardInv, DashScreens, RetryHasCause
  <1>11. CASE DismissEvidenceNotice
    BY <1>11 DEF DismissEvidenceNotice, DashboardInv, DashScreens, RetryHasCause
  <1>12. CASE LeaveDashboard
    BY <1>0, <1>12 DEF LeaveDashboard, DashboardInv, DashScreens, RetryHasCause
  <1>13. CASE OpenDashboard
    BY <1>0, <1>13 DEF OpenDashboard, DashboardInv, RetryHasCause
  <1>14. CASE HandleRetry
    <2>1. /\ dash.mounted /\ dashCalls < MaxRetries /\ board' = board
          /\ dash' = [dash EXCEPT !.retrying = TRUE] /\ dashCalls' = dashCalls + 1
      BY <1>14 DEF HandleRetry
    <2>2. dashCalls' \in 0..MaxRetries /\ dashCalls' > 0
      BY <2>1 DEF DashboardInv
    <2> QED BY <2>1, <2>2 DEF DashboardInv, DashScreens, RetryHasCause
  <1> QED BY <1>1, <1>2, <1>3, <1>4, <1>5, <1>6, <1>7, <1>8, <1>9, <1>10, <1>11, <1>12, <1>13, <1>14, <1>c
          DEF DashboardNext, coming

\* A card matches its own category, and the ones the screen falls back to.
LEMMA CategoryMatches ==
    ASSUME NEW c \in FeedCards, NEW type
    PROVE  CardMatchesCategory(c, CategoryFor(c)) /\ CardMatchesCategory(c, RecommendedCategory(type, c))
  <1>1. CardMatchesCategory(c, "all")
    BY DEF CardMatchesCategory
  <1>2. c.severity = "finding" => CardMatchesCategory(c, "findings")
    BY DEF CardMatchesCategory
  <1>3. ASSUME c.category # "none" PROVE CardMatchesCategory(c, c.category)
    <2>1. c.category \in CardCategories
      BY <1>3, CategoriesOfCards
    <2>2. ByCategory(c, c.category)
      BY <2>1 DEF ByCategory, CardCategories
    <2>3. c.category # "all" /\ c.category # "findings"
      BY <2>1 DEF CardCategories
    <2> QED BY <1>3, <2>2, <2>3 DEF CardMatchesCategory
  <1> QED BY <1>1, <1>2, <1>3 DEF CategoryFor, RecommendedCategory

\* Whoever is taken to a card finds it listed, or is told there is none.
LEMMA EvidenceLeads ==
    ASSUME DashboardInv, board' = board, NEW ref \in AllRefs,
           HandleNavigateToEvidence(ref) \/ (Summary.ref = ref /\ HandleRecommendationClick)
    PROVE  IF TargetCard(ref) = {} THEN dash'.notice = ref /\ dash'.category = dash.category
           ELSE \A c \in TargetCard(ref) : IsListed(c, dash'.category, dash'.search)
  <1>1. ref # NoRef
    BY AllRefsAreCitations, NoRefIsNoCitation
  <1>2. CASE TargetCard(ref) = {}
    <2>1. dash' = [dash EXCEPT !.notice = ref]
      BY <1>1, <1>2 DEF HandleNavigateToEvidence, HandleRecommendationClick
    <2> QED BY <1>2, <2>1 DEF DashboardInv, DashScreens
  <1>3. CASE TargetCard(ref) # {}
    <2> DEFINE card == CHOOSE c \in TargetCard(ref) : TRUE
    <2>1. \/ dash' = ShownCard(CategoryFor(card))
          \/ dash' = ShownCard(RecommendedCategory(Summary.type, card))
      BY <1>1, <1>3 DEF HandleNavigateToEvidence, HandleRecommendationClick
    <2>2. card \in TargetCard(ref)
      BY <1>3
    <2> HIDE DEF card
    <2>3. card \in FeedCards /\ \A c \in TargetCard(ref) : c = card
      BY <2>2, CardOfEvidence DEF DashboardInv
    <2>4. CardMatchesCategory(card, dash'.category) /\ dash'.search = AnyWord
      BY <2>1, <2>3, CategoryMatches, CategoryIsOne, ShownCardIsScreen
    <2> QED BY <1>3, <2>3, <2>4 DEF IsListed
  <1> QED BY <1>2, <1>3

\* The retry has its cause, and the summary is of the diagnosis or else of the findings.
LEMMA DashboardHolds == ASSUME DashboardInv PROVE DashboardTypeOK /\ RetryHasCause /\ FindingsAreNotHidden
  <1>1. DashboardTypeOK /\ RetryHasCause
    BY DEF DashboardInv, DashScreens, DashboardTypeOK
  <1> DEFINE worst == IF WithSeverity("finding") # {} THEN "finding" ELSE "notable"
  <1>2. board.diagnosis # NoDiagnosis => Summary.health \in {"finding", "notable"}
    BY DEF Summary
  <1>3. board.diagnosis = NoDiagnosis /\ WithSeverity(worst) # {} => Summary.health = worst
    BY DEF Summary
  <1>4. WithSeverity("finding") # {} /\ board.diagnosis = NoDiagnosis => Summary.health = "finding"
    BY <1>3
  <1>5. WithSeverity("finding") # {} /\ board.diagnosis = NoDiagnosis => Hero = "finding"
    BY <1>4 DEF Hero
  <1>6. Hero \in {"healthy", "idle"} => Summary.health \notin {"finding", "notable"}
    BY DEF Hero
  <1>7. Hero \in {"healthy", "idle"}
          => board.diagnosis = NoDiagnosis /\ WithSeverity("finding") \cup WithSeverity("notable") = {}
    BY <1>2, <1>3, <1>6
  <1>8. ASSUME board.diagnosis = NoDiagnosis, NEW c \in WithSeverity("finding")
        PROVE  Hero = "finding" /\ Summary.ref = FirstRef(c.evidence)
    <2>1. WithSeverity("finding") # {} /\ worst = "finding"
      BY <1>8
    <2>2. Summary.ref = FirstRef((CHOOSE d \in WithSeverity("finding") : TRUE).evidence)
      BY <1>8, <2>1 DEF Summary
    <2>3. (CHOOSE d \in WithSeverity("finding") : TRUE) \in WithSeverity("finding")
      BY <2>1
    <2>4. (CHOOSE d \in WithSeverity("finding") : TRUE) = c
      BY <2>3, CardWithSeverity DEF DashboardInv
    <2> QED BY <1>5, <1>8, <2>1, <2>2, <2>4
  <1> QED BY <1>1, <1>7, <1>8, SummaryRef DEF FindingsAreNotHidden

-----------------------------------------------------------------------------
\* The figures of the dashboard.

\* A series whose last value is this one, or an empty one.
Ends(s, v) == s = <<>> \/ s[Len(s)] = v

\* The last points of a series end in its last value.
LEMMA LastPointsOf ==
    ASSUME NEW S, NEW s \in Seq(S), NEW n \in Nat \ {0}
    PROVE  /\ LastPoints(s, n) \in Seq(S)
           /\ Len(LastPoints(s, n)) = IF Len(s) > n THEN n ELSE Len(s)
           /\ s # <<>> => /\ LastPoints(s, n) # <<>>
                          /\ LastPoints(s, n)[Len(LastPoints(s, n))] = s[Len(s)]
  <1> DEFINE k == IF Len(s) > n THEN Len(s) - n + 1 ELSE 1
             l == SubSeq(s, k, Len(s))
  <1>1. k \in Nat \ {0} /\ Len(s) \in Nat /\ k <= Len(s) + 1
    OBVIOUS
  <1>2. l = LastPoints(s, n)
    BY DEF LastPoints
  <1>3. l \in Seq(S) /\ Len(l) = Len(s) - k + 1 /\ \A i \in 1 .. Len(l) : l[i] = s[k + i - 1]
    <2> HIDE DEF k
    <2>1. \A i \in k .. Len(s) : s[i] \in S
      BY <1>1
    <2> QED BY <1>1, <2>1, SubSeqProperties
  <1>4. Len(l) = IF Len(s) > n THEN n ELSE Len(s)
    <2> HIDE DEF l
    <2> QED BY <1>1, <1>3
  <1>5. s # <<>> => Len(s) > 0
    OBVIOUS
  <1> HIDE DEF l, k
  <1>6. ASSUME s # <<>> PROVE l # <<>> /\ l[Len(l)] = s[Len(s)]
    <2>1. Len(l) > 0 /\ Len(l) \in Nat
      BY <1>1, <1>4, <1>5, <1>6
    <2>2. l # <<>>
      <3>1. Len(<<>>) = 0
        OBVIOUS
      <3> QED BY <2>1, <3>1
    <2>3. l[Len(l)] = s[k + Len(l) - 1] /\ k + Len(l) - 1 = Len(s)
      BY <1>1, <1>3, <2>1
    <2> QED BY <2>2, <2>3
  <1> QED BY <1>2, <1>3, <1>4, <1>6

\* A sparkline ends in the value of the figure it stands beside.
LEMMA SparklineEnds ==
    ASSUME NEW h \in Seq(Counts), NEW v, Ends(h, v)
    PROVE  /\ SparklineOf(h) \in Seq(Counts) /\ Ends(SparklineOf(h), v)
           /\ SparklineOf(h) # <<>> => Len(h) > 1
           /\ Len(h) > 1 /\ SparklineOf(h) = <<>> => v = 0
  <1> USE KpiConstants
  <1>1. CASE Len(h) > 1 /\ Elements(h) # {0}
    <2>1. SparklineOf(h) = LastPoints(h, MaxPoints) /\ h # <<>>
      <3>1. Len(<<>>) = 0
        OBVIOUS
      <3> QED BY <1>1, <3>1 DEF SparklineOf
    <2>2. /\ LastPoints(h, MaxPoints) \in Seq(Counts) /\ LastPoints(h, MaxPoints) # <<>>
          /\ LastPoints(h, MaxPoints)[Len(LastPoints(h, MaxPoints))] = h[Len(h)]
      BY <2>1, LastPointsOf
    <2> QED BY <1>1, <2>1, <2>2 DEF Ends
  <1>2. CASE ~(Len(h) > 1 /\ Elements(h) # {0})
    <2>1. SparklineOf(h) = <<>>
      BY <1>2 DEF SparklineOf
    <2>2. ASSUME Len(h) > 1 PROVE v = 0
      <3>1. h[Len(h)] \in Elements(h) /\ Elements(h) = {0}
        BY <1>2, <2>2 DEF Elements
      <3>2. h[Len(h)] = v
        <4>1. Len(<<>>) = 0
          OBVIOUS
        <4> QED BY <2>2, <4>1 DEF Ends
      <3> QED BY <3>1, <3>2
    <2> QED BY <2>1, <2>2 DEF Ends
  <1> QED BY <1>1, <1>2

\* The sum of a series of one value.
LEMMA SumOfFlat ==
    ASSUME NEW s \in Seq(Nat), NEW a \in Nat, Elements(s) = {a}
    PROVE  SumOf(s) = Len(s) * a
  <1>1. \A i \in DOMAIN s : s[i] = a
    BY DEF Elements
  <1>2. UNION {{i} \X (1..s[i]) : i \in DOMAIN s} = (DOMAIN s) \X (1..a)
    <2>1. ASSUME NEW p \in UNION {{i} \X (1..s[i]) : i \in DOMAIN s} PROVE p \in (DOMAIN s) \X (1..a)
      <3>1. PICK i \in DOMAIN s : p \in {i} \X (1..s[i])
        OBVIOUS
      <3> QED BY <1>1, <3>1
    <2>2. ASSUME NEW p \in (DOMAIN s) \X (1..a) PROVE p \in UNION {{i} \X (1..s[i]) : i \in DOMAIN s}
      <3>1. PICK i \in DOMAIN s, k \in 1..a : p = <<i, k>>
        OBVIOUS
      <3>2. p \in {i} \X (1..s[i])
        BY <1>1, <3>1
      <3> QED BY <3>2
    <2> QED BY <2>1, <2>2
  <1>3. DOMAIN s = 1..Len(s) /\ Len(s) \in Nat
    OBVIOUS
  <1>4. \A n \in Nat : IsFiniteSet(1..n) /\ Cardinality(1..n) = n
    <2> TAKE n \in Nat
    <2>1. IsFiniteSet(1..n) /\ Cardinality(1..n) = IF 1 > n THEN 0 ELSE n - 1 + 1
      BY FS_Interval
    <2> QED BY <2>1
  <1>5. IsFiniteSet(1..Len(s)) /\ Cardinality(1..Len(s)) = Len(s) /\ IsFiniteSet(1..a) /\ Cardinality(1..a) = a
    BY <1>3, <1>4
  <1>6. Cardinality((1..Len(s)) \X (1..a)) = Len(s) * a
    <2> DEFINE S == 1..Len(s)
               T == 1..a
    <2> HIDE DEF S, T
    <2>1. IsFiniteSet(S) /\ IsFiniteSet(T) => Cardinality(S \X T) = Cardinality(S) * Cardinality(T)
      BY FS_Product
    <2> QED BY <1>5, <2>1 DEF S, T
  <1>7. SumOf(s) = Cardinality((1..Len(s)) \X (1..a))
    BY <1>2, <1>3 DEF SumOf
  <1> QED BY <1>6, <1>7

\* A flat line at the value says nothing more than the value does.
LEMMA FlatReads ==
    ASSUME NEW f, f.value \in Counts, NEW s \in Seq(Counts),
           s = <<>> \/ Elements(s) = {f.value}
    PROVE  Peak(f, s) = f.value /\ Average(f, s) = f.value
  <1> USE KpiConstants
  <1>0. f.value \in Nat
    OBVIOUS
  <1>1. Elements(s) \cup {f.value} = {f.value}
    BY DEF Elements
  <1>2. Peak(f, s) = f.value
    BY <1>0, <1>1 DEF Peak, Maximum
  <1>3. CASE s = <<>>
    BY <1>2, <1>3 DEF Average
  <1>4. CASE s # <<>>
    <2>1. s \in Seq(Nat) /\ Len(s) \in Nat /\ Len(s) > 0
      <3>0. \A i \in 1..Len(s) : s[i] \in Counts
        OBVIOUS
      <3>1. \A i \in 1..Len(s) : s[i] \in Nat
        BY <3>0
      <3>2. s = [i \in 1..Len(s) |-> s[i]] /\ Len(s) \in Nat
        OBVIOUS
      <3>3. s \in Seq(Nat)
        BY <3>1, <3>2
      <3>4. Len(s) # 0
        BY <1>4
      <3> QED BY <3>2, <3>3, <3>4
    <2>2. SumOf(s) = Len(s) * f.value
      BY <1>0, <1>4, <2>1, SumOfFlat
    <2> DEFINE n == Len(s)
               a == f.value
    <2>3. n \in Nat /\ n > 0 /\ a \in Nat
      BY <1>0, <2>1
    <2>4. (n * a + n \div 2) \div n = a
      <3> HIDE DEF n, a
      <3>1. n \div 2 \in Nat /\ n \div 2 < n
        BY <2>3
      <3> DEFINE r == n \div 2
      <3> HIDE DEF r
      <3>2. r \in Nat /\ r < n
        BY <3>1 DEF r
      <3>3. (n * a + r) \div n = a
        BY <2>3, <3>2
      <3> QED BY <3>3 DEF r
    <2> QED BY <1>2, <1>4, <2>2, <2>4 DEF Average
  <1> QED BY <1>3, <1>4

\* Two lines that look the same and end at the value read the same.
LEMMA ReadsAlike ==
    ASSUME NEW f, f.value \in Counts, NEW p \in Seq(Counts), NEW s \in Seq(Counts),
           AreSparklinesEquivalent(p, s), Ends(p, f.value), Ends(s, f.value)
    PROVE  Peak(f, p) = Peak(f, s) /\ Average(f, p) = Average(f, s)
  <1>1. \A x \in Seq(Counts) : x # <<>> => /\ Len(x) \in DOMAIN x /\ x[Len(x)] \in Elements(x)
                                           /\ x[1] \in Elements(x)
    BY DEF Elements
  <1>2. p = s \/ /\ p = <<>> \/ Elements(p) = {f.value}
                 /\ s = <<>> \/ Elements(s) = {f.value}
    <2>1. CASE p = <<>>
      <3>1. Elements(s) \subseteq {0}
        BY <2>1 DEF AreSparklinesEquivalent, Elements
      <3> QED BY <1>1, <2>1, <3>1 DEF Ends
    <2>2. CASE p # <<>> /\ s = <<>>
      <3>1. Elements(p) \subseteq {0}
        BY <2>2 DEF AreSparklinesEquivalent
      <3> QED BY <1>1, <2>2, <3>1 DEF Ends
    <2>3. CASE p # <<>> /\ s # <<>>
      <3>1. p = s \/ (Elements(p) = {p[1]} /\ Elements(s) = {p[1]})
        BY <2>3 DEF AreSparklinesEquivalent
      <3> QED BY <1>1, <2>3, <3>1 DEF Ends
    <2> QED BY <2>1, <2>2, <2>3
  <1>3. CASE p = s
    BY <1>3
  <1>4. CASE /\ p = <<>> \/ Elements(p) = {f.value}
             /\ s = <<>> \/ Elements(s) = {f.value}
    BY <1>4, FlatReads
  <1> QED BY <1>2, <1>3, <1>4

\* The figures of a snapshot, with the history of the first of them.
KpiStates == [value : Counts, telemetry : TelemetryStates, language : {"en", "es"}, history : Seq(Counts),
              drops : {0, 1}, status : {"healthy", "degraded"}]

\* The card shown: as one made now would be, but for a line that looks the same.
IsFresh(m, f) ==
    LET now == SparklineOf(f.history) IN
    /\ m = [value |-> f.value, telemetry |-> f.telemetry, language |-> f.language,
            peak |-> Peak(f, now), average |-> Average(f, now), spark |-> m.spark]
    /\ m.spark \in Seq(Counts) /\ AreSparklinesEquivalent(m.spark, now)
    /\ Ends(m.spark, f.value)
    /\ m.spark # <<>> => Len(f.history) > 1

\* Whatever was remembered is what the figures of now would be rendered to.
KpiInv ==
    /\ figures \in KpiStates
    /\ Len(figures.history) <= MaxKept
    /\ IF figures.history = <<>> THEN figures.value = 0 ELSE figures.history[Len(figures.history)] = figures.value
    /\ memo = [kpi |-> memo.kpi, health |-> memo.health]
    /\ memo.kpi = {} \/ \E m : memo.kpi = {m} /\ IsFresh(m, figures)
    /\ memo.health = {} \/ memo.health = {[drops |-> figures.drops, status |-> figures.status]}

\* The figures before the first snapshot.
LEMMA KpiStart == ASSUME KpiInit PROVE KpiInv
  <1> USE KpiConstants
  <1>1. <<>> \in Seq(Counts) /\ Len(<<>>) = 0
    OBVIOUS
  <1>2. figures \in KpiStates
    BY <1>1 DEF KpiInit, KpiStates, TelemetryStates
  <1> QED BY <1>1, <1>2 DEF KpiInit, KpiInv

\* The comparison takes a line for itself.
LEMMA LineIsLikeItself == \A s : AreSparklinesEquivalent(s, s)
  BY DEF AreSparklinesEquivalent, Elements

\* Rendering new figures, remembered or again, leaves what is fresh.
LEMMA KpiRendered ==
    ASSUME KpiInv, NEW f \in KpiStates, figures' = f, KpisRendered(f),
           IF f.history = <<>> THEN f.value = 0 ELSE f.history[Len(f.history)] = f.value, Len(f.history) <= MaxKept,
           Len(figures.history) > 1 => Len(f.history) > 1
    PROVE  KpiInv'
  <1> DEFINE now == SparklineOf(f.history)
  <1>1. f.history \in Seq(Counts) /\ f.value \in Counts /\ Ends(f.history, f.value)
    BY DEF KpiStates, Ends
  <1>2. /\ now \in Seq(Counts) /\ Ends(now, f.value) /\ (now # <<>> => Len(f.history) > 1)
        /\ (Len(f.history) > 1 /\ now = <<>> => f.value = 0)
    BY <1>1, SparklineEnds
  <1>3. memo' = [kpi |-> Shown(memo.kpi, f), health |-> ShownHealth(memo.health, f)]
    BY DEF KpisRendered
  <1>4. memo'.health = {[drops |-> f.drops, status |-> f.status]}
    BY <1>3 DEF ShownHealth, KpiInv
  <1> DEFINE made(line) == [value |-> f.value, telemetry |-> f.telemetry, language |-> f.language,
                            peak |-> Peak(f, now), average |-> Average(f, now), spark |-> line]
  <1>5. ASSUME NEW line, line \in Seq(Counts), AreSparklinesEquivalent(line, now), Ends(line, f.value),
               line # <<>> => Len(f.history) > 1
        PROVE  IsFresh(made(line), f)
    <2>1. made(line).spark = line
      OBVIOUS
    <2> QED BY <1>5, <2>1, Zenon DEF IsFresh
  <1>6. IsFresh(made(now), f)
    BY <1>2, <1>5, LineIsLikeItself
  <1>7. KpiFor(f, now) = made(now) /\ \A line : [made(now) EXCEPT !.spark = line] = made(line)
    BY DEF KpiFor
  <1> HIDE DEF made
  <1>8. \E m : Shown(memo.kpi, f) = {m} /\ IsFresh(m, f)
    <2>1. CASE memo.kpi = {}
      <3>1. Shown(memo.kpi, f) = {made(now)}
        BY <1>7, <2>1 DEF Shown
      <3> QED BY <1>6, <3>1
    <2>2. CASE memo.kpi # {}
      <3>1. PICK m : memo.kpi = {m} /\ IsFresh(m, figures)
        BY <2>2 DEF KpiInv
      <3>2. (CHOOSE x \in memo.kpi : TRUE) = m
        BY <3>1
      <3> DEFINE before == SparklineOf(figures.history)
      <3>3. /\ m = [value |-> figures.value, telemetry |-> figures.telemetry, language |-> figures.language,
                    peak |-> Peak(figures, before), average |-> Average(figures, before), spark |-> m.spark]
            /\ m.spark \in Seq(Counts) /\ AreSparklinesEquivalent(m.spark, before)
            /\ Ends(m.spark, figures.value)
            /\ m.spark # <<>> => Len(f.history) > 1
        BY <3>1 DEF IsFresh
      <3>4. CASE KpiUnchanged(m, f)
        <4>1. Shown(memo.kpi, f) = {m}
          BY <2>2, <3>1, <3>2, <3>4 DEF Shown
        <4>2. /\ figures.value = f.value /\ figures.telemetry = f.telemetry /\ figures.language = f.language
              /\ AreSparklinesEquivalent(m.spark, now)
          <5>1. /\ m.value = f.value /\ m.telemetry = f.telemetry /\ m.language = f.language
                /\ AreSparklinesEquivalent(m.spark, now)
            BY <3>4 DEF KpiUnchanged
          <5>2. m.value = figures.value /\ m.telemetry = figures.telemetry /\ m.language = figures.language
            BY <3>3
          <5> QED BY <5>1, <5>2
        <4>3. figures.history \in Seq(Counts) /\ figures.value \in Counts /\ Ends(figures.history, figures.value)
          BY DEF KpiInv, KpiStates, Ends
        <4>4. before \in Seq(Counts) /\ Ends(before, figures.value)
          BY <4>3, SparklineEnds
        <4>5. Peak(figures, m.spark) = Peak(figures, before) /\ Average(figures, m.spark) = Average(figures, before)
          <5> HIDE DEF before
          <5> QED BY <3>3, <4>3, <4>4, ReadsAlike
        <4>6. Peak(f, m.spark) = Peak(f, now) /\ Average(f, m.spark) = Average(f, now)
          <5>1. Ends(m.spark, f.value)
            BY <3>3, <4>2
          <5> HIDE DEF now
          <5> QED BY <1>1, <1>2, <3>3, <4>2, <5>1, ReadsAlike
        <4>7. Peak(figures, m.spark) = Peak(f, m.spark) /\ Average(figures, m.spark) = Average(f, m.spark)
          BY <4>2 DEF Peak, Average
        <4>8. m = made(m.spark)
          BY <3>3, <4>2, <4>5, <4>6, <4>7 DEF made
        <4>9. IsFresh(m, f)
          <5>1. IsFresh(made(m.spark), f)
            BY <1>5, <3>3, <4>2
          <5> QED BY <4>8, <5>1
        <4> QED BY <4>1, <4>9
      <3>5. CASE ~KpiUnchanged(m, f)
        <4> DEFINE line == IF AreSparklinesEquivalent(m.spark, now) THEN m.spark ELSE now
        <4>1. Shown(memo.kpi, f) = {[made(now) EXCEPT !.spark = line]}
          BY <1>7, <2>2, <3>2, <3>5 DEF Shown
        <4>2. Shown(memo.kpi, f) = {made(line)}
          BY <1>7, <4>1
        <4>3. IsFresh(made(line), f)
          <5>1. CASE AreSparklinesEquivalent(m.spark, now)
            <6>1. \A x \in Seq(Counts) : x # <<>> => /\ Len(x) \in DOMAIN x /\ x[Len(x)] \in Elements(x)
                                                     /\ x[1] \in Elements(x)
              BY DEF Elements
            <6>2. Ends(m.spark, f.value)
              <7>1. CASE m.spark = <<>>
                BY <7>1 DEF Ends
              <7>2. CASE m.spark # <<>> /\ now = <<>>
                <8>1. Elements(m.spark) \subseteq {0}
                  BY <5>1, <7>2 DEF AreSparklinesEquivalent
                <8>2. f.value = 0
                  BY <1>2, <3>3, <7>2
                <8> QED BY <3>3, <6>1, <7>2, <8>1, <8>2 DEF Ends
              <7>3. CASE m.spark # <<>> /\ now # <<>>
                <8>1. m.spark = now \/ (Elements(m.spark) = {m.spark[1]} /\ Elements(now) = {m.spark[1]})
                  BY <5>1, <7>3 DEF AreSparklinesEquivalent
                <8> HIDE DEF now
                <8> QED BY <1>2, <3>3, <6>1, <7>3, <8>1 DEF Ends
              <7> QED BY <7>1, <7>2, <7>3
            <6> QED BY <1>5, <3>3, <5>1, <6>2
          <5>2. CASE ~AreSparklinesEquivalent(m.spark, now)
            BY <1>6, <5>2
          <5> QED BY <5>1, <5>2
        <4> QED BY <4>2, <4>3
      <3> QED BY <3>4, <3>5
    <2> QED BY <2>1, <2>2
  <1> QED BY <1>3, <1>4, <1>8 DEF KpiInv

\* Every step: snapshots, failures and renderings.
LEMMA KpiStep == ASSUME KpiInv, [KpiNext]_kpiVars PROVE KpiInv'
  <1> USE KpiConstants
  <1>1. CASE UNCHANGED kpiVars
    BY <1>1 DEF kpiVars, KpiInv
  <1>2. ASSUME NEW v \in Counts, NEW t \in TelemetryStates, NEW d \in {0, 1}, NEW s \in {"healthy", "degraded"},
               SnapshotFigures(v, t, d, s)
        PROVE  KpiInv'
    <2> DEFINE longer == Append(figures.history, v)
               history == LastPoints(longer, MaxKept)
               f == [figures EXCEPT !.value = v, !.telemetry = t, !.drops = d, !.status = s, !.history = history]
    <2>1. figures' = f /\ KpisRendered(f)
      BY <1>2 DEF SnapshotFigures
    <2>2. figures.history \in Seq(Counts)
      BY DEF KpiInv, KpiStates
    <2>3. longer \in Seq(Counts) /\ longer # <<>> /\ Len(longer) = Len(figures.history) + 1 /\ longer[Len(longer)] = v
      BY <2>2
    <2> HIDE DEF longer
    <2>4. /\ history \in Seq(Counts) /\ history # <<>> /\ history[Len(history)] = v
          /\ Len(history) = IF Len(longer) > MaxKept THEN MaxKept ELSE Len(longer)
      BY <2>3, LastPointsOf
    <2> HIDE DEF history
    <2>5. f \in KpiStates /\ f.value = v /\ f.history = history
      BY <2>4 DEF KpiInv, KpiStates
    <2>6. Len(history) <= MaxKept /\ (Len(figures.history) > 1 => Len(history) > 1)
      BY <2>2, <2>3, <2>4 DEF KpiInv
    <2> HIDE DEF f
    <2> QED BY <2>1, <2>4, <2>5, <2>6, KpiRendered
  <1>3. CASE LanguageChanges
    <2> DEFINE f == [figures EXCEPT !.language = IF @ = "en" THEN "es" ELSE "en"]
    <2>1. figures' = f /\ KpisRendered(f)
      BY <1>3 DEF LanguageChanges
    <2>2. f \in KpiStates /\ f.value = figures.value /\ f.history = figures.history
      BY DEF KpiInv, KpiStates
    <2> HIDE DEF f
    <2> QED BY <2>1, <2>2, KpiRendered DEF KpiInv
  <1> QED BY <1>1, <1>2, <1>3 DEF KpiNext

\* The remembered figures and the health are those of the snapshot.
LEMMA KpiHolds == ASSUME KpiInv PROVE KpiTypeOK /\ MemoizedKpiIsFresh /\ HealthIsOfTheSnapshot
  <1>1. Cardinality(memo.kpi) <= 1 /\ Cardinality(memo.health) <= 1
    <2>1. \A S : S = {} \/ (\E m : S = {m}) => Cardinality(S) <= 1
      <3>1. \A m : Cardinality({m}) = 1
        BY FS_Singleton
      <3>2. Cardinality({}) = 0
        BY FS_EmptySet
      <3> SUFFICES ASSUME NEW S, S = {} \/ \E m : S = {m} PROVE Cardinality(S) <= 1
        OBVIOUS
      <3>3. CASE S = {}
        <4>1. Cardinality(S) = 0
          BY <3>2, <3>3
        <4> QED BY <4>1
      <3>4. CASE \E m : S = {m}
        <4>1. Cardinality(S) = 1
          BY <3>1, <3>4
        <4> QED BY <4>1
      <3> QED BY <3>3, <3>4
    <2>2. memo.kpi = {} \/ \E m : memo.kpi = {m}
      BY DEF KpiInv
    <2>3. memo.health = {} \/ \E m : memo.health = {m}
      BY DEF KpiInv
    <2> QED BY <2>1, <2>2, <2>3
  <1>2. KpiTypeOK
    BY <1>1 DEF KpiInv, KpiStates, KpiTypeOK
  <1>3. MemoizedKpiIsFresh
    <2> SUFFICES ASSUME NEW m \in memo.kpi
                 PROVE  LET now == KpiFor(figures, SparklineOf(figures.history)) IN
                        /\ [m EXCEPT !.spark = now.spark] = now
                        /\ AreSparklinesEquivalent(m.spark, now.spark)
      BY DEF MemoizedKpiIsFresh
    <2>1. IsFresh(m, figures)
      BY DEF KpiInv
    <2> DEFINE line == SparklineOf(figures.history)
    <2>2. /\ m = [value |-> figures.value, telemetry |-> figures.telemetry, language |-> figures.language,
                  peak |-> Peak(figures, line), average |-> Average(figures, line), spark |-> m.spark]
          /\ AreSparklinesEquivalent(m.spark, line)
      BY <2>1 DEF IsFresh
    <2>3. KpiFor(figures, line).spark = line
      BY DEF KpiFor
    <2>4. [m EXCEPT !.spark = line] = KpiFor(figures, line)
      BY <2>2 DEF KpiFor
    <2> QED BY <2>2, <2>3, <2>4
  <1>4. HealthIsOfTheSnapshot
    BY DEF KpiInv, HealthIsOfTheSnapshot
  <1> QED BY <1>2, <1>3, <1>4

-----------------------------------------------------------------------------
\* The strip of hops on the dashboard.

\* The targets a hop can have.
StripTexts == StripTargets \cup {NoAddress}
\* The results of probes.
StripResults == [hop : StripHops, target : StripTexts]

\* Probes are numbered apart from 1 on, the held hop is one that is probed, and a result
\* stands under the hop it was made for.
StripInv ==
    /\ chain \in [StripHops -> StripTexts]
    /\ strip \in [inspected : StripHops \cup {NoHop}, custom : StripTexts,
                  probing : StripHops \cup {NoHop}, results : [StripHops -> SUBSET StripResults],
                  error : SUBSET StripHops]
    /\ stripProbes \subseteq [hop : StripHops, nth : Nat \ {0}, target : StripTexts]
    /\ IsFiniteSet(stripProbes)
    /\ \A p, q \in stripProbes : p.nth = q.nth => p = q
    /\ \A p \in stripProbes : p.nth <= Cardinality(stripProbes)
    /\ Cardinality(stripProbes) <= MaxStripProbes
    /\ HeldHopIsProbed
    /\ \A h \in StripHops : \A r \in strip.results[h] : r.hop = h

\* The strip when it is opened.
LEMMA StripStarts == ASSUME ProbeStripInit PROVE StripInv
  BY StripConstants, FS_EmptySet DEF ProbeStripInit, StripInv, HeldHopIsProbed, StripTexts

\* The target of a hop.
LEMMA StripHopTexts ==
    ASSUME NEW hop \in StripHops \cup {NoHop}, NEW t \in [StripHops -> StripTexts]
    PROVE  NodeTarget(hop, t) \in StripTexts
  BY DEF NodeTarget, StripTexts

\* Every step of the strip, several probes under way.
LEMMA StripStep == ASSUME StripInv, [ProbeStripNext]_stripVars PROVE StripInv'
  <1> USE StripConstants
  <1>1. CASE UNCHANGED stripVars
    BY <1>1 DEF stripVars, StripInv, HeldHopIsProbed
  <1>2. ASSUME NEW t \in [StripHops -> StripTargets \cup {NoAddress}], ChainArrives(t) PROVE StripInv'
    <2>1. chain' = t /\ stripProbes' = stripProbes
          /\ strip' = [strip EXCEPT !.custom = NodeTarget(strip.inspected, t)]
      BY <1>2 DEF ChainArrives
    <2>2. NodeTarget(strip.inspected, t) \in StripTexts
      BY StripHopTexts DEF StripInv, StripTexts
    <2> QED BY <2>1, <2>2 DEF StripInv, HeldHopIsProbed, StripTexts
  <1>3. ASSUME NEW hop \in StripHops, HandleNodeClick(hop) PROVE StripInv'
    <2>1. NodeTarget(hop, chain) \in StripTexts
      BY StripHopTexts DEF StripInv
    <2> QED BY <1>3, <2>1 DEF HandleNodeClick, StripInv, HeldHopIsProbed, StripTexts
  <1>4. ASSUME NEW x \in StripTargets \cup {NoAddress}, SetCustomTarget(x) PROVE StripInv'
    BY <1>4 DEF SetCustomTarget, StripInv, HeldHopIsProbed, StripTexts
  <1>5. CASE HandleRunProbe
    <2> DEFINE hop == strip.inspected
               new == [hop |-> hop, nth |-> 1,
                       target |-> IF strip.custom # NoAddress THEN strip.custom ELSE chain[hop]]
               up == [p \in stripProbes |-> [p EXCEPT !.nth = @ + 1]]
               later == {up[p] : p \in stripProbes}
    <2>1. hop # NoHop /\ hop \in StripHops /\ Cardinality(stripProbes) < MaxStripProbes
          /\ strip' = [strip EXCEPT !.probing = hop, !.error = {}]
          /\ stripProbes' = later \cup {new} /\ chain' = chain
      BY <1>5 DEF HandleRunProbe, StripInv
    <2>2. \A p \in stripProbes : /\ up[p] \in [hop : StripHops, nth : Nat \ {0}, target : StripTexts]
                                 /\ up[p].nth = p.nth + 1 /\ p.nth \in Nat \ {0}
      BY DEF StripInv
    <2>a. up \in [stripProbes -> later]
      OBVIOUS
    <2>4. \A p \in later : \E q \in stripProbes : p = up[q]
      OBVIOUS
    <2>b. new.nth = 1 /\ new.hop = hop
      OBVIOUS
    <2>7. new \in [hop : StripHops, nth : Nat \ {0}, target : StripTexts]
      BY <2>1 DEF StripInv
    <2> HIDE DEF up, later, new
    <2>c. \A p, q \in stripProbes : up[p].nth = up[q].nth => p = q
      BY <2>2 DEF StripInv
    <2>3. IsFiniteSet(later) /\ Cardinality(later) = Cardinality(stripProbes)
      <3>1. IsFiniteSet(stripProbes)
        BY DEF StripInv
      <3>2. \A p, q \in stripProbes : up[p] = up[q] => p = q
        BY <2>c
      <3> QED BY <2>a, <2>4, <3>1, <3>2, ImageOfInjection
    <2>5. new \notin later /\ \A p \in later : p.nth > 1
      BY <2>2, <2>4, <2>b
    <2>6. IsFiniteSet(stripProbes') /\ Cardinality(stripProbes') = Cardinality(stripProbes) + 1
      BY <2>1, <2>3, <2>5, FS_AddElement
    <2>8. stripProbes' \subseteq [hop : StripHops, nth : Nat \ {0}, target : StripTexts]
      BY <2>1, <2>2, <2>4, <2>7
    <2>9. \A p, q \in stripProbes' : p.nth = q.nth => p = q
      BY <2>1, <2>4, <2>5, <2>b, <2>c
    <2>10. Cardinality(stripProbes) \in Nat
      BY FS_CardinalityType DEF StripInv
    <2>11. \A p \in stripProbes' : p.nth <= Cardinality(stripProbes')
      BY <2>1, <2>2, <2>4, <2>b, <2>6, <2>10 DEF StripInv
    <2>12. HeldHopIsProbed'
      BY <2>1, <2>b DEF HeldHopIsProbed, StripInv
    <2>13. strip' \in [inspected : StripHops \cup {NoHop}, custom : StripTexts,
                  probing : StripHops \cup {NoHop}, results : [StripHops -> SUBSET StripResults],
                  error : SUBSET StripHops]
           /\ \A h \in StripHops : \A r \in strip'.results[h] : r.hop = h
      BY <2>1 DEF StripInv
    <2>14. Cardinality(stripProbes') <= MaxStripProbes
      BY <2>1, <2>6, <2>10
    <2>15. chain' \in [StripHops -> StripTexts]
      BY <2>1 DEF StripInv
    <2> QED BY <2>13, <2>14, <2>15, <2>6, <2>8, <2>9, <2>10, <2>11, <2>12 DEF StripInv
  <1>6. ASSUME NEW p \in stripProbes, NEW failed \in BOOLEAN, ProbeSettles(p, failed) PROVE StripInv'
    <2> DEFINE rest == stripProbes \ {p}
               down == [q \in rest |-> [q EXCEPT !.nth = IF @ > p.nth THEN @ - 1 ELSE @]]
               left == {down[q] : q \in rest}
    <2>1. stripProbes' = left /\ chain' = chain
          /\ strip' = [strip EXCEPT !.probing = NoHop, !.error = IF failed THEN {p.hop} ELSE @,
                          !.results[p.hop] = IF failed THEN @ ELSE {[hop |-> p.hop, target |-> p.target]}]
      BY <1>6 DEF ProbeSettles
    <2>2. \A q \in rest : /\ q.nth \in Nat \ {0} /\ q.nth # p.nth
                          /\ down[q].nth = IF q.nth > p.nth THEN q.nth - 1 ELSE q.nth
                          /\ down[q].hop = q.hop /\ down[q].target = q.target
                          /\ down[q] \in [hop : StripHops, nth : Nat \ {0}, target : StripTexts]
      BY DEF StripInv
    <2>3. p.nth \in Nat \ {0}
      BY DEF StripInv
    <2>4. \A q, r \in rest : down[q].nth = down[r].nth => q = r
      BY <2>2, <2>3 DEF StripInv
    <2>a. down \in [rest -> left]
      OBVIOUS
    <2>b. \A q \in left : \E r \in rest : q = down[r]
      OBVIOUS
    <2>5. IsFiniteSet(rest) /\ Cardinality(rest) = Cardinality(stripProbes) - 1
          /\ Cardinality(stripProbes) \in Nat
      BY FS_RemoveElement, FS_CardinalityType DEF StripInv
    <2>c. \A q \in rest : q.nth <= Cardinality(stripProbes) /\ p.nth <= Cardinality(stripProbes)
      BY DEF StripInv
    <2> HIDE DEF left, rest, down
    <2>6. IsFiniteSet(left) /\ Cardinality(left) = Cardinality(rest)
      BY <2>a, <2>b, <2>4, <2>5, ImageOfInjection
    <2>7. \A q \in rest : down[q].nth <= Cardinality(left)
      BY <2>2, <2>3, <2>5, <2>6, <2>c
    <2>8. stripProbes' \subseteq [hop : StripHops, nth : Nat \ {0}, target : StripTexts]
      BY <2>1, <2>2, <2>b
    <2>9. \A q, r \in stripProbes' : q.nth = r.nth => q = r
      BY <2>1, <2>4, <2>b
    <2>10. \A q \in stripProbes' : q.nth <= Cardinality(stripProbes')
      BY <2>1, <2>7, <2>b
    <2>11. p.hop \in StripHops /\ [hop |-> p.hop, target |-> p.target] \in StripResults
      BY DEF StripInv, StripResults
    <2>12. strip' \in [inspected : StripHops \cup {NoHop}, custom : StripTexts,
                  probing : StripHops \cup {NoHop}, results : [StripHops -> SUBSET StripResults],
                  error : SUBSET StripHops]
           /\ \A h \in StripHops : \A r \in strip'.results[h] : r.hop = h
      <3> DEFINE made == [hop |-> p.hop, target |-> p.target]
                 kept == [strip.results EXCEPT ![p.hop] = IF failed THEN @ ELSE {made}]
      <3>1. kept \in [StripHops -> SUBSET StripResults]
            /\ \A h \in StripHops : \A r \in kept[h] : r.hop = h
        BY <2>11 DEF StripInv
      <3>2. strip'.results = kept
        BY <2>1 DEF StripInv
      <3>3. strip' = [strip EXCEPT !.probing = NoHop, !.error = IF failed THEN {p.hop} ELSE @,
                             !.results = kept]
        BY <2>1 DEF StripInv
      <3> HIDE DEF kept
      <3>4. strip \in [inspected : StripHops \cup {NoHop}, custom : StripTexts,
                       probing : StripHops \cup {NoHop}, results : [StripHops -> SUBSET StripResults],
                       error : SUBSET StripHops]
        BY DEF StripInv
      <3>5. (IF failed THEN {p.hop} ELSE strip.error) \in SUBSET StripHops
        BY <2>11, <3>4
      <3> QED BY <3>1, <3>2, <3>3, <3>4, <3>5
    <2>13. HeldHopIsProbed'
      BY <2>1 DEF HeldHopIsProbed, StripInv
    <2>14. Cardinality(stripProbes') <= MaxStripProbes
      BY <2>1, <2>5, <2>6 DEF StripInv
    <2> QED BY <2>1, <2>5, <2>6, <2>8, <2>9, <2>10, <2>12, <2>13, <2>14 DEF StripInv
  <1> QED BY <1>1, <1>2, <1>3, <1>4, <1>5, <1>6 DEF ProbeStripNext

\* The held hop is probed, and results stand under their hop.
LEMMA StripHolds == ASSUME StripInv PROVE StripTypeOK /\ HeldHopIsProbed /\ ResultsStandUnderTheirHop
  <1>1. Cardinality(stripProbes) \in Nat
    BY FS_CardinalityType DEF StripInv
  <1>2. \A p \in stripProbes : p.hop \in StripHops /\ p.nth \in 1..MaxStripProbes
    BY <1>1, StripConstants DEF StripInv
  <1>3. ResultsStandUnderTheirHop
    BY DEF StripInv, ResultsStandUnderTheirHop, ShownStripResult
  <1> QED BY <1>2, <1>3 DEF StripTypeOK, StripInv, StripTexts

-----------------------------------------------------------------------------
\* The navigation target, shared by three screens.

\* The target is none or one that can be followed.
NavInv == nav \in [screen : Screens, target : Refs \cup {NoTarget}]

\* The navigation when the application starts.
LEMMA NavStart == ASSUME NavInit PROVE NavInv
  BY NavigationConstants DEF NavInit, NavInv

\* Following evidence, the menu and the end of a target lead to such states.
LEMMA WhereItLeads ==
    ASSUME NavInv
    PROVE  /\ \A r \in Refs : Followed(r) \in [screen : Screens, target : Refs \cup {NoTarget}]
           /\ \A s \in Screens : Switched(s) \in [screen : Screens, target : Refs \cup {NoTarget}]
           /\ Untargeted \in [screen : Screens, target : Refs \cup {NoTarget}]
  <1>1. \A r \in Refs : ScreenOf(r.kind) \in Screens
    BY NavigationConstants DEF ScreenOf
  <1>2. \A r \in Refs : Followed(r) \in [screen : Screens, target : Refs \cup {NoTarget}]
    BY <1>1 DEF Followed
  <1> QED BY <1>2 DEF NavInv, Switched, Untargeted

\* After the target was cleared no screen has one.
LEMMA UntargetedHasNoTarget == ASSUME NavInv, NEW s PROVE TargetFor(s, Untargeted) = 0
  BY DEF NavInv, Untargeted, TargetFor, NoTarget

\* The navigation has its type.
LEMMA NavHolds == ASSUME NavInv PROVE NavTypeOK
  BY DEF NavInv, NavTypeOK

-----------------------------------------------------------------------------
\* The timeline (Timeline.tsx).

\* The feed is finitely many events, and the screen remembers the key of one of them or
\* none.
TimelineInv ==
    /\ NavInv
    /\ eventFeed \in SUBSET EventPool /\ IsFiniteSet(eventFeed)
    /\ timeline \in [mounted : BOOLEAN, term : SearchTerms, severity : SeverityFilters,
                     key : {KeyOf(e) : e \in EventPool} \cup {NoKey}]

\* The order of the list is a strict and total one.
LEMMA PrecedesIsTotal ==
    /\ \A e, f \in EventPool : Precedes(e, f) \/ Precedes(f, e) \/ e = f
    /\ \A e, f, g \in EventPool : Precedes(e, f) /\ Precedes(f, g) => Precedes(e, g)
    /\ \A e \in EventPool : ~Precedes(e, e)
  BY TimelineConstants DEF Precedes

\* Events that are some have a first one.
LEMMA FirstExists ==
    ASSUME NEW events \in SUBSET EventPool, events # {}
    PROVE  \E e \in events : \A f \in events \ {e} : Precedes(e, f)
  <1> DEFINE at == [e \in events |-> e.at]
  <1>1. at \in [events -> Nat]
    BY TimelineConstants
  <1>2. PICK m \in events : \A f \in events : at[m] <= at[f]
    <2> HIDE DEF at
    <2> QED BY <1>1, LeastBy
  <1> DEFINE early == {f \in events : f.at = m.at}
             id == [e \in early |-> e.id]
  <1>3. early # {} /\ early \in SUBSET EventPool /\ id \in [early -> Nat]
    BY TimelineConstants
  <1>4. PICK e \in early : \A f \in early : id[e] <= id[f]
    <2> HIDE DEF id, early
    <2> QED BY <1>3, LeastBy
  <1>5. ASSUME NEW f \in events \ {e} PROVE Precedes(e, f)
    <2>1. /\ e.at = m.at /\ m.at <= f.at /\ e.at \in Nat /\ f.at \in Nat /\ e.id \in Nat /\ f.id \in Nat
          /\ e.id # f.id
      BY <1>2, TimelineConstants
    <2>2. f.at = m.at => e.id <= f.id
      BY <1>4
    <2> QED BY <2>1, <2>2 DEF Precedes
  <1> QED BY <1>5

\* It is one of them.
LEMMA FirstOfEvents ==
    ASSUME NEW events \in SUBSET EventPool, events # {}
    PROVE  First(events) \in events
  BY FirstExists DEF First

\* Finitely many events have a last one.
LEMMA LastExists ==
    ASSUME NEW events \in SUBSET EventPool, IsFiniteSet(events), events # {}
    PROVE  \E e \in events : \A f \in events \ {e} : Precedes(f, e)
  <1> DEFINE after == [e \in events |-> Cardinality({f \in events : Precedes(e, f)})]
  <1>1. \A e \in events : /\ IsFiniteSet({f \in events : Precedes(e, f)})
                          /\ Cardinality({f \in events : Precedes(e, f)}) \in Nat
    <2> SUFFICES ASSUME NEW e \in events
                 PROVE  /\ IsFiniteSet({f \in events : Precedes(e, f)})
                        /\ Cardinality({f \in events : Precedes(e, f)}) \in Nat
      OBVIOUS
    <2>1. {f \in events : Precedes(e, f)} \in SUBSET events
      OBVIOUS
    <2> QED BY <2>1, FS_Subset, FS_CardinalityType
  <1>2. PICK m \in events : \A f \in events : after[m] <= after[f]
    <2>1. after \in [events -> Nat]
      BY <1>1
    <2> HIDE DEF after
    <2> QED BY <2>1, LeastBy
  <1>3. ASSUME NEW n \in events, Precedes(m, n) PROVE FALSE
    <2> DEFINE A == {f \in events : Precedes(m, f)}
               B == {f \in events : Precedes(n, f)}
    <2>1. B \in SUBSET A /\ n \in A /\ n \notin B
      BY <1>3, PrecedesIsTotal
    <2>2. IsFiniteSet(A) /\ Cardinality(A) \in Nat /\ Cardinality(B) \in Nat
      BY <1>1
    <2>3. Cardinality(A) <= Cardinality(B)
      BY <1>2
    <2> HIDE DEF A, B
    <2>4. Cardinality(B) <= Cardinality(A) /\ (Cardinality(A) = Cardinality(B) => A = B)
      BY <2>1, <2>2, FS_Subset
    <2> QED BY <2>1, <2>2, <2>3, <2>4
  <1>4. \A f \in events \ {m} : Precedes(f, m)
    BY <1>3, PrecedesIsTotal
  <1> QED BY <1>4

\* It is one of them.
LEMMA LastOfEvents ==
    ASSUME NEW events \in SUBSET EventPool, IsFiniteSet(events), events # {}
    PROVE  Last(events) \in events
  BY LastExists DEF Last

\* Some event is the gravest.
LEMMA GravestOf ==
    ASSUME NEW events \in SUBSET EventPool, events # {}
    PROVE  {e \in events : \A f \in events : Weight(f) <= Weight(e)} # {}
  <1> DEFINE lack == [e \in events |-> 3 - Weight(e)]
  <1>1. \A e \in events : Weight(e) \in 1..3
    BY TimelineConstants DEF Weight
  <1>2. lack \in [events -> Nat]
    BY <1>1
  <1>3. PICK m \in events : \A f \in events : lack[m] <= lack[f]
    <2> HIDE DEF lack
    <2> QED BY <1>2, LeastBy
  <1>4. \A f \in events : Weight(f) <= Weight(m)
    BY <1>1, <1>3
  <1> QED BY <1>4

\* The event shown is listed, and it is the remembered one as long as that is listed.
LEMMA SelectedIsListed ==
    ASSUME NEW listed \in SUBSET EventPool, listed # {}, NEW screen, NEW target
    PROVE  /\ Selected(listed, screen, target) \in listed
           /\ (\E e \in listed : KeyOf(e) = screen.key) => KeyOf(Selected(listed, screen, target)) = screen.key
  <1> DEFINE remembered == {e \in listed : KeyOf(e) = screen.key}
             followed == {e \in listed : target # 0 /\ e.packet = target}
             gravest == {e \in listed : \A f \in listed : Weight(f) <= Weight(e)}
             candidates == IF remembered # {} THEN remembered ELSE IF followed # {} THEN followed ELSE gravest
  <1>1. gravest # {}
    BY GravestOf
  <1>2. candidates # {} /\ candidates \in SUBSET listed /\ (remembered # {} => candidates = remembered)
    <2> HIDE DEF gravest
    <2>1. gravest \in SUBSET listed
      BY DEF gravest
    <2> QED BY <1>1, <2>1
  <1>3. First(candidates) \in candidates
    <2> HIDE DEF candidates
    <2> QED BY <1>2, FirstOfEvents
  <1>4. Selected(listed, screen, target) = First(candidates)
    BY DEF Selected
  <1> HIDE DEF candidates
  <1> QED BY <1>2, <1>3, <1>4

\* The states of the screen.
TimelineScreens == [mounted : BOOLEAN, term : SearchTerms, severity : SeverityFilters,
                    key : {KeyOf(e) : e \in EventPool} \cup {NoKey}]

\* Following a target changes the key only, to an event of the target.
LEMMA SyncedIsTyped ==
    ASSUME NEW screen \in TimelineScreens, NEW events \in SUBSET EventPool, NEW target
    PROVE  /\ Synced(screen, events, target) \in TimelineScreens
           /\ Synced(screen, events, target).mounted = screen.mounted
           /\ Listed(events, Synced(screen, events, target)) = Listed(events, screen)
           /\ target = 0 => Synced(screen, events, target) = screen
           /\ (screen.mounted /\ \E e \in Listed(events, screen) : target # 0 /\ e.packet = target)
              => \E e \in Listed(events, screen) : /\ target # 0 /\ e.packet = target
                                                   /\ KeyOf(e) = Synced(screen, events, target).key
  <1> DEFINE followed == {e \in Listed(events, screen) : target # 0 /\ e.packet = target}
  <1>1. followed \in SUBSET EventPool /\ Listed(events, screen) \in SUBSET EventPool
    BY DEF Listed
  <1>2. followed # {} => First(followed) \in followed
    <2> HIDE DEF followed
    <2> QED BY <1>1, FirstOfEvents
  <1> DEFINE key == KeyOf(First(followed))
  <1>3. followed # {} => key \in {KeyOf(e) : e \in EventPool} \cup {NoKey}
    BY <1>1, <1>2
  <1>4. Synced(screen, events, target) = IF screen.mounted /\ followed # {} THEN [screen EXCEPT !.key = key] ELSE screen
    BY DEF Synced
  <1>5. \A k : Listed(events, [screen EXCEPT !.key = k]) = Listed(events, screen)
    BY DEF Listed, MatchesSearch, TimelineScreens
  <1>6. followed # {} => \E e \in Listed(events, screen) : target # 0 /\ e.packet = target /\ KeyOf(e) = key
    BY <1>2
  <1>7. (target = 0 => followed = {}) /\ ((\E e \in Listed(events, screen) : target # 0 /\ e.packet = target) => followed # {})
    OBVIOUS
  <1> HIDE DEF key, followed
  <1> QED BY <1>3, <1>4, <1>5, <1>6, <1>7 DEF TimelineScreens

\* The timeline when it is opened.
LEMMA TimelineStart == ASSUME TimelineInit PROVE TimelineInv
  <1>1. NavInv
    BY NavStart DEF TimelineInit
  <1> QED BY <1>1, TimelineConstants, FS_EmptySet DEF TimelineInit, TimelineInv, TimelineFresh, SeverityFilters

\* Every step of the timeline and of the feed.
LEMMA TimelineStep == ASSUME TimelineInv, [TimelineNext]_timelineVars PROVE TimelineInv'
  <1> USE DEF TimelineScreens
  <1>0. NowListed \in SUBSET EventPool /\ IsFiniteSet(NowListed)
    <2>1. NowListed \in SUBSET eventFeed
      BY DEF NowListed, Listed
    <2> QED BY <2>1, FS_Subset DEF TimelineInv
  <1>1. CASE UNCHANGED timelineVars
    BY <1>1 DEF timelineVars, TimelineInv, NavInv
  <1>2. CASE FeedChanges
    <2>1. PICK e \in EventPool : eventFeed' \in {eventFeed \cup {e}, eventFeed \ {e}, eventFeed}
      BY <1>2 DEF FeedChanges
    <2>2. eventFeed' \in SUBSET EventPool /\ IsFiniteSet(eventFeed')
      <3>1. IsFiniteSet(eventFeed \cup {e})
        BY FS_AddElement DEF TimelineInv
      <3>2. IsFiniteSet(eventFeed \ {e})
        BY FS_RemoveElement DEF TimelineInv
      <3> QED BY <2>1, <3>1, <3>2 DEF TimelineInv
    <2>3. timeline' \in TimelineScreens
      BY <1>2, <2>2, SyncedIsTyped DEF FeedChanges, TimelineInv
    <2> QED BY <1>2, <2>2, <2>3 DEF FeedChanges, TimelineInv, NavInv
  <1>3. ASSUME NEW t \in SearchTerms, SetSearch(t) PROVE TimelineInv'
    <2>1. [timeline EXCEPT !.term = t] \in TimelineScreens
      BY DEF TimelineInv
    <2>2. timeline' \in TimelineScreens
      BY <1>3, <2>1, SyncedIsTyped DEF SetSearch, TimelineInv
    <2> QED BY <1>3, <2>2 DEF SetSearch, TimelineInv, NavInv
  <1>4. ASSUME NEW s \in SeverityFilters, SetSeverity(s) PROVE TimelineInv'
    <2>1. [timeline EXCEPT !.severity = s] \in TimelineScreens
      BY DEF TimelineInv
    <2>2. timeline' \in TimelineScreens
      BY <1>4, <2>1, SyncedIsTyped DEF SetSeverity, TimelineInv
    <2> QED BY <1>4, <2>2 DEF SetSeverity, TimelineInv, NavInv
  <1>5. ASSUME NEW e \in EventPool, SelectEvent(e) PROVE TimelineInv'
    BY <1>5 DEF SelectEvent, TimelineInv, NavInv
  <1>6. TimelineView = "ribbon" => NowListed # {} /\ NowSelected \in NowListed
    <2>1. TimelineView = "ribbon" => NowListed # {}
      BY DEF TimelineView
    <2>2. NowListed # {} => NowSelected \in NowListed
      BY <1>0, SelectedIsListed DEF NowSelected
    <2> QED BY <2>1, <2>2
  <1>7. CASE SelectNext
    <2> DEFINE rest == {e \in NowListed : Precedes(NowSelected, e)}
    <2>1. NowListed # {} /\ NowSelected \in NowListed /\ NowSelected # Last(NowListed)
      BY <1>6, <1>7 DEF SelectNext, TimelineInspector
    <2>2. Last(NowListed) \in NowListed /\ \A f \in NowListed \ {Last(NowListed)} : Precedes(f, Last(NowListed))
      <3>1. \E e \in NowListed : \A f \in NowListed \ {e} : Precedes(f, e)
        BY <1>0, <2>1, LastExists
      <3> QED BY <3>1 DEF Last
    <2>3. rest # {} /\ rest \in SUBSET EventPool
      BY <1>0, <2>1, <2>2
    <2>4. First(rest) \in EventPool
      <3> HIDE DEF rest
      <3> QED BY <2>3, FirstOfEvents
    <2>5. timeline' = [timeline EXCEPT !.key = KeyOf(First(rest))] /\ UNCHANGED <<nav, eventFeed>>
      BY <1>7 DEF SelectNext
    <2> HIDE DEF rest
    <2> QED BY <2>4, <2>5 DEF TimelineInv, NavInv
  <1>8. CASE SelectPrev
    <2> DEFINE rest == {e \in NowListed : Precedes(e, NowSelected)}
    <2>1. NowListed # {} /\ NowSelected \in NowListed /\ NowSelected # First(NowListed)
      BY <1>6, <1>8 DEF SelectPrev, TimelineInspector
    <2>2. First(NowListed) \in NowListed /\ \A f \in NowListed \ {First(NowListed)} : Precedes(First(NowListed), f)
      <3>1. \E e \in NowListed : \A f \in NowListed \ {e} : Precedes(e, f)
        BY <1>0, <2>1, FirstExists
      <3> QED BY <3>1 DEF First
    <2>3. rest # {} /\ rest \in SUBSET EventPool /\ IsFiniteSet(rest)
      <3>1. rest \in SUBSET NowListed
        OBVIOUS
      <3>2. IsFiniteSet(rest)
        BY <1>0, <3>1, FS_Subset
      <3> QED BY <1>0, <2>1, <2>2, <3>2
    <2>4. Last(rest) \in EventPool
      <3> HIDE DEF rest
      <3> QED BY <2>3, LastOfEvents
    <2>5. timeline' = [timeline EXCEPT !.key = KeyOf(Last(rest))] /\ UNCHANGED <<nav, eventFeed>>
      BY <1>8 DEF SelectPrev
    <2> HIDE DEF rest
    <2> QED BY <2>4, <2>5 DEF TimelineInv, NavInv
  <1>9. CASE ClearTimelineFilters
    <2>1. NavInv'
      BY <1>9, WhereItLeads DEF ClearTimelineFilters, TimelineInv, NavInv
    <2> QED BY <1>9, <2>1, TimelineConstants DEF ClearTimelineFilters, TimelineInv, TimelineFresh, SeverityFilters
  <1>10. ASSUME NEW n, MoveTo(n), n \in [screen : Screens, target : Refs \cup {NoTarget}] PROVE TimelineInv'
    <2>1. NavInv'
      BY <1>10 DEF MoveTo, NavInv
    <2>2. TimelineFresh \in TimelineScreens /\ [timeline EXCEPT !.mounted = TRUE] \in TimelineScreens
      BY TimelineConstants DEF TimelineInv, TimelineFresh, SeverityFilters
    <2>3. timeline' \in TimelineScreens
      BY <1>10, <2>2, SyncedIsTyped DEF MoveTo, TimelineInv
    <2> QED BY <1>10, <2>1, <2>3 DEF MoveTo, TimelineInv
  <1>11. ASSUME NEW s \in Screens, MoveTo(Switched(s)) PROVE TimelineInv'
    BY <1>10, <1>11, WhereItLeads DEF TimelineInv
  <1>12. ASSUME NEW r \in Refs, MoveTo(Followed(r)) PROVE TimelineInv'
    BY <1>10, <1>12, WhereItLeads DEF TimelineInv
  <1> QED BY <1>1, <1>2, <1>3, <1>4, <1>5, <1>7, <1>8, <1>9, <1>11, <1>12 DEF TimelineNext

\* What ChosenStaysShown says of a step.
ChosenStays ==
    /\ Target = 0 /\ timeline.mounted
    /\ \/ FeedChanges
       \/ \E t \in SearchTerms : SetSearch(t)
       \/ \E s \in SeverityFilters : SetSeverity(s)
    /\ \E e \in NowListed' : KeyOf(e) = timeline.key
    => KeyOf(NowSelected') = timeline.key

\* What FollowedIsShown says of a step.
FollowedShows ==
    /\ timeline'.mounted /\ TargetFor("timeline", nav') # 0
    /\ \/ FeedChanges
       \/ <<nav', timeline'.term, timeline'.severity>> # <<nav, timeline.term, timeline.severity>>
    /\ \E e \in NowListed' : e.packet = TargetFor("timeline", nav')
    => \E e \in EventPool : /\ e.packet = TargetFor("timeline", nav')
                            /\ KeyOf(e) = KeyOf(NowSelected')

\* Changes of the feed and of the filters leave the chosen event shown.
LEMMA ChosenIsKept == ASSUME TimelineInv, TimelineInv' PROVE ChosenStays
  <1> SUFFICES ASSUME Target = 0, timeline.mounted,
                      \/ FeedChanges
                      \/ \E t \in SearchTerms : SetSearch(t)
                      \/ \E s \in SeverityFilters : SetSeverity(s),
                      \E e \in NowListed' : KeyOf(e) = timeline.key
               PROVE  KeyOf(NowSelected') = timeline.key
    BY DEF ChosenStays
  <1>1. timeline'.key = timeline.key
    <2>1. CASE FeedChanges
      <3>1. timeline' = timeline
        BY <2>1, SyncedIsTyped DEF FeedChanges, TimelineInv, TimelineScreens
      <3> QED BY <3>1
    <2>2. ASSUME NEW t \in SearchTerms, SetSearch(t) PROVE timeline'.key = timeline.key
      <3>1. [timeline EXCEPT !.term = t] \in TimelineScreens
        BY DEF TimelineInv, TimelineScreens
      <3>2. timeline' = [timeline EXCEPT !.term = t]
        BY <2>2, <3>1, SyncedIsTyped DEF SetSearch, TimelineInv
      <3> QED BY <3>2 DEF TimelineInv
    <2>3. ASSUME NEW s \in SeverityFilters, SetSeverity(s) PROVE timeline'.key = timeline.key
      <3>1. [timeline EXCEPT !.severity = s] \in TimelineScreens
        BY DEF TimelineInv, TimelineScreens
      <3>2. timeline' = [timeline EXCEPT !.severity = s]
        BY <2>3, <3>1, SyncedIsTyped DEF SetSeverity, TimelineInv
      <3> QED BY <3>2 DEF TimelineInv
    <2> QED BY <2>1, <2>2, <2>3
  <1>2. NowListed' \in SUBSET EventPool /\ NowListed' # {}
    BY DEF NowListed, Listed, TimelineInv
  <1>3. NowSelected' = Selected(NowListed', timeline', Target')
    BY DEF NowSelected
  <1> QED BY <1>1, <1>2, <1>3, SelectedIsListed

\* An event that evidence was followed to is shown.
LEMMA FollowedIsSeen ==
    ASSUME TimelineInv, TimelineInv', [TimelineNext]_timelineVars
    PROVE  FollowedShows
  <1> DEFINE target == TargetFor("timeline", nav')
             moved == <<nav', timeline'.term, timeline'.severity>> # <<nav, timeline.term, timeline.severity>>
  <1> SUFFICES ASSUME timeline'.mounted, target # 0, FeedChanges \/ moved,
                      \E e \in NowListed' : e.packet = target
               PROVE  \E e \in EventPool : e.packet = target /\ KeyOf(e) = KeyOf(NowSelected')
    BY DEF FollowedShows
  <1>1. \E screen \in TimelineScreens : timeline' = Synced(screen, eventFeed', target)
    <2>1. moved => ~UNCHANGED timelineVars
      BY DEF timelineVars
    <2>2. CASE FeedChanges
      BY <2>2 DEF FeedChanges, Target, TimelineInv, TimelineScreens
    <2>3. ASSUME NEW t \in SearchTerms, SetSearch(t)
          PROVE  \E screen \in TimelineScreens : timeline' = Synced(screen, eventFeed', target)
      <3>1. [timeline EXCEPT !.term = t] \in TimelineScreens
        BY DEF TimelineInv, TimelineScreens
      <3> QED BY <2>3, <3>1 DEF SetSearch, Target
    <2>4. ASSUME NEW s \in SeverityFilters, SetSeverity(s)
          PROVE  \E screen \in TimelineScreens : timeline' = Synced(screen, eventFeed', target)
      <3>1. [timeline EXCEPT !.severity = s] \in TimelineScreens
        BY DEF TimelineInv, TimelineScreens
      <3> QED BY <2>4, <3>1 DEF SetSeverity, Target
    <2>5. ASSUME NEW k, timeline' = [timeline EXCEPT !.key = k], UNCHANGED <<nav, eventFeed>> PROVE ~moved
      BY <2>5 DEF TimelineInv
    <2>6. CASE ClearTimelineFilters
      <3>1. target = 0
        BY <2>6, UntargetedHasNoTarget DEF ClearTimelineFilters, TimelineInv
      <3> QED BY <3>1
    <2>7. ASSUME NEW n, MoveTo(n)
          PROVE  \E screen \in TimelineScreens : timeline' = Synced(screen, eventFeed', target)
      <3>1. n.screen = "timeline"
        BY <2>7 DEF MoveTo, TimelineFresh
      <3>2. [timeline EXCEPT !.mounted = TRUE] \in TimelineScreens
        BY DEF TimelineInv, TimelineScreens
      <3> QED BY <2>7, <3>1, <3>2 DEF MoveTo
    <2>8. moved => ~(\E e \in EventPool : SelectEvent(e)) /\ ~SelectNext /\ ~SelectPrev
      BY <2>5 DEF SelectEvent, SelectNext, SelectPrev
    <2> QED BY <2>1, <2>2, <2>3, <2>4, <2>6, <2>7, <2>8 DEF TimelineNext
  <1>2. PICK screen \in TimelineScreens : timeline' = Synced(screen, eventFeed', target)
    BY <1>1
  <1>3. eventFeed' \in SUBSET EventPool
    BY DEF TimelineInv
  <1>4. NowListed' = Listed(eventFeed', screen) /\ screen.mounted
    BY <1>2, <1>3, SyncedIsTyped DEF NowListed
  <1>5. PICK e \in NowListed' : e.packet = target /\ KeyOf(e) = timeline'.key
    <2> HIDE DEF target
    <2> QED BY <1>2, <1>3, <1>4, SyncedIsTyped
  <1>6. NowListed' \in SUBSET EventPool /\ NowListed' # {}
    BY <1>3, <1>5 DEF NowListed, Listed
  <1>7. KeyOf(NowSelected') = timeline'.key
    <2>1. NowSelected' = Selected(NowListed', timeline', Target')
      BY DEF NowSelected
    <2> QED BY <1>5, <1>6, <2>1, SelectedIsListed
  <1> QED BY <1>5, <1>6, <1>7

\* The timeline has its type.
LEMMA TimelineHolds == ASSUME TimelineInv PROVE TimelineTypeOK
  BY NavHolds DEF TimelineInv, TimelineTypeOK

-----------------------------------------------------------------------------
\* The journey (Journey.tsx).

\* What a session can be asked for by.
SessionIds == DOMAIN StagesOf \cup {NoSession} \cup {r.id : r \in Refs} \cup {0}
\* What a journey is asked for by.
WantedStates == [session : SessionIds, depth : ReadingDepths]
\* What the screens hold of sessions.
EvidenceStates == [stored : SUBSET DOMAIN StagesOf, cited : SUBSET DOMAIN StagesOf, depth : ReadingDepths]
\* The journeys on the screen.
ShownStates == [session : SessionIds, stages : Nat, depth : ReadingDepths \cup {"none"}]
\* The states of the screen.
JourneyScreens == [mounted : BOOLEAN, known : SUBSET DOMAIN StagesOf, chosen : DOMAIN StagesOf \cup {NoSession},
                   shown : ShownStates, loaded : BOOLEAN, failed : BOOLEAN, stage : Nat, overlapped : BOOLEAN]
\* The queries of the screen.
CallStates == [asked : 0 .. MaxAsks, out : SUBSET [n : 1 .. MaxAsks, wanted : WantedStates],
               refresh : WantedStates \cup {NothingWanted}]
\* The states of the navigation.
NavStates == [screen : Screens, target : Refs \cup {NoTarget}]

\* The types, and that a journey asked for is of some session.
JourneyTyped ==
    /\ NavInv
    /\ evidence \in EvidenceStates /\ IsFiniteSet(evidence.stored) /\ IsFiniteSet(evidence.cited)
    /\ journey \in JourneyScreens /\ IsFiniteSet(journey.known)
    /\ journeyCalls \in CallStates
    /\ \A c \in journeyCalls.out : c.wanted.session # NoSession
    /\ journey.mounted => nav.screen = "journey"

\* Unless journeys overlap, what is on its way or about to be asked is what is wanted.
JourneysInOrder ==
    journey.mounted /\ ~journey.overlapped =>
        /\ \A c \in journeyCalls.out : c.wanted = NowWanted
        /\ journeyCalls.refresh # NothingWanted => journeyCalls.refresh = NowWanted

\* A skeleton waits for a query, what is shown is what is wanted, and the stage read is
\* one of the journey shown.
JourneyInv ==
    /\ JourneyTyped /\ JourneysInOrder
    /\ journey.stage = 0 \/ journey.shown.stages = 0 \/ journey.stage < journey.shown.stages
    /\ SkeletonHasCause /\ ShownJourneyIsWanted

\* A freshly mounted screen.
LEMMA FreshJourney == JourneyFresh \in JourneyScreens /\ NothingShown \in ShownStates /\ NoCalls \in CallStates
  BY JourneyConstants
     DEF JourneyFresh, NothingShown, NoCalls, NothingWanted, JourneyScreens, ShownStates, CallStates, SessionIds

\* What the screen wants is a session there is or can be followed to.
LEMMA WantedIsASession ==
    ASSUME NEW j \in JourneyScreens, NEW n \in NavStates, NEW e \in EvidenceStates,
           IsFiniteSet(j.known), IsFiniteSet(e.cited)
    PROVE  Wanted(j, n, e) \in WantedStates
  <1>1. j.chosen \in SessionIds /\ e.depth \in ReadingDepths
    BY DEF JourneyScreens, EvidenceStates, SessionIds
  <1>2. TargetFor("journey", n) \in SessionIds
    BY DEF TargetFor, NavStates, NoTarget, SessionIds
  <1>3. SessionOptions(j, e) # {} => Newest(SessionOptions(j, e)) \in SessionIds
    <2> DEFINE options == SessionOptions(j, e)
    <2>1. options \in SUBSET DOMAIN StagesOf /\ options \in SUBSET Nat
      BY JourneyConstants DEF SessionOptions, JourneyScreens, EvidenceStates
    <2>2. IsFiniteSet(options)
      BY FS_Union DEF SessionOptions
    <2> HIDE DEF options
    <2>3. options # {} => \E s \in options : \A o \in options : o <= s
      BY <2>1, <2>2, GreatestOf
    <2>4. options # {} => Newest(options) \in options
      BY <2>3 DEF Newest
    <2>5. options # {} => Newest(options) \in SessionIds
      BY <2>1, <2>4 DEF SessionIds
    <2> QED BY <2>5 DEF options
  <1>4. ActiveSession(j, n, e) \in SessionIds
    <2>1. NoSession \in SessionIds
      BY DEF SessionIds
    <2> QED BY <1>1, <1>2, <1>3, <2>1 DEF ActiveSession
  <1> QED BY <1>1, <1>4 DEF Wanted, WantedStates

\* The journey when it is opened.
LEMMA JourneyStart == ASSUME JourneyInit PROVE JourneyInv
  <1>1. NavInv
    BY NavStart DEF JourneyInit
  <1>2. PICK d \in ReadingDepths : evidence = [stored |-> {}, cited |-> {}, depth |-> d]
    BY DEF JourneyInit
  <1>3. /\ evidence \in EvidenceStates /\ IsFiniteSet(evidence.stored) /\ IsFiniteSet(evidence.cited)
    BY <1>2, FS_EmptySet DEF EvidenceStates
  <1>4. journey = JourneyFresh /\ journeyCalls = NoCalls
    BY DEF JourneyInit
  <1>5. /\ IsFiniteSet(journey.known) /\ ~journey.mounted /\ journey.stage = 0
        /\ journeyCalls.out = {} /\ journeyCalls.refresh = NothingWanted
    BY <1>4, FS_EmptySet DEF JourneyFresh, NoCalls
  <1> QED BY <1>1, <1>3, <1>4, <1>5, FreshJourney
          DEF JourneyTyped, JourneysInOrder, JourneyInv, SkeletonHasCause, ShownJourneyIsWanted

\* The effect that fetches leaves the screen waiting for what it asked.
LEMMA FetchIsKept ==
    ASSUME NavInv', evidence' \in EvidenceStates, IsFiniteSet(evidence'.stored), IsFiniteSet(evidence'.cited),
           NEW j \in JourneyScreens, IsFiniteSet(j.known), NEW calls \in CallStates,
           \A c \in calls.out : c.wanted.session # NoSession,
           NEW wanted \in WantedStates, wanted.session # NoSession,
           j.stage = 0 \/ j.shown.stages = 0 \/ j.stage < j.shown.stages,
           ~j.mounted \/ j.overlapped \/ (~Overlaps(calls) /\ wanted = Wanted(j, nav', evidence')),
           j.mounted => nav'.screen = "journey", FetchJourney(j, calls, wanted)
    PROVE  JourneyInv'
  <1>1. journey' = [j EXCEPT !.loaded = FALSE, !.failed = FALSE] /\ calls.asked < MaxAsks
    BY DEF FetchJourney
  <1>2. /\ journey' \in JourneyScreens /\ journey'.known = j.known /\ journey'.mounted = j.mounted
        /\ journey'.stage = j.stage /\ journey'.shown = j.shown /\ ~journey'.loaded
        /\ journey'.chosen = j.chosen /\ journey'.overlapped = j.overlapped
    BY <1>1 DEF JourneyScreens
  <1> DEFINE call == [n |-> calls.asked + 1, wanted |-> wanted]
  <1>3. call \in [n : 1 .. MaxAsks, wanted : WantedStates] /\ call.wanted = wanted /\ calls.asked + 1 \in 0 .. MaxAsks
    BY <1>1, JourneyConstants DEF CallStates
  <1>4. journeyCalls' = [calls EXCEPT !.asked = @ + 1, !.out = @ \cup {call}]
    BY DEF FetchJourney
  <1> HIDE DEF call
  <1>5. journeyCalls' \in CallStates /\ journeyCalls'.out = calls.out \cup {call}
    BY <1>3, <1>4 DEF CallStates
  <1>6. \A c \in journeyCalls'.out : c.wanted.session # NoSession
    BY <1>3, <1>5
  <1>7. JourneysInOrder'
    <2>1. journeyCalls'.refresh = calls.refresh
      BY <1>4 DEF CallStates
    <2>2. NowWanted' = Wanted(j, nav', evidence')
      BY <1>2 DEF NowWanted, Wanted, ActiveSession, SessionOptions
    <2>3. \A c \in journeyCalls'.out : calls.out = {} => c.wanted = wanted
      BY <1>3, <1>5
    <2> QED BY <1>2, <2>1, <2>2, <2>3 DEF JourneysInOrder, Overlaps
  <1> QED BY <1>2, <1>5, <1>6, <1>7 DEF JourneyTyped, JourneyInv, SkeletonHasCause, ShownJourneyIsWanted

\* The render that follows a change, whatever the change was.
LEMMA RenderIsKept ==
    ASSUME JourneyInv, NEW known \in SUBSET DOMAIN StagesOf, IsFiniteSet(known),
           NEW chosen \in DOMAIN StagesOf \cup {NoSession}, NEW n \in NavStates, nav' = n,
           NEW e \in EvidenceStates, evidence' = e, IsFiniteSet(e.stored), IsFiniteSet(e.cited),
           Rendered([journey EXCEPT !.known = known, !.chosen = chosen], n, e, journeyCalls)
    PROVE  JourneyInv'
  <1> DEFINE j == [journey EXCEPT !.known = known, !.chosen = chosen]
             now == Wanted(j, n, e)
  <1>1. /\ j \in JourneyScreens /\ j.known = known /\ j.chosen = chosen
        /\ j.mounted = journey.mounted /\ j.shown = journey.shown /\ j.loaded = journey.loaded
        /\ j.failed = journey.failed /\ j.stage = journey.stage /\ j.overlapped = journey.overlapped
    BY DEF JourneyInv, JourneyTyped, JourneyScreens
  <1>2. NavInv' /\ journeyCalls \in CallStates /\ \A c \in journeyCalls.out : c.wanted.session # NoSession
    BY DEF NavInv, NavStates, JourneyInv, JourneyTyped
  <1> HIDE DEF j
  <1>3. now \in WantedStates
    BY <1>1, WantedIsASession
  <1>4. CASE n.screen # "journey"
    <2>1. journey' = JourneyFresh /\ journeyCalls' = NoCalls
      BY <1>4 DEF Rendered
    <2>2. /\ IsFiniteSet(journey'.known) /\ ~journey'.mounted /\ journey'.stage = 0
          /\ journeyCalls'.out = {} /\ journeyCalls'.refresh = NothingWanted
      BY <2>1, FS_EmptySet DEF JourneyFresh, NoCalls
    <2> QED BY <1>2, <2>1, <2>2, FreshJourney
            DEF JourneyTyped, JourneysInOrder, JourneyInv, SkeletonHasCause, ShownJourneyIsWanted
  <1>5. CASE n.screen = "journey" /\ journey.mounted /\ now = NowWanted
    <2>1. journey' = j /\ journeyCalls' = journeyCalls
      BY <1>5 DEF Rendered, j
    <2>2. JourneyTyped'
      BY <1>1, <1>2, <1>5, <2>1 DEF JourneyTyped
    <2>3. NowWanted' = NowWanted
      BY <1>5, <2>1 DEF NowWanted
    <2>4. SkeletonHasCause'
      BY <1>1, <2>1 DEF JourneyInv, SkeletonHasCause
    <2>5. ShownJourneyIsWanted'
      BY <1>1, <2>1, <2>3 DEF JourneyInv, ShownJourneyIsWanted
    <2>6. JourneysInOrder'
      BY <1>1, <2>1, <2>3 DEF JourneyInv, JourneysInOrder
    <2> QED BY <1>1, <2>1, <2>2, <2>4, <2>5, <2>6 DEF JourneyInv
  <1>6. CASE n.screen = "journey" /\ ~(journey.mounted /\ now = NowWanted) /\ now.session = NoSession
    <2> DEFINE overlapped == Overlaps(journeyCalls)
    <2>a. overlapped \in BOOLEAN
      BY DEF Overlaps
    <2>1. /\ journey' = [j EXCEPT !.mounted = TRUE, !.shown = NothingShown, !.loaded = TRUE, !.stage = 0,
                                  !.overlapped = overlapped]
          /\ journeyCalls' = journeyCalls
      BY <1>6 DEF Rendered, j
    <2>b. ~overlapped => journeyCalls.out = {} /\ journeyCalls.refresh = NothingWanted
      BY DEF Overlaps
    <2> HIDE DEF overlapped
    <2>2. /\ journey' \in JourneyScreens /\ journey'.known = j.known /\ journey'.chosen = j.chosen
          /\ journey'.shown = NothingShown /\ journey'.loaded /\ journey'.stage = 0
          /\ journey'.overlapped = overlapped
      BY <1>1, <2>1, <2>a, FreshJourney DEF JourneyScreens
    <2>c. JourneysInOrder'
      BY <2>1, <2>2, <2>b DEF JourneysInOrder
    <2>3. NowWanted' = now
      BY <2>2 DEF NowWanted, Wanted, ActiveSession, SessionOptions
    <2>4. JourneyTyped'
      BY <1>1, <1>2, <1>6, <2>1, <2>2 DEF JourneyTyped
    <2> QED BY <1>6, <2>2, <2>3, <2>4, <2>c DEF JourneyInv, SkeletonHasCause, ShownJourneyIsWanted
  <1>7. CASE n.screen = "journey" /\ ~(journey.mounted /\ now = NowWanted) /\ now.session # NoSession
    <2> DEFINE overlapped == Overlaps(journeyCalls)
               k == [j EXCEPT !.mounted = TRUE, !.stage = 0, !.overlapped = overlapped]
    <2>1. FetchJourney(k, journeyCalls, now)
      BY <1>7 DEF Rendered, j
    <2>a. overlapped \in BOOLEAN
      BY DEF Overlaps
    <2>2. k \in JourneyScreens /\ k.known = known /\ k.chosen = chosen /\ k.stage = 0
          /\ k.overlapped = Overlaps(journeyCalls)
      <3> HIDE DEF overlapped
      <3>1. k \in JourneyScreens /\ k.known = known /\ k.chosen = chosen /\ k.stage = 0
            /\ k.overlapped = overlapped
        BY <1>1, <2>a DEF JourneyScreens
      <3> QED BY <3>1 DEF overlapped
    <2>3. now = Wanted(k, nav', evidence')
      BY <1>1, <2>2 DEF Wanted, ActiveSession, SessionOptions
    <2> HIDE DEF k, now
    <2> QED BY <1>2, <1>3, <1>7, <2>1, <2>2, <2>3, FetchIsKept
  <1> QED BY <1>4, <1>5, <1>6, <1>7

\* Every step of the journey, answers in any order.
LEMMA JourneyStep == ASSUME JourneyInv, [JourneyNext]_journeyVars PROVE JourneyInv'
  <1>0. /\ nav \in NavStates /\ evidence \in EvidenceStates /\ IsFiniteSet(evidence.stored)
        /\ IsFiniteSet(evidence.cited) /\ journey \in JourneyScreens /\ IsFiniteSet(journey.known)
        /\ journeyCalls \in CallStates
    BY DEF JourneyInv, JourneyTyped, NavInv, NavStates
  <1>a. /\ journey.known \in SUBSET DOMAIN StagesOf /\ journey.chosen \in DOMAIN StagesOf \cup {NoSession}
        /\ \A known : [journey EXCEPT !.known = known] = [journey EXCEPT !.known = known, !.chosen = journey.chosen]
        /\ \A chosen : [journey EXCEPT !.chosen = chosen] = [journey EXCEPT !.known = journey.known, !.chosen = chosen]
        /\ journey = [journey EXCEPT !.known = journey.known, !.chosen = journey.chosen]
    BY <1>0 DEF JourneyScreens
  <1>b. NowWanted \in WantedStates
    BY <1>0, WantedIsASession DEF NowWanted
  <1>1. CASE UNCHANGED journeyVars
    BY <1>1 DEF journeyVars, JourneyInv, JourneyTyped, JourneysInOrder, NavInv, SkeletonHasCause,
                ShownJourneyIsWanted, NowWanted
  <1>2. ASSUME NEW n \in NavStates, JourneyMoves(n) PROVE JourneyInv'
    <2>1. Rendered([journey EXCEPT !.known = journey.known, !.chosen = journey.chosen], n, evidence, journeyCalls)
      BY <1>2, <1>a DEF JourneyMoves
    <2>2. nav' = n /\ evidence' = evidence
      BY <1>2 DEF JourneyMoves
    <2> QED BY <1>0, <1>2, <1>a, <2>1, <2>2, RenderIsKept
  <1>3. ASSUME NEW s \in Screens, JourneyMoves(Switched(s)) PROVE JourneyInv'
    BY <1>2, <1>3, WhereItLeads DEF JourneyInv, JourneyTyped, NavStates
  <1>4. ASSUME NEW r \in Refs, JourneyMoves(Followed(r)) PROVE JourneyInv'
    BY <1>2, <1>4, WhereItLeads DEF JourneyInv, JourneyTyped, NavStates
  <1>5. CASE EvidenceChanges
    <2>1. evidence' \in EvidenceStates /\ IsFiniteSet(evidence'.stored) /\ IsFiniteSet(evidence'.cited)
      <3>1. ASSUME NEW s \in DOMAIN StagesOf, evidence' = [evidence EXCEPT !.stored = @ \cup {s}]
            PROVE  evidence' \in EvidenceStates /\ IsFiniteSet(evidence'.stored) /\ IsFiniteSet(evidence'.cited)
        <4>1. evidence' \in EvidenceStates /\ evidence'.stored = evidence.stored \cup {s} /\ evidence'.cited = evidence.cited
          BY <1>0, <3>1 DEF EvidenceStates
        <4> QED BY <1>0, <4>1, FS_AddElement
      <3>2. ASSUME NEW s \in DOMAIN StagesOf, evidence' = [evidence EXCEPT !.cited = (@ \cup {s}) \ (@ \cap {s})]
            PROVE  evidence' \in EvidenceStates /\ IsFiniteSet(evidence'.stored) /\ IsFiniteSet(evidence'.cited)
        <4>1. /\ evidence' \in EvidenceStates /\ evidence'.stored = evidence.stored
              /\ evidence'.cited = (evidence.cited \cup {s}) \ (evidence.cited \cap {s})
          BY <1>0, <3>2 DEF EvidenceStates
        <4>2. IsFiniteSet(evidence.cited \cup {s}) /\ evidence'.cited \in SUBSET (evidence.cited \cup {s})
          BY <1>0, <4>1, FS_AddElement
        <4> QED BY <1>0, <4>1, <4>2, FS_Subset
      <3>3. ASSUME NEW d \in ReadingDepths, evidence' = [evidence EXCEPT !.depth = d]
            PROVE  evidence' \in EvidenceStates /\ IsFiniteSet(evidence'.stored) /\ IsFiniteSet(evidence'.cited)
        BY <1>0, <3>3 DEF EvidenceStates
      <3> QED BY <1>5, <3>1, <3>2, <3>3 DEF EvidenceChanges
    <2>2. Rendered([journey EXCEPT !.known = journey.known, !.chosen = journey.chosen], nav, evidence', journeyCalls)
      BY <1>5, <1>a DEF EvidenceChanges
    <2>3. nav' = nav
      BY <1>5 DEF EvidenceChanges
    <2> QED BY <1>0, <1>a, <2>1, <2>2, <2>3, RenderIsKept
  <1>6. CASE SessionsListed
    <2>1. evidence.stored \in SUBSET DOMAIN StagesOf
      BY <1>0 DEF EvidenceStates
    <2>2. Rendered([journey EXCEPT !.known = evidence.stored, !.chosen = journey.chosen], nav, evidence, journeyCalls)
      BY <1>6, <1>a DEF SessionsListed
    <2>3. nav' = nav /\ evidence' = evidence
      BY <1>6 DEF SessionsListed
    <2> QED BY <1>0, <1>a, <2>1, <2>2, <2>3, RenderIsKept
  <1>7. ASSUME NEW s \in DOMAIN StagesOf, ChooseSession(s) PROVE JourneyInv'
    <2>1. Rendered([journey EXCEPT !.known = journey.known, !.chosen = s], nav, evidence, journeyCalls)
      BY <1>7, <1>a DEF ChooseSession
    <2>2. nav' = nav /\ evidence' = evidence
      BY <1>7 DEF ChooseSession
    <2> QED BY <1>0, <1>a, <2>1, <2>2, RenderIsKept
  <1>8. CASE ResetSelection
    <2>1. Rendered([journey EXCEPT !.known = journey.known, !.chosen = NoSession], nav, evidence, journeyCalls)
      BY <1>8, <1>a DEF ResetSelection
    <2>2. nav' = nav /\ evidence' = evidence
      BY <1>8 DEF ResetSelection
    <2> QED BY <1>0, <1>a, <2>1, <2>2, RenderIsKept
  <1>9. CASE HandleClearFilter
    <2>1. Rendered([journey EXCEPT !.known = journey.known, !.chosen = NoSession], nav', evidence, journeyCalls)
      BY <1>9, <1>a DEF HandleClearFilter
    <2>2. nav' = Untargeted /\ evidence' = evidence /\ Untargeted \in NavStates
      BY <1>9, WhereItLeads DEF HandleClearFilter, JourneyInv, JourneyTyped, NavStates
    <2> QED BY <1>0, <1>a, <2>1, <2>2, RenderIsKept
  <1>10. CASE Refetch
    <2> DEFINE overlapped == Overlaps(journeyCalls)
    <2>1. /\ journeyCalls' = [journeyCalls EXCEPT !.refresh = NowWanted] /\ UNCHANGED <<nav, evidence>>
          /\ journey' = [journey EXCEPT !.overlapped = overlapped]
      BY <1>10 DEF Refetch
    <2>2. /\ journeyCalls' \in CallStates /\ journeyCalls'.out = journeyCalls.out
          /\ journeyCalls'.refresh = NowWanted
      BY <1>0, <1>b, <2>1 DEF CallStates
    <2>3. overlapped \in BOOLEAN /\ (~overlapped => journeyCalls.out = {})
      BY DEF Overlaps
    <2>4. journey.failed /\ journey.loaded
      BY <1>10 DEF Refetch, JourneyBanner
    <2> HIDE DEF overlapped
    <2>5. /\ journey' \in JourneyScreens /\ journey'.known = journey.known /\ journey'.chosen = journey.chosen
          /\ journey'.shown = journey.shown /\ journey'.stage = journey.stage /\ journey'.failed /\ journey'.loaded
          /\ journey'.mounted = journey.mounted /\ journey'.overlapped = overlapped
      BY <1>0, <2>1, <2>3, <2>4 DEF JourneyScreens
    <2>6. NowWanted' = NowWanted
      BY <2>1, <2>5 DEF NowWanted, Wanted, ActiveSession, SessionOptions
    <2>7. JourneysInOrder'
      BY <2>2, <2>3, <2>5, <2>6 DEF JourneysInOrder
    <2>8. JourneyTyped'
      BY <1>0, <2>1, <2>2, <2>5 DEF JourneyTyped, JourneyInv, NavInv
    <2> QED BY <2>5, <2>7, <2>8 DEF JourneyInv, SkeletonHasCause, ShownJourneyIsWanted
  <1>11. CASE RefetchContinues
    <2> DEFINE wanted == journeyCalls.refresh
               calls == [journeyCalls EXCEPT !.refresh = NothingWanted]
               overlapped == journey.overlapped \/ Overlaps(calls)
               j == [journey EXCEPT !.overlapped = overlapped]
    <2>1. wanted \in WantedStates
      BY <1>0, <1>11 DEF RefetchContinues, CallStates
    <2>2. calls \in CallStates /\ calls.out = journeyCalls.out /\ calls.refresh = NothingWanted
      BY <1>0 DEF CallStates
    <2>a. overlapped \in BOOLEAN
      BY <1>0 DEF JourneyScreens, Overlaps
    <2>b. journey.mounted /\ ~overlapped => /\ wanted = NowWanted /\ calls.out = {} /\ ~Overlaps(calls)
      BY <1>11 DEF JourneyInv, JourneysInOrder, RefetchContinues, Overlaps
    <2>c. /\ j \in JourneyScreens /\ j.known = journey.known /\ j.chosen = journey.chosen
          /\ j.shown = journey.shown /\ j.stage = journey.stage /\ j.mounted = journey.mounted
          /\ j.overlapped = overlapped
      <3> HIDE DEF overlapped
      <3> QED BY <1>0, <2>a DEF JourneyScreens
    <2>3. \A c \in calls.out : c.wanted.session # NoSession
      BY <2>2 DEF JourneyInv, JourneyTyped
    <2>4. UNCHANGED <<nav, evidence>>
      BY <1>11 DEF RefetchContinues
    <2>5. CASE wanted.session = NoSession
      <3>1. journey' = [j EXCEPT !.shown = NothingShown, !.loaded = TRUE] /\ journeyCalls' = calls
        BY <1>11, <2>5 DEF RefetchContinues
      <3> HIDE DEF j, overlapped, calls
      <3>2. /\ journey' \in JourneyScreens /\ journey'.known = journey.known /\ journey'.chosen = journey.chosen
            /\ journey'.shown = NothingShown /\ journey'.loaded /\ journey'.stage = journey.stage
            /\ journey'.mounted = journey.mounted /\ journey'.overlapped = overlapped
        BY <2>c, <3>1, FreshJourney DEF JourneyScreens
      <3>3. NowWanted' = NowWanted
        BY <2>4, <3>2 DEF NowWanted, Wanted, ActiveSession, SessionOptions
      <3>4. JourneyTyped'
        BY <1>0, <2>2, <2>3, <2>4, <3>1, <3>2 DEF JourneyTyped, JourneyInv, NavInv
      <3>5. ShownJourneyIsWanted'
        BY <2>5, <2>b, <3>2, <3>3 DEF ShownJourneyIsWanted
      <3>6. SkeletonHasCause' /\ journey'.shown.stages = 0
        BY <3>2 DEF SkeletonHasCause, NothingShown
      <3>7. JourneysInOrder'
        BY <2>2, <2>b, <3>1, <3>2 DEF JourneysInOrder
      <3> QED BY <3>4, <3>5, <3>6, <3>7 DEF JourneyInv
    <2>6. CASE wanted.session # NoSession
      <3>1. FetchJourney(j, calls, wanted)
        BY <1>11, <2>6 DEF RefetchContinues
      <3>2. NavInv' /\ (j.mounted => nav'.screen = "journey") /\ evidence' = evidence
            /\ (j.stage = 0 \/ j.shown.stages = 0 \/ j.stage < j.shown.stages)
        BY <2>4, <2>c DEF JourneyInv, JourneyTyped, NavInv
      <3>3. Wanted(j, nav', evidence') = NowWanted
        BY <2>4, <2>c DEF NowWanted, Wanted, ActiveSession, SessionOptions
      <3>4. ~j.mounted \/ j.overlapped \/ (~Overlaps(calls) /\ wanted = Wanted(j, nav', evidence'))
        BY <2>b, <2>c, <3>3
      <3> HIDE DEF calls, wanted, j, overlapped
      <3> QED BY <1>0, <2>1, <2>2, <2>3, <2>4, <2>6, <2>c, <3>1, <3>2, <3>4, FetchIsKept
    <2> QED BY <2>5, <2>6
  <1>12. ASSUME NEW c \in journeyCalls.out, JourneyArrives(c) PROVE JourneyInv'
    <2> DEFINE s == c.wanted.session
               stages == IF s \in evidence.stored THEN StagesOf[s] ELSE 0
               shown == [session |-> s, depth |-> c.wanted.depth, stages |-> stages]
    <2>1. /\ journey' = [journey EXCEPT !.shown = shown, !.stage = 0, !.loaded = TRUE]
          /\ journeyCalls' = [journeyCalls EXCEPT !.out = @ \ {c}] /\ UNCHANGED <<nav, evidence>>
      BY <1>12 DEF JourneyArrives
    <2>2. c.wanted \in WantedStates /\ s # NoSession
      BY <1>0 DEF CallStates, JourneyInv, JourneyTyped
    <2>3. stages \in Nat
      BY <1>0, JourneyConstants DEF EvidenceStates
    <2>4. shown \in ShownStates /\ shown.session = s /\ shown.depth = c.wanted.depth
      BY <2>2, <2>3 DEF ShownStates, WantedStates
    <2>5. journey.mounted /\ ~journey.overlapped => c.wanted = NowWanted
      BY DEF JourneyInv, JourneysInOrder
    <2> HIDE DEF shown, stages
    <2>6. /\ journey' \in JourneyScreens /\ journey'.known = journey.known /\ journey'.chosen = journey.chosen
          /\ journey'.shown = shown /\ journey'.loaded /\ journey'.stage = 0
          /\ journey'.mounted = journey.mounted /\ journey'.overlapped = journey.overlapped
      BY <1>0, <2>1, <2>4 DEF JourneyScreens
    <2>7. /\ journeyCalls' \in CallStates /\ journeyCalls'.out \subseteq journeyCalls.out
          /\ journeyCalls'.refresh = journeyCalls.refresh
      BY <1>0, <2>1 DEF CallStates
    <2>8. NowWanted' = NowWanted
      BY <2>1, <2>6 DEF NowWanted, Wanted, ActiveSession, SessionOptions
    <2>9. JourneyTyped'
      BY <1>0, <2>1, <2>6, <2>7 DEF JourneyTyped, JourneyInv, NavInv
    <2>10. ShownJourneyIsWanted'
      BY <2>2, <2>4, <2>5, <2>6, <2>8 DEF ShownJourneyIsWanted
    <2>11. JourneysInOrder'
      BY <2>6, <2>7, <2>8 DEF JourneyInv, JourneysInOrder
    <2> QED BY <2>6, <2>9, <2>10, <2>11 DEF JourneyInv, SkeletonHasCause
  <1>13. ASSUME NEW c \in journeyCalls.out, JourneyFails(c) PROVE JourneyInv'
    <2>1. /\ journey' = [journey EXCEPT !.failed = TRUE, !.loaded = TRUE]
          /\ journeyCalls' = [journeyCalls EXCEPT !.out = @ \ {c}] /\ UNCHANGED <<nav, evidence>>
      BY <1>13 DEF JourneyFails
    <2>2. /\ journey' \in JourneyScreens /\ journey'.known = journey.known /\ journey'.shown = journey.shown
          /\ journey'.loaded /\ journey'.failed /\ journey'.stage = journey.stage /\ journey'.mounted = journey.mounted
          /\ journey'.chosen = journey.chosen /\ journey'.overlapped = journey.overlapped
      BY <1>0, <2>1 DEF JourneyScreens
    <2>3. /\ journeyCalls' \in CallStates /\ journeyCalls'.out \subseteq journeyCalls.out
          /\ journeyCalls'.refresh = journeyCalls.refresh
      BY <1>0, <2>1 DEF CallStates
    <2>4. NowWanted' = NowWanted
      BY <2>1, <2>2 DEF NowWanted, Wanted, ActiveSession, SessionOptions
    <2>5. JourneysInOrder'
      BY <2>2, <2>3, <2>4 DEF JourneyInv, JourneysInOrder
    <2> QED BY <1>0, <2>1, <2>2, <2>3, <2>5 DEF JourneyInv, JourneyTyped, NavInv, SkeletonHasCause, ShownJourneyIsWanted
  <1>14. ASSUME JourneyView = "flow", NEW i \in 0 .. (journey.shown.stages - 1), SelectStage(i) PROVE JourneyInv'
    <2>1. journey' = [journey EXCEPT !.stage = i] /\ UNCHANGED <<nav, evidence, journeyCalls>>
      BY <1>14 DEF SelectStage
    <2>2. journey.shown.stages \in Nat
      BY <1>0 DEF JourneyScreens, ShownStates
    <2>3. i \in Nat /\ i < journey.shown.stages
      BY <2>2
    <2>4. /\ journey' \in JourneyScreens /\ journey'.known = journey.known /\ journey'.chosen = journey.chosen
          /\ journey'.shown = journey.shown /\ journey'.loaded = journey.loaded /\ journey'.failed = journey.failed
          /\ journey'.mounted = journey.mounted /\ journey'.overlapped = journey.overlapped /\ journey'.stage = i
      BY <1>0, <2>1, <2>3 DEF JourneyScreens
    <2>5. NowWanted' = NowWanted
      BY <2>1, <2>4 DEF NowWanted, Wanted, ActiveSession, SessionOptions
    <2>6. JourneyTyped'
      BY <1>0, <2>1, <2>4 DEF JourneyTyped, JourneyInv, NavInv
    <2>7. JourneysInOrder'
      BY <2>1, <2>4, <2>5 DEF JourneyInv, JourneysInOrder
    <2> QED BY <2>1, <2>3, <2>4, <2>5, <2>6, <2>7 DEF JourneyInv, SkeletonHasCause, ShownJourneyIsWanted
  <1> QED BY <1>1, <1>3, <1>4, <1>5, <1>6, <1>7, <1>8, <1>9, <1>10, <1>11, <1>12, <1>13, <1>14 DEF JourneyNext

\* The skeleton has its cause, the journey is the wanted one, the stage exists.
LEMMA JourneyHolds ==
    ASSUME JourneyInv
    PROVE  JourneyTypeOK /\ SkeletonHasCause /\ ShownJourneyIsWanted /\ ReadStageExists
  <1>1. JourneyTypeOK
    BY NavHolds DEF JourneyInv, JourneyTyped, JourneyTypeOK, EvidenceStates, JourneyScreens, CallStates
  <1>2. ReadStageExists
    BY DEF JourneyInv, JourneyTyped, JourneyScreens, ShownStates, ReadStageExists, JourneyView
  <1> QED BY <1>1, <1>2 DEF JourneyInv

-----------------------------------------------------------------------------
\* The applications (Apps.tsx).

\* What a flow can be followed by.
FlowIds == AppFlows \cup {0} \cup {r.id : r \in Refs}
\* The snapshots, and none.
OwnerStates == {<<>>} \cup EngineSnapshots
\* The states of the screen.
AppsScreens == [mounted : BOOLEAN, term : AppTerms, filter : ConfidenceFilters, expanded : SUBSET (Owners \cup {Unowned}),
                inspected : FlowIds, handled : FlowIds, touched : BOOLEAN]
\* The levels of confidence.
Levels == {"high", "low", "unknown"}

\* The flow that evidence was followed to has been opened, or no row lists it.
TargetHandled(s, snap, target) ==
    /\ s.handled # 0 /\ ~s.touched => s.inspected = s.handled
    /\ target # 0 /\ s.handled # target => ListedGroups(snap, s, target) = {}

\* An open screen has handled the flow it was opened for, as long as it is listed.
AppsInv ==
    /\ NavInv
    /\ owners \in OwnerStates
    /\ apps \in AppsScreens
    /\ attributions \in [AppFlows -> Levels \cup {"none"}]
    /\ apps.mounted => nav.screen = "apps" /\ TargetHandled(apps, owners, AppTarget)

\* The target of the screen.
LEMMA FlowIdsOfTargets ==
    ASSUME NEW n \in [screen : Screens, target : Refs \cup {NoTarget}], NEW s
    PROVE  TargetFor(s, n) \in FlowIds
  BY DEF TargetFor, NoTarget, FlowIds

\* A snapshot names the process of each of its flows, one name for a number.
LEMMA SnapshotsAreTyped ==
    ASSUME NEW snap \in OwnerStates
    PROVE  /\ DOMAIN snap \subseteq AppFlows
           /\ \A f \in DOMAIN snap : snap[f] \in Owners \cup {Unowned, Absent}
           /\ \A f, g \in DOMAIN snap : snap[f].pid = snap[g].pid => snap[f] = snap[g]
  <1>1. CASE snap = <<>>
    <2>1. DOMAIN snap = {}
      BY <1>1
    <2> QED BY <2>1
  <1>2. CASE snap \in EngineSnapshots
    BY <1>2 DEF EngineSnapshots
  <1> QED BY <1>1, <1>2 DEF OwnerStates

\* A row of the screen is all flows of a process that is there.
LEMMA GroupsHaveOwners ==
    ASSUME NEW snap \in OwnerStates, NEW g \in Groups(snap)
    PROVE  /\ g.owner \in Owners \cup {Unowned} /\ g.owner # Absent
           /\ g.flows = {f \in DOMAIN snap : snap[f] = g.owner}
           /\ g.lineage = CorrelateLineage(g.owner, snap)
           /\ \E f \in DOMAIN snap : snap[f] = g.owner
  <1>1. PICK o \in {snap[f] : f \in DOMAIN snap} \ {Absent} :
            g = [owner |-> o, flows |-> {f \in DOMAIN snap : snap[f] = o}, confidence |-> ConfidenceOf(o),
                 lineage |-> CorrelateLineage(o, snap)]
    BY DEF Groups
  <1>2. o \in Owners \cup {Unowned} /\ o # Absent /\ \E f \in DOMAIN snap : snap[f] = o
    BY SnapshotsAreTyped
  <1> QED BY <1>1, <1>2

\* Opening the target leaves it handled.
LEMMA TargetIsOpened ==
    ASSUME NEW screen \in AppsScreens, NEW snap \in OwnerStates, NEW target \in FlowIds,
           screen.handled # 0 /\ ~screen.touched => screen.inspected = screen.handled
    PROVE  /\ TargetOpened(screen, snap, target) \in AppsScreens
           /\ TargetOpened(screen, snap, target).mounted = screen.mounted
           /\ TargetHandled(TargetOpened(screen, snap, target), snap, target)
  <1> DEFINE s == TargetOpened(screen, snap, target)
             groups == {g \in ListedGroups(snap, screen, target) : target \in g.flows}
             g == CHOOSE g \in groups : TRUE
             open == screen.expanded \cup {g.owner}
  <1>1. CASE target = 0
    <2>1. s = [screen EXCEPT !.handled = 0]
      BY <1>1 DEF TargetOpened
    <2>2. 0 \in FlowIds
      BY DEF FlowIds
    <2> QED BY <1>1, <2>1, <2>2 DEF AppsScreens, TargetHandled
  <1>2. CASE target # 0 /\ (screen.handled = target \/ groups = {})
    <2>1. s = screen
      BY <1>2 DEF TargetOpened
    <2>2. groups = {} => ListedGroups(snap, screen, target) = {}
      BY <1>2 DEF ListedGroups, ActiveGroups
    <2> HIDE DEF groups
    <2> QED BY <1>2, <2>1, <2>2 DEF TargetHandled
  <1>3. CASE target # 0 /\ screen.handled # target /\ groups # {}
    <2>1. s = [screen EXCEPT !.handled = target, !.inspected = target, !.expanded = open, !.touched = FALSE]
      <3>1. s = [screen EXCEPT !.handled = target, !.inspected = target, !.expanded = @ \cup {g.owner}, !.touched = FALSE]
        BY <1>3 DEF TargetOpened
      <3> QED BY <3>1 DEF AppsScreens
    <2>2. g \in groups
      BY <1>3
    <2>3. g \in Groups(snap)
      BY <2>2 DEF ListedGroups, ActiveGroups
    <2> HIDE DEF g, groups
    <2>4. g.owner \in Owners \cup {Unowned}
      BY <2>3, GroupsHaveOwners
    <2>5. open \in SUBSET (Owners \cup {Unowned})
      BY <2>4 DEF AppsScreens
    <2> HIDE DEF open
    <2> QED BY <2>1, <2>5 DEF AppsScreens, TargetHandled
  <1> QED BY <1>1, <1>2, <1>3

\* The confidence kept for a flow does not grow.
LEMMA CachedIsTyped ==
    ASSUME NEW snap \in OwnerStates, attributions \in [AppFlows -> Levels \cup {"none"}]
    PROVE  /\ Cached(snap) \in [AppFlows -> Levels \cup {"none"}]
           /\ \A f \in AppFlows : attributions[f] # "none" =>
                /\ Cached(snap)[f] # "none"
                /\ Ranks[attributions[f]] <= Ranks[Cached(snap)[f]]
  <1>1. \A o : ConfidenceOf(o) \in Levels
    BY DEF ConfidenceOf, Levels
  <1>2. /\ Ranks["high"] = 0 /\ Ranks["low"] = 1 /\ Ranks["unknown"] = 2
    BY DEF Ranks
  <1>3. \A a, b \in Levels : Weaker(a, b) \in Levels /\ Ranks[a] <= Ranks[Weaker(a, b)]
    BY <1>2 DEF Weaker, Levels
  <1>4. \A a \in Levels : Ranks[a] <= Ranks[a]
    BY <1>2 DEF Levels
  <1>5. "none" \notin Levels
    BY DEF Levels
  <1>6. ASSUME NEW f \in AppFlows
        PROVE  /\ Cached(snap)[f] \in Levels \cup {"none"}
               /\ attributions[f] # "none" => /\ Cached(snap)[f] # "none"
                                              /\ Ranks[attributions[f]] <= Ranks[Cached(snap)[f]]
    <2>1. attributions[f] \in Levels \cup {"none"}
      OBVIOUS
    <2>2. Cached(snap)[f] = IF f \notin DOMAIN snap \/ snap[f] = Absent THEN attributions[f]
                            ELSE IF attributions[f] = "none" THEN ConfidenceOf(snap[f])
                            ELSE Weaker(attributions[f], ConfidenceOf(snap[f]))
      BY DEF Cached
    <2>3. ConfidenceOf(snap[f]) \in Levels
      BY <1>1
    <2> QED BY <1>3, <1>4, <1>5, <2>1, <2>2, <2>3
  <1> QED BY <1>6 DEF Cached

\* The applications when they are opened.
LEMMA AppsStart == ASSUME AppsInit PROVE AppsInv
  <1>1. NavInv
    BY NavStart DEF AppsInit
  <1>2. AppsFresh(0) \in AppsScreens /\ ~AppsFresh(0).mounted
    BY AppsConstants DEF AppsFresh, AppsScreens, FlowIds, ConfidenceFilters
  <1>3. NoAttributions \in [AppFlows -> Levels \cup {"none"}]
    BY DEF NoAttributions
  <1> QED BY <1>1, <1>2, <1>3 DEF AppsInit, AppsInv, OwnerStates

\* What AttributionOnlyWeakens says of a step.
AttributionWeakens ==
    apps.mounted /\ apps'.mounted
        => \A f \in AppFlows : attributions[f] # "none"
             => attributions'[f] # "none" /\ Ranks[attributions[f]] <= Ranks[attributions'[f]]

\* Every step of the screen, snapshots and targets in any order.
LEMMA AppsStep == ASSUME AppsInv, [AppsNext]_appsVars PROVE AppsInv' /\ AttributionWeakens
  <1> USE DEF AppTarget
  <1>0. /\ NavInv /\ owners \in OwnerStates /\ apps \in AppsScreens
        /\ attributions \in [AppFlows -> Levels \cup {"none"}]
        /\ nav \in [screen : Screens, target : Refs \cup {NoTarget}] /\ AppTarget \in FlowIds
    BY FlowIdsOfTargets DEF AppsInv, NavInv
  <1>a. \A f \in AppFlows : attributions[f] # "none" => Ranks[attributions[f]] <= Ranks[attributions[f]]
    <2>1. Ranks["high"] = 0 /\ Ranks["low"] = 1 /\ Ranks["unknown"] = 2
      BY DEF Ranks
    <2> QED BY <1>0, <2>1 DEF Levels
  <1>b. UNCHANGED attributions => AttributionWeakens
    BY <1>a DEF AttributionWeakens
  <1>1. CASE UNCHANGED appsVars
    BY <1>1, <1>b DEF appsVars, AppsInv, NavInv, TargetHandled
  <1>2. ASSUME NEW snap \in EngineSnapshots, SnapshotArrives(snap) PROVE AppsInv' /\ AttributionWeakens
    <2>1. snap \in OwnerStates /\ owners' = snap /\ nav' = nav
      BY <1>2 DEF OwnerStates, SnapshotArrives
    <2>2. CASE apps.mounted
      <3>1. attributions' = Cached(snap) /\ apps' = TargetOpened(apps, snap, AppTarget)
        BY <1>2, <2>2 DEF SnapshotArrives
      <3>2. /\ apps' \in AppsScreens /\ apps'.mounted = apps.mounted
            /\ TargetHandled(apps', snap, AppTarget)
        BY <1>0, <2>1, <2>2, <3>1, TargetIsOpened DEF AppsInv, TargetHandled
      <3>3. attributions' \in [AppFlows -> Levels \cup {"none"}] /\ AttributionWeakens
        BY <1>0, <2>1, <3>1, CachedIsTyped DEF AttributionWeakens
      <3> QED BY <1>0, <2>1, <2>2, <3>2, <3>3 DEF AppsInv, NavInv
    <2>3. CASE ~apps.mounted
      BY <1>0, <1>2, <1>b, <2>1, <2>3 DEF SnapshotArrives, AppsInv, NavInv
    <2> QED BY <2>2, <2>3
  <1>3. ASSUME NEW screen \in AppsScreens, screen.handled # 0 /\ ~screen.touched => screen.inspected = screen.handled,
               screen.mounted, nav.screen = "apps",
               apps' = TargetOpened(screen, owners, AppTarget), UNCHANGED <<nav, owners, attributions>>
        PROVE  AppsInv' /\ AttributionWeakens
    <2>1. /\ apps' \in AppsScreens /\ apps'.mounted
          /\ TargetHandled(apps', owners, AppTarget)
      BY <1>0, <1>3, TargetIsOpened
    <2> QED BY <1>0, <1>3, <1>b, <2>1 DEF AppsInv, NavInv
  <1>c. AppsView \in {"no_match", "table"} => apps.mounted /\ nav.screen = "apps" /\ TargetHandled(apps, owners, AppTarget)
    BY DEF AppsView, AppsInv
  <1>4. ASSUME NEW term \in AppTerms, SetAppsSearch(term) PROVE AppsInv' /\ AttributionWeakens
    <2> DEFINE screen == [apps EXCEPT !.term = term]
    <2>1. /\ screen \in AppsScreens /\ screen.handled = apps.handled /\ screen.touched = apps.touched
          /\ screen.inspected = apps.inspected /\ screen.mounted = apps.mounted
      BY <1>0 DEF AppsScreens
    <2>2. apps' = TargetOpened(screen, owners, AppTarget) /\ UNCHANGED <<nav, owners, attributions>>
      BY <1>4 DEF SetAppsSearch
    <2>3. apps.mounted /\ nav.screen = "apps" /\ TargetHandled(apps, owners, AppTarget)
      BY <1>4, <1>c DEF SetAppsSearch
    <2> HIDE DEF screen
    <2> QED BY <1>3, <2>1, <2>2, <2>3 DEF TargetHandled
  <1>5. ASSUME NEW option \in ConfidenceFilters, SetConfidenceFilter(option) PROVE AppsInv' /\ AttributionWeakens
    <2> DEFINE screen == [apps EXCEPT !.filter = PressedFilter(option)]
    <2>0. PressedFilter(option) \in ConfidenceFilters
      BY DEF PressedFilter, ConfidenceFilters
    <2>1. /\ screen \in AppsScreens /\ screen.handled = apps.handled /\ screen.touched = apps.touched
          /\ screen.inspected = apps.inspected /\ screen.mounted = apps.mounted
      BY <1>0, <2>0 DEF AppsScreens
    <2>2. apps' = TargetOpened(screen, owners, AppTarget) /\ UNCHANGED <<nav, owners, attributions>>
      BY <1>5 DEF SetConfidenceFilter
    <2>3. apps.mounted /\ nav.screen = "apps" /\ TargetHandled(apps, owners, AppTarget)
      BY <1>5, <1>c DEF SetConfidenceFilter
    <2> HIDE DEF screen
    <2> QED BY <1>3, <2>1, <2>2, <2>3 DEF TargetHandled
  <1>6. CASE ClearAppsFilters
    <2> DEFINE screen == [apps EXCEPT !.term = AnyApp, !.filter = "all"]
    <2>1. /\ screen \in AppsScreens /\ screen.handled = apps.handled /\ screen.touched = apps.touched
          /\ screen.inspected = apps.inspected /\ screen.mounted = apps.mounted
      BY <1>0, AppsConstants DEF AppsScreens, ConfidenceFilters
    <2>2. apps' = TargetOpened(screen, owners, AppTarget) /\ UNCHANGED <<nav, owners, attributions>>
      BY <1>6 DEF ClearAppsFilters
    <2>3. apps.mounted /\ nav.screen = "apps" /\ TargetHandled(apps, owners, AppTarget)
      BY <1>6, <1>c DEF ClearAppsFilters
    <2> HIDE DEF screen
    <2> QED BY <1>3, <2>1, <2>2, <2>3 DEF TargetHandled
  <1>7. ASSUME NEW open \in SUBSET (Owners \cup {Unowned}), NEW flow \in FlowIds,
               apps' = [apps EXCEPT !.expanded = open, !.inspected = flow, !.touched = TRUE],
               UNCHANGED <<nav, owners, attributions>>
        PROVE  AppsInv' /\ AttributionWeakens
    <2>1. /\ apps' \in AppsScreens /\ apps'.mounted = apps.mounted /\ apps'.touched
          /\ apps'.handled = apps.handled /\ apps'.term = apps.term /\ apps'.filter = apps.filter
      BY <1>0, <1>7 DEF AppsScreens
    <2>2. TargetHandled(apps, owners, AppTarget) => TargetHandled(apps', owners, AppTarget)
      BY <2>1 DEF TargetHandled, ListedGroups
    <2> QED BY <1>0, <1>7, <1>b, <2>1, <2>2 DEF AppsInv, NavInv
  <1>8. ASSUME NEW g \in NowGroups, HandleToggleExpand(g) PROVE AppsInv' /\ AttributionWeakens
    <2> DEFINE open == IF g.owner \in apps.expanded THEN apps.expanded \ {g.owner}
                       ELSE IF apps.inspected \in g.flows THEN apps.expanded ELSE apps.expanded \cup {g.owner}
               flow == IF apps.inspected \in g.flows THEN 0 ELSE apps.inspected
    <2>1. g.owner \in Owners \cup {Unowned}
      BY <1>0, GroupsHaveOwners DEF NowGroups, ListedGroups, ActiveGroups
    <2>2. open \in SUBSET (Owners \cup {Unowned}) /\ flow \in FlowIds
      BY <1>0, <2>1 DEF AppsScreens, FlowIds
    <2>3. /\ apps' = [apps EXCEPT !.expanded = open, !.inspected = flow, !.touched = TRUE]
          /\ UNCHANGED <<nav, owners, attributions>>
      BY <1>0, <1>8 DEF HandleToggleExpand, AppsScreens
    <2> HIDE DEF open, flow
    <2> QED BY <1>7, <2>2, <2>3
  <1>9. ASSUME NEW f \in AppFlows, HandleInspectFlow(f) PROVE AppsInv' /\ AttributionWeakens
    <2> DEFINE flow == IF apps.inspected = f THEN 0 ELSE f
    <2>1. flow \in FlowIds /\ apps.expanded \in SUBSET (Owners \cup {Unowned})
      BY <1>0 DEF AppsScreens, FlowIds
    <2>2. /\ apps' = [apps EXCEPT !.expanded = apps.expanded, !.inspected = flow, !.touched = TRUE]
          /\ UNCHANGED <<nav, owners, attributions>>
      BY <1>0, <1>9 DEF HandleInspectFlow, AppsScreens
    <2> HIDE DEF flow
    <2> QED BY <1>7, <2>1, <2>2
  <1>10. ASSUME NEW n \in [screen : Screens, target : Refs \cup {NoTarget}], AppsMove(n)
         PROVE  AppsInv' /\ AttributionWeakens
    <2> DEFINE target == TargetFor("apps", n)
               screen == IF apps.mounted THEN apps ELSE [AppsFresh(target) EXCEPT !.mounted = TRUE]
    <2>1. target \in FlowIds /\ nav' = n /\ owners' = owners
      BY <1>10, FlowIdsOfTargets DEF AppsMove
    <2>2. NavInv'
      BY <1>10, <2>1 DEF NavInv
    <2>3. CASE n.screen # "apps"
      <3>1. apps' = AppsFresh(0) /\ attributions' = NoAttributions
        BY <1>10, <2>3 DEF AppsMove
      <3>2. AppsFresh(0) \in AppsScreens /\ ~AppsFresh(0).mounted
        BY AppsConstants DEF AppsFresh, AppsScreens, FlowIds, ConfidenceFilters
      <3>3. NoAttributions \in [AppFlows -> Levels \cup {"none"}]
        BY DEF NoAttributions
      <3> QED BY <1>0, <2>1, <2>2, <3>1, <3>2, <3>3 DEF AppsInv, AttributionWeakens
    <2>4. CASE n.screen = "apps"
      <3>1. apps' = TargetOpened(screen, owners, target) /\ attributions' = Cached(owners)
        BY <1>10, <2>4 DEF AppsMove
      <3>2. /\ screen \in AppsScreens /\ screen.mounted
            /\ screen.handled # 0 /\ ~screen.touched => screen.inspected = screen.handled
        <4>1. CASE apps.mounted
          BY <1>0, <4>1 DEF AppsInv, TargetHandled
        <4>2. CASE ~apps.mounted
          <5>1. screen = [AppsFresh(target) EXCEPT !.mounted = TRUE]
            BY <4>2
          <5>2. /\ [AppsFresh(target) EXCEPT !.mounted = TRUE] \in AppsScreens
                /\ [AppsFresh(target) EXCEPT !.mounted = TRUE].mounted
                /\ [AppsFresh(target) EXCEPT !.mounted = TRUE].handled = 0
            <6> HIDE DEF target, screen
            <6> QED BY <2>1, AppsConstants DEF AppsFresh, AppsScreens, FlowIds, ConfidenceFilters
          <5> QED BY <5>1, <5>2
        <4> QED BY <4>1, <4>2
      <3> HIDE DEF screen
      <3>3. /\ apps' \in AppsScreens /\ TargetHandled(apps', owners, target)
        BY <1>0, <2>1, <3>1, <3>2, TargetIsOpened
      <3>4. attributions' \in [AppFlows -> Levels \cup {"none"}] /\ AttributionWeakens
        BY <1>0, <3>1, CachedIsTyped DEF AttributionWeakens
      <3>5. AppTarget' = target
        BY <2>1
      <3> QED BY <1>0, <2>1, <2>2, <2>4, <3>3, <3>4, <3>5 DEF AppsInv
    <2> QED BY <2>3, <2>4
  <1>11. ASSUME NEW s \in Screens, AppsMove(Switched(s)) PROVE AppsInv' /\ AttributionWeakens
    BY <1>0, <1>10, <1>11, WhereItLeads
  <1>12. ASSUME NEW r \in Refs, AppsMove(Followed(r)) PROVE AppsInv' /\ AttributionWeakens
    BY <1>0, <1>10, <1>12, WhereItLeads
  <1>13. CASE AppsMove(Untargeted)
    BY <1>0, <1>10, <1>13, WhereItLeads
  <1> QED BY <1>1, <1>2, <1>4, <1>5, <1>6, <1>8, <1>9, <1>11, <1>12, <1>13 DEF AppsNext

\* What a group lists is what its own process is the owner of; the bucket of nobody also
\* lists what its namesakes own.
LEMMA LineageOfItsOwner ==
    ASSUME NEW snap \in OwnerStates, NEW f \in DOMAIN snap, snap[f] # Absent, NEW c \in Conduits(snap)
    PROVE  c \in CorrelateLineage(snap[f], snap)
             <=> c.owner = snap[f] \/ (snap[f] = Unowned /\ SameName(c.owner.name, Unowned.name))
  <1> DEFINE o == snap[f]
             all == Conduits(snap)
  <1>1. o \in Owners \cup {Unowned} /\ (o.pid = 0 <=> o = Unowned) /\ Unowned.pid = 0
    BY SnapshotsAreTyped, AppsConstants DEF Unowned
  <1>2. \A d \in all : \E h \in DOMAIN snap : d.owner = snap[h] /\ snap[h] # Absent
    BY DEF Conduits
  <1>3. \A d \in all : /\ d.owner \in Owners \cup {Unowned} /\ (d.owner.pid = 0 <=> d.owner = Unowned)
                       /\ (d.owner.pid = o.pid => d.owner = o)
    BY <1>1, <1>2, SnapshotsAreTyped, AppsConstants DEF Unowned
  <1>4. SameName(Unowned.name, Unowned.name)
    BY DEF SameName
  <1>5. CASE \E d \in all : d.owner.pid # 0
    <2>1. CorrelateLineage(o, snap) =
            {d \in all : IF o.pid # 0 /\ d.owner.pid # 0 THEN d.owner.pid = o.pid
                         ELSE \/ d.owner.pid # 0 /\ o.pid = 0 /\ SameName(d.owner.name, o.name)
                              \/ ~(d.owner.pid # 0) /\ o.pid = 0}
      BY <1>5 DEF CorrelateLineage
    <2>2. c \in all
      BY DEF all
    <2> QED BY <1>1, <1>3, <1>4, <2>1, <2>2
  <1>6. CASE ~\E d \in all : d.owner.pid # 0
    <2>1. CorrelateLineage(o, snap) = IF {d.owner : d \in all} = {o} \/ o.pid = 0 THEN all ELSE {}
      BY <1>6 DEF CorrelateLineage
    <2>2. [dest |-> FlowDest[f], owner |-> o] \in all
      BY DEF Conduits
    <2>3. o.pid = 0
      BY <1>6, <2>2
    <2>4. c \in all
      BY DEF all
    <2> QED BY <1>1, <1>3, <1>6, <2>1, <2>3, <2>4
  <1> QED BY <1>5, <1>6

\* Conduits keep their process, and a followed flow is open.
LEMMA AppsHolds ==
    ASSUME AppsInv
    PROVE  AppsTypeOK /\ ConduitsKeepTheirProcess /\ FollowedFlowIsOpen
  <1>1. AppsTypeOK
    <2>1. DOMAIN Ranks = Levels
      BY DEF Ranks, Levels
    <2> QED BY <2>1, NavHolds DEF AppsInv, AppsTypeOK, AppsScreens, FlowIds
  <1>2. owners \in OwnerStates
    BY DEF AppsInv
  <1>3. ASSUME NEW g \in Groups(owners)
        PROVE  /\ g.lineage \subseteq Conduits(owners)
               /\ \A c \in Conduits(owners) :
                    c \in g.lineage <=> c.owner = g.owner \/ (g.owner = Unowned /\ SameName(c.owner.name, Unowned.name))
    <2>1. /\ g.lineage = CorrelateLineage(g.owner, owners) /\ g.owner # Absent
          /\ \E f \in DOMAIN owners : owners[f] = g.owner
      BY <1>2, <1>3, GroupsHaveOwners
    <2>2. g.lineage \subseteq Conduits(owners)
      BY <2>1 DEF CorrelateLineage
    <2> QED BY <1>2, <2>1, <2>2, LineageOfItsOwner
  <1>4. \A c \in Conduits(owners) : \E g \in Groups(owners) : g.owner = c.owner
    <2> TAKE c \in Conduits(owners)
    <2>1. PICK f \in DOMAIN owners : c.owner = owners[f] /\ owners[f] # Absent
      BY DEF Conduits
    <2> DEFINE g == [owner |-> owners[f], flows |-> {h \in DOMAIN owners : owners[h] = owners[f]},
                     confidence |-> ConfidenceOf(owners[f]), lineage |-> CorrelateLineage(owners[f], owners)]
    <2>2. g \in Groups(owners) /\ g.owner = c.owner
      BY <2>1 DEF Groups
    <2> HIDE DEF g
    <2> QED BY <2>2
  <1>5. ConduitsKeepTheirProcess
    <2>1. \A g \in Groups(owners) : \A c \in g.lineage :
             c.owner = g.owner \/ (g.owner = Unowned /\ SameName(c.owner.name, Unowned.name))
      BY <1>3
    <2>2. \A c \in Conduits(owners) : \E g \in Groups(owners) : g.owner = c.owner /\ c \in g.lineage
      BY <1>3, <1>4
    <2> QED BY <2>1, <2>2 DEF ConduitsKeepTheirProcess
  <1>6. FollowedFlowIsOpen
    <2> SUFFICES ASSUME apps.mounted, AppTarget # 0, ~apps.touched, NEW g \in NowGroups
                 PROVE  apps.inspected = AppTarget /\ RowIsOpen(g, apps)
      BY DEF FollowedFlowIsOpen
    <2>1. apps.handled = AppTarget
      BY DEF AppsInv, TargetHandled, NowGroups
    <2>2. apps.inspected = AppTarget
      BY <2>1 DEF AppsInv, TargetHandled
    <2>3. AppTarget \in g.flows
      BY DEF NowGroups, ListedGroups, ActiveGroups
    <2> QED BY <2>2, <2>3 DEF RowIsOpen
  <1> QED BY <1>1, <1>5, <1>6

-----------------------------------------------------------------------------
\* The monitoring (Monitoring.tsx).

\* The targets a hop can have.
HopTexts == TypedTargets \cup {s.target : s \in Snapshots}
\* The results of probes.
HopResults == [hop : Probeable, target : HopTexts, status : {"success", "error"}]
\* The probes under way.
HopProbes == [mount : 1 .. MaxMounts, hop : Probeable, target : HopTexts]
\* The rates of the snapshots.
RatesSeen == UNION {{s.rates[p] : p \in DOMAIN s.rates} : s \in Snapshots}
\* The histories of the processes.
RateHistories == {<<>>} \cup UNION {[P -> Seq(RatesSeen)] : P \in SUBSET Processes}
\* The drawers.
Drawers == {"none"} \cup {s.status : s \in Snapshots}
\* The states of the screen.
MonitorScreens ==
    [mounted : BOOLEAN, mount : 0 .. MaxMounts, histories : RateHistories, page : Nat, mode : LineageFilters,
     hop : HopKinds \cup {"none"}, custom : HopTexts, refused : BOOLEAN, running : BOOLEAN,
     result : SUBSET HopResults, retrying : BOOLEAN, subsystem : Drawers]

\* The types.
MonitorTyped ==
    /\ monitored \in [latest : {{}} \cup {{s} : s \in Snapshots}, error : {"none", "failed"}]
    /\ monitoring \in MonitorScreens
    /\ probes \in SUBSET HopProbes
    /\ retries \in SUBSET (1 .. MaxMounts)

\* Who waits for which answer: no other mount is ahead of the present one.
MonitorWaits ==
    /\ \A p \in probes : p.mount <= monitoring.mount
    /\ \A m \in retries : m <= monitoring.mount
    /\ monitoring.running <=> \E p \in probes : p.mount = monitoring.mount /\ monitoring.mounted
    /\ monitoring.mounted => \A p, q \in probes : p.mount = monitoring.mount /\ q.mount = monitoring.mount => p = q
    /\ monitoring.retrying <=> monitoring.mounted /\ monitoring.mount \in retries

\* Opening the screen counts it.
MountedIsNumbered == monitoring.mounted => monitoring.mount \in 1 .. MaxMounts

\* Who waits for which answer, and that the histories are of the latest snapshot.
MonitoringInv == MonitorTyped /\ MountedIsNumbered /\ MonitorWaits /\ HistoriesAreCurrent

\* What a probe that goes out is sent to.
RefusalKept == \A p \in probes' \ probes : p.target \in GoodTargets \/ p.target = Latest.target

\* The latest snapshot is the one that is held.
LEMMA LatestIsTheOne ==
    ASSUME MonitorTyped, HasSnapshot
    PROVE  Latest \in Snapshots /\ monitored.latest = {Latest}
  <1>1. PICK s \in Snapshots : monitored.latest = {s}
    BY DEF MonitorTyped, HasSnapshot, NoSnapshot
  <1>2. Latest = s
    BY <1>1 DEF Latest
  <1> QED BY <1>1, <1>2

\* The histories after a snapshot: those of its processes, ending in its rates.
LEMMA AppendedIsCurrent ==
    ASSUME NEW h \in RateHistories, NEW s \in Snapshots
    PROVE  LET after == Appended(h, s.rates) IN
           /\ after \in RateHistories /\ DOMAIN after = DOMAIN s.rates
           /\ \A p \in DOMAIN s.rates : /\ Len(after[p]) \in 1 .. MaxHistory
                                        /\ after[p][Len(after[p])] = s.rates[p]
  <1> DEFINE after == Appended(h, s.rates)
  <1>1. ASSUME NEW p \in DOMAIN s.rates
        PROVE  /\ after[p] \in Seq(RatesSeen) /\ Len(after[p]) \in 1 .. MaxHistory
               /\ after[p][Len(after[p])] = s.rates[p]
    <2> DEFINE old == IF p \in DOMAIN h THEN h[p] ELSE <<>>
               longer == Append(old, s.rates[p])
               k == IF Len(longer) > MaxHistory THEN Len(longer) - MaxHistory + 1 ELSE 1
               l == SubSeq(longer, k, Len(longer))
    <2>1. old \in Seq(RatesSeen)
      <3>1. <<>> \in Seq(RatesSeen)
        OBVIOUS
      <3>2. CASE h = <<>>
        <4>1. DOMAIN h = {}
          BY <3>2
        <4> QED BY <3>1, <4>1
      <3>3. ASSUME NEW P \in SUBSET Processes, h \in [P -> Seq(RatesSeen)] PROVE old \in Seq(RatesSeen)
        BY <3>1, <3>3
      <3> QED BY <3>2, <3>3 DEF RateHistories
    <2>2. s.rates[p] \in RatesSeen
      BY DEF RatesSeen
    <2> HIDE DEF old
    <2>3. /\ longer \in Seq(RatesSeen) /\ Len(longer) = Len(old) + 1 /\ longer[Len(longer)] = s.rates[p]
          /\ Len(old) \in Nat
      BY <2>1, <2>2
    <2> HIDE DEF longer
    <2>4. k \in 1 .. Len(longer) /\ Len(longer) \in Nat /\ MaxHistory \in Nat \ {0}
      BY <2>3, MonitoringConstants
    <2>5. Len(longer) - k + 1 \in 1 .. MaxHistory
      BY <2>3, <2>4
    <2> HIDE DEF k
    <2>6. l \in Seq(RatesSeen) /\ Len(l) = Len(longer) - k + 1 /\ \A i \in 1 .. Len(l) : l[i] = longer[k + i - 1]
      <3>1. \A i \in k .. Len(longer) : longer[i] \in RatesSeen
        BY <2>3, <2>4
      <3> QED BY <2>3, <2>4, <3>1, SubSeqProperties
    <2> HIDE DEF l
    <2>7. Len(l) \in 1 .. Len(l) /\ k + Len(l) - 1 = Len(longer)
      BY <2>4, <2>5, <2>6
    <2>8. l[Len(l)] = s.rates[p]
      BY <2>3, <2>6, <2>7
    <2>9. after[p] = l
      BY DEF Appended, l, k, longer, old
    <2> QED BY <2>5, <2>6, <2>8, <2>9
  <1>2. DOMAIN after = DOMAIN s.rates /\ after = [p \in DOMAIN s.rates |-> after[p]]
    BY DEF Appended
  <1>3. DOMAIN s.rates \in SUBSET Processes
    BY MonitoringConstants
  <1> HIDE DEF after
  <1>4. after \in [DOMAIN s.rates -> Seq(RatesSeen)]
    BY <1>1, <1>2
  <1>5. after \in RateHistories
    BY <1>3, <1>4 DEF RateHistories
  <1> QED BY <1>1, <1>2, <1>5 DEF after

\* Drawing a snapshot.
LEMMA RedrawnIsCurrent ==
    ASSUME NEW screen \in MonitorScreens, NEW s \in Snapshots
    PROVE  LET now == Redrawn(screen, s) IN
           /\ now \in MonitorScreens
           /\ now.mounted = screen.mounted /\ now.mount = screen.mount /\ now.running = screen.running
           /\ now.retrying = screen.retrying
           /\ now.mounted => /\ DOMAIN now.histories = DOMAIN s.rates
                             /\ \A p \in DOMAIN s.rates :
                                   /\ Len(now.histories[p]) \in 1 .. MaxHistory
                                   /\ now.histories[p][Len(now.histories[p])] = s.rates[p]
  <1> DEFINE after == Appended(screen.histories, s.rates)
  <1>1. screen.histories \in RateHistories
    BY DEF MonitorScreens
  <1>2. /\ after \in RateHistories /\ DOMAIN after = DOMAIN s.rates
        /\ \A p \in DOMAIN s.rates : /\ Len(after[p]) \in 1 .. MaxHistory
                                     /\ after[p][Len(after[p])] = s.rates[p]
    BY <1>1, AppendedIsCurrent
  <1>3. Redrawn(screen, s) = IF screen.mounted THEN [screen EXCEPT !.histories = after] ELSE screen
    BY DEF Redrawn
  <1> HIDE DEF after
  <1>4. CASE screen.mounted
    <2> DEFINE now == [screen EXCEPT !.histories = after]
    <2>1. /\ now \in MonitorScreens /\ now.histories = after
          /\ now.mounted = screen.mounted /\ now.mount = screen.mount /\ now.running = screen.running
          /\ now.retrying = screen.retrying
      BY <1>2 DEF MonitorScreens
    <2>2. Redrawn(screen, s) = now
      BY <1>3, <1>4
    <2> HIDE DEF now
    <2> QED BY <1>2, <2>1, <2>2
  <1>5. CASE ~screen.mounted
    BY <1>3, <1>5
  <1> QED BY <1>4, <1>5

\* A freshly mounted screen.
LEMMA FreshScreen ==
    ASSUME NEW m \in 0 .. MaxMounts
    PROVE  /\ MonitoringFresh(m) \in MonitorScreens /\ MonitoringFresh(m).mount = m
           /\ ~MonitoringFresh(m).mounted /\ ~MonitoringFresh(m).running /\ ~MonitoringFresh(m).retrying
  BY MonitoringConstants
     DEF MonitoringFresh, MonitorScreens, RateHistories, LineageFilters, HopTexts, Drawers

\* The monitoring before it is opened.
LEMMA MonitoringStart == ASSUME MonitoringInit PROVE MonitoringInv
  <1>1. 0 \in 0 .. MaxMounts
    BY MonitoringConstants
  <1>2. MonitorTyped
    BY <1>1, FreshScreen DEF MonitoringInit, MonitorTyped, NoSnapshot
  <1>3. ~HasSnapshot
    BY DEF MonitoringInit, HasSnapshot
  <1>4. MonitorWaits
    BY <1>1, FreshScreen DEF MonitoringInit, MonitorWaits
  <1>5. MountedIsNumbered
    BY <1>1, FreshScreen DEF MonitoringInit, MountedIsNumbered
  <1> QED BY <1>2, <1>3, <1>4, <1>5 DEF MonitoringInv, HistoriesAreCurrent

\* A step that changes what the screen looks like, and nothing that is waited for.
LEMMA LooksChange ==
    ASSUME MonitoringInv, NEW screen \in MonitorScreens, monitoring' = screen,
           screen.mounted = monitoring.mounted, screen.mount = monitoring.mount,
           screen.running = monitoring.running, screen.retrying = monitoring.retrying,
           screen.histories = monitoring.histories, UNCHANGED <<monitored, probes, retries>>
    PROVE  MonitoringInv' /\ RefusalKept
  <1>1. MonitorTyped' /\ MountedIsNumbered'
    BY DEF MonitoringInv, MonitorTyped, MountedIsNumbered
  <1>2. MonitorWaits'
    BY DEF MonitoringInv, MonitorWaits
  <1>3. HistoriesAreCurrent'
    BY DEF MonitoringInv, HistoriesAreCurrent, HasSnapshot, Latest
  <1>4. RefusalKept
    BY DEF RefusalKept
  <1> QED BY <1>1, <1>2, <1>3, <1>4 DEF MonitoringInv

\* A snapshot is drawn, whoever asked for it.
LEMMA SnapshotIsDrawn ==
    ASSUME NEW screen \in MonitorScreens, NEW s \in Snapshots,
           monitored' = [latest |-> {s}, error |-> "none"], monitoring' = screen,
           screen.mounted => /\ DOMAIN screen.histories = DOMAIN s.rates
                             /\ \A p \in DOMAIN s.rates :
                                   /\ Len(screen.histories[p]) \in 1 .. MaxHistory
                                   /\ screen.histories[p][Len(screen.histories[p])] = s.rates[p]
    PROVE  /\ monitored' \in [latest : {{}} \cup {{t} : t \in Snapshots}, error : {"none", "failed"}]
           /\ HistoriesAreCurrent'
  <1>1. monitored'.latest = {s}
    OBVIOUS
  <1>2. Latest' = s
    BY <1>1 DEF Latest
  <1> QED BY <1>2 DEF HistoriesAreCurrent

\* Every step of the screen, visits and late answers included.
LEMMA MonitoringStep == ASSUME MonitoringInv, [MonitoringNext]_monitoringVars PROVE MonitoringInv' /\ RefusalKept
  <1>0. /\ MonitorTyped /\ monitoring \in MonitorScreens /\ monitoring.mount \in 0 .. MaxMounts
        /\ probes \in SUBSET HopProbes /\ retries \in SUBSET (1 .. MaxMounts)
    BY DEF MonitoringInv, MonitorTyped, MonitorScreens
  <1>1. CASE UNCHANGED monitoringVars
    BY <1>1 DEF monitoringVars, MonitoringInv, MonitorTyped, MountedIsNumbered, MonitorWaits, HistoriesAreCurrent, HasSnapshot, Latest,
                RefusalKept
  <1>2. ASSUME NEW s \in Snapshots, LiveSnapshot(s) PROVE MonitoringInv' /\ RefusalKept
    <2> DEFINE now == Redrawn(monitoring, s)
    <2>1. /\ monitored' = [latest |-> {s}, error |-> "none"] /\ monitoring' = now /\ UNCHANGED <<probes, retries>>
      BY <1>2 DEF LiveSnapshot
    <2>2. /\ now \in MonitorScreens
          /\ now.mounted = monitoring.mounted /\ now.mount = monitoring.mount /\ now.running = monitoring.running
          /\ now.retrying = monitoring.retrying
          /\ now.mounted => /\ DOMAIN now.histories = DOMAIN s.rates
                            /\ \A p \in DOMAIN s.rates :
                                  /\ Len(now.histories[p]) \in 1 .. MaxHistory
                                  /\ now.histories[p][Len(now.histories[p])] = s.rates[p]
      BY <1>0, RedrawnIsCurrent
    <2> HIDE DEF now
    <2>3. /\ monitored' \in [latest : {{}} \cup {{t} : t \in Snapshots}, error : {"none", "failed"}]
          /\ HistoriesAreCurrent'
      BY <2>1, <2>2, SnapshotIsDrawn
    <2>4. MonitorTyped' /\ MountedIsNumbered'
      BY <1>0, <2>1, <2>2, <2>3 DEF MonitoringInv, MonitorTyped, MountedIsNumbered
    <2>5. MonitorWaits'
      BY <2>1, <2>2 DEF MonitoringInv, MonitorWaits
    <2> QED BY <2>1, <2>3, <2>4, <2>5 DEF MonitoringInv, RefusalKept
  <1>3. CASE LiveFailure
    <2>1. monitored' = [monitored EXCEPT !.error = "failed"] /\ UNCHANGED <<monitoring, probes, retries>>
      BY <1>3 DEF LiveFailure
    <2>2. /\ monitored' \in [latest : {{}} \cup {{t} : t \in Snapshots}, error : {"none", "failed"}]
          /\ monitored'.latest = monitored.latest
      BY <2>1 DEF MonitoringInv, MonitorTyped
    <2>3. HistoriesAreCurrent'
      BY <2>1, <2>2 DEF MonitoringInv, HistoriesAreCurrent, HasSnapshot, Latest
    <2> QED BY <1>0, <2>1, <2>2, <2>3 DEF MonitoringInv, MonitorTyped, MountedIsNumbered, MonitorWaits, RefusalKept
  <1>4. CASE OpenMonitoring
    <2> DEFINE opened == [monitoring EXCEPT !.mounted = TRUE, !.mount = @ + 1]
    <2>1. /\ ~monitoring.mounted /\ monitoring.mount < MaxMounts /\ UNCHANGED <<monitored, probes, retries>>
          /\ monitoring' = IF HasSnapshot THEN Redrawn(opened, Latest) ELSE opened
      BY <1>4 DEF OpenMonitoring
    <2>2. /\ opened \in MonitorScreens /\ opened.mount = monitoring.mount + 1 /\ opened.mounted
          /\ opened.running = monitoring.running /\ opened.retrying = monitoring.retrying
      <3> DEFINE next == monitoring.mount + 1
      <3>1. next \in 0 .. MaxMounts
        BY <1>0, <2>1, MonitoringConstants
      <3>2. opened = [monitoring EXCEPT !.mounted = TRUE, !.mount = next]
        BY <1>0 DEF MonitorScreens
      <3> HIDE DEF next, opened
      <3>3. /\ opened \in MonitorScreens /\ opened.mount = next /\ opened.mounted
            /\ opened.running = monitoring.running /\ opened.retrying = monitoring.retrying
        BY <1>0, <3>1, <3>2 DEF MonitorScreens
      <3> QED BY <3>3 DEF next
    <2> HIDE DEF opened
    <2>3. ~monitoring.running /\ ~monitoring.retrying
      BY <2>1 DEF MonitoringInv, MonitorWaits
    <2>4. /\ monitoring' \in MonitorScreens /\ monitoring'.mounted /\ monitoring'.mount = monitoring.mount + 1
          /\ ~monitoring'.running /\ ~monitoring'.retrying
          /\ HistoriesAreCurrent'
      <3>1. CASE HasSnapshot
        <4>1. Latest \in Snapshots /\ Latest' = Latest
          BY <1>0, <2>1, <3>1, LatestIsTheOne DEF Latest
        <4> DEFINE now == Redrawn(opened, Latest)
        <4>2. /\ now \in MonitorScreens
              /\ now.mounted = opened.mounted /\ now.mount = opened.mount /\ now.running = opened.running
              /\ now.retrying = opened.retrying
              /\ now.mounted => /\ DOMAIN now.histories = DOMAIN Latest.rates
                                /\ \A p \in DOMAIN Latest.rates :
                                      /\ Len(now.histories[p]) \in 1 .. MaxHistory
                                      /\ now.histories[p][Len(now.histories[p])] = Latest.rates[p]
          BY <2>2, <4>1, RedrawnIsCurrent
        <4>3. monitoring' = now
          BY <2>1, <3>1
        <4> HIDE DEF now
        <4>4. HistoriesAreCurrent'
          BY <4>1, <4>2, <4>3 DEF HistoriesAreCurrent
        <4> QED BY <2>2, <2>3, <4>2, <4>3, <4>4
      <3>2. CASE ~HasSnapshot
        <4>1. monitoring' = opened /\ ~HasSnapshot'
          BY <2>1, <3>2 DEF HasSnapshot
        <4> QED BY <2>2, <2>3, <4>1 DEF HistoriesAreCurrent
      <3> QED BY <3>1, <3>2
    <2>5. \A p \in probes : p.mount < monitoring.mount + 1 /\ p.mount # monitoring.mount + 1
      <3>1. \A p \in probes : p.mount \in Int /\ p.mount <= monitoring.mount
        BY <1>0 DEF MonitoringInv, MonitorWaits, HopProbes
      <3> QED BY <1>0, <3>1
    <2>6. \A m \in retries : m < monitoring.mount + 1 /\ m # monitoring.mount + 1
      <3>1. \A m \in retries : m \in Int /\ m <= monitoring.mount
        BY <1>0 DEF MonitoringInv, MonitorWaits
      <3> QED BY <1>0, <3>1
    <2>a. /\ \A p \in probes : p.mount <= monitoring.mount + 1
          /\ \A m \in retries : m <= monitoring.mount + 1
      <3>1. \A p \in probes : p.mount \in Int
        BY <1>0 DEF HopProbes
      <3> QED BY <1>0, <2>5, <2>6, <3>1
    <2>7. MonitorWaits'
      BY <2>1, <2>4, <2>5, <2>6, <2>a DEF MonitorWaits
    <2>8. MonitorTyped' /\ MountedIsNumbered'
      <3>1. monitoring.mount + 1 \in 1 .. MaxMounts
        BY <1>0, <2>1, MonitoringConstants
      <3> QED BY <2>1, <2>4, <3>1 DEF MonitoringInv, MonitorTyped, MountedIsNumbered
    <2> QED BY <2>1, <2>4, <2>7, <2>8 DEF MonitoringInv, RefusalKept
  <1>5. CASE LeaveMonitoring
    <2>1. monitoring' = MonitoringFresh(monitoring.mount) /\ UNCHANGED <<monitored, probes, retries>>
      BY <1>5 DEF LeaveMonitoring
    <2>2. /\ monitoring' \in MonitorScreens /\ monitoring'.mount = monitoring.mount
          /\ ~monitoring'.mounted /\ ~monitoring'.running /\ ~monitoring'.retrying
      BY <1>0, <2>1, FreshScreen
    <2> QED BY <2>1, <2>2 DEF MonitoringInv, MonitorTyped, MountedIsNumbered, MonitorWaits, HistoriesAreCurrent, RefusalKept
  <1>6. ASSUME NEW m \in LineageFilters, SetLineageFilter(m) PROVE MonitoringInv' /\ RefusalKept
    <2>1. monitoring' = [monitoring EXCEPT !.mode = m] /\ UNCHANGED <<monitored, probes, retries>>
      BY <1>6 DEF SetLineageFilter
    <2> DEFINE screen == [monitoring EXCEPT !.mode = m]
    <2>2. /\ screen \in MonitorScreens /\ screen.mounted = monitoring.mounted /\ screen.mount = monitoring.mount
          /\ screen.running = monitoring.running /\ screen.retrying = monitoring.retrying
          /\ screen.histories = monitoring.histories
      BY <1>0 DEF MonitorScreens
    <2> HIDE DEF screen
    <2> QED BY <2>1, <2>2, LooksChange DEF screen
  <1>7. ASSUME NEW p \in 0 .. Cardinality(Processes), TurnPage(p) PROVE MonitoringInv' /\ RefusalKept
    <2>1. monitoring' = [monitoring EXCEPT !.page = p] /\ UNCHANGED <<monitored, probes, retries>> /\ p \in Nat
      BY <1>7 DEF TurnPage
    <2> DEFINE screen == [monitoring EXCEPT !.page = p]
    <2>2. /\ screen \in MonitorScreens /\ screen.mounted = monitoring.mounted /\ screen.mount = monitoring.mount
          /\ screen.running = monitoring.running /\ screen.retrying = monitoring.retrying
          /\ screen.histories = monitoring.histories
      BY <1>0, <2>1 DEF MonitorScreens
    <2> HIDE DEF screen
    <2> QED BY <2>1, <2>2, LooksChange DEF screen
  <1>8. CASE InspectSubsystem
    <2> DEFINE status == IF monitoring.subsystem # "none" THEN "none" ELSE Latest.status
               screen == [monitoring EXCEPT !.subsystem = status]
    <2>1. monitoring' = screen /\ UNCHANGED <<monitored, probes, retries>> /\ HasSnapshot
      BY <1>8 DEF InspectSubsystem
    <2>2. status \in Drawers
      BY <1>0, <2>1, LatestIsTheOne DEF Drawers
    <2> HIDE DEF status
    <2>3. /\ screen \in MonitorScreens /\ screen.mounted = monitoring.mounted /\ screen.mount = monitoring.mount
          /\ screen.running = monitoring.running /\ screen.retrying = monitoring.retrying
          /\ screen.histories = monitoring.histories
      BY <1>0, <2>2 DEF MonitorScreens
    <2> HIDE DEF screen
    <2> QED BY <2>1, <2>3, LooksChange
  <1>a. ASSUME NEW hop \in HopKinds \cup {"none"}, hop # "none" => HasSnapshot, monitoring' = HopSelected(hop),
               UNCHANGED <<monitored, probes, retries>>
        PROVE  MonitoringInv' /\ RefusalKept
    <2> DEFINE text == IF hop = "none" THEN NoText ELSE Latest.target
               screen == [monitoring EXCEPT !.hop = hop, !.custom = text, !.refused = FALSE]
    <2>1. monitoring' = screen
      BY <1>a DEF HopSelected
    <2>2. text \in HopTexts
      BY <1>0, <1>a, LatestIsTheOne, MonitoringConstants DEF HopTexts
    <2> HIDE DEF text
    <2>3. /\ screen \in MonitorScreens /\ screen.mounted = monitoring.mounted /\ screen.mount = monitoring.mount
          /\ screen.running = monitoring.running /\ screen.retrying = monitoring.retrying
          /\ screen.histories = monitoring.histories
      BY <1>0, <2>2 DEF MonitorScreens
    <2> HIDE DEF screen
    <2> QED BY <1>a, <2>1, <2>3, LooksChange
  <1>9. CASE EscapeStage
    BY <1>9, <1>a DEF EscapeStage
  <1>10. ASSUME NEW h \in HopKinds, HandleStageClick(h) PROVE MonitoringInv' /\ RefusalKept
    <2> DEFINE hop == IF monitoring.hop = h THEN "none" ELSE h
    <2>1. hop \in HopKinds \cup {"none"} /\ HasSnapshot /\ monitoring' = HopSelected(hop)
          /\ UNCHANGED <<monitored, probes, retries>>
      BY <1>10 DEF HandleStageClick
    <2> HIDE DEF hop
    <2> QED BY <2>1, <1>a
  <1>11. ASSUME NEW i \in DOMAIN Hops, NEW stop \in TabStops(i), HandleTabKey(i, stop)
         PROVE  MonitoringInv' /\ RefusalKept
    <2> DEFINE n == Len(Hops)
               before == i - 2 + n
    <2>1. n \in Nat \ {0} /\ i \in 1 .. n
      BY MonitoringConstants
    <2>2. stop \in {(i % n) + 1, (before % n) + 1, 1, n}
      BY <1>11 DEF TabStops
    <2>3. before \in Int
      BY <2>1
    <2> HIDE DEF n, before
    <2>4. i % n \in 0 .. (n - 1) /\ before % n \in 0 .. (n - 1)
      BY <2>1, <2>3
    <2>5. stop \in 1 .. n
      BY <2>1, <2>2, <2>4
    <2>6. Hops[stop] \in HopKinds
      BY <2>5, MonitoringConstants DEF HopKinds, n
    <2>7. HasSnapshot /\ monitoring' = HopSelected(Hops[stop]) /\ UNCHANGED <<monitored, probes, retries>>
      BY <1>11 DEF HandleTabKey
    <2> QED BY <2>6, <2>7, <1>a
  <1>12. ASSUME NEW x \in TypedTargets, TypeHopTarget(x) PROVE MonitoringInv' /\ RefusalKept
    <2> DEFINE no == x # NoText /\ x \notin GoodTargets
               screen == [monitoring EXCEPT !.custom = x, !.refused = no]
    <2>1. monitoring' = screen /\ UNCHANGED <<monitored, probes, retries>>
      BY <1>12 DEF TypeHopTarget
    <2>2. no \in BOOLEAN /\ x \in HopTexts
      BY DEF HopTexts
    <2> HIDE DEF no
    <2>3. /\ screen \in MonitorScreens /\ screen.mounted = monitoring.mounted /\ screen.mount = monitoring.mount
          /\ screen.running = monitoring.running /\ screen.retrying = monitoring.retrying
          /\ screen.histories = monitoring.histories
      BY <1>0, <2>2 DEF MonitorScreens
    <2> HIDE DEF screen
    <2> QED BY <2>1, <2>3, LooksChange
  <1>b. ASSUME NEW no \in BOOLEAN, monitoring' = [monitoring EXCEPT !.refused = no],
               UNCHANGED <<monitored, probes, retries>>
        PROVE  MonitoringInv' /\ RefusalKept
    <2> DEFINE screen == [monitoring EXCEPT !.refused = no]
    <2>1. /\ screen \in MonitorScreens /\ screen.mounted = monitoring.mounted /\ screen.mount = monitoring.mount
          /\ screen.running = monitoring.running /\ screen.retrying = monitoring.retrying
          /\ screen.histories = monitoring.histories
      BY <1>0 DEF MonitorScreens
    <2> HIDE DEF screen
    <2> QED BY <1>b, <2>1, LooksChange DEF screen
  <1>c. ASSUME NEW target \in HopTexts, target \in GoodTargets \/ target = Latest.target,
               NEW no \in BOOLEAN, ProbeForm, ~monitoring.running,
               RunHopProbe(target, [monitoring EXCEPT !.refused = no]), UNCHANGED <<monitored, retries>>
        PROVE  MonitoringInv' /\ RefusalKept
    <2> DEFINE new == [mount |-> monitoring.mount, hop |-> monitoring.hop, target |-> target]
               screen == [monitoring EXCEPT !.refused = no, !.running = TRUE]
    <2>1. monitoring' = screen /\ probes' = probes \cup {new}
      <3>1. /\ [monitoring EXCEPT !.refused = no].running = monitoring.running
            /\ [monitoring EXCEPT !.refused = no].mount = monitoring.mount
            /\ [monitoring EXCEPT !.refused = no].hop = monitoring.hop
            /\ [[monitoring EXCEPT !.refused = no] EXCEPT !.running = TRUE] = screen
        BY <1>0 DEF MonitorScreens
      <3> QED BY <1>c, <3>1 DEF RunHopProbe
    <2>2. monitoring.mounted /\ monitoring.hop \in Probeable
      BY <1>c DEF ProbeForm
    <2>3. monitoring.mount \in 1 .. MaxMounts
      BY <2>2 DEF MonitoringInv, MountedIsNumbered
    <2>4. new \in HopProbes /\ new.mount = monitoring.mount /\ new.target = target
      BY <2>2, <2>3 DEF HopProbes
    <2>5. /\ screen \in MonitorScreens /\ screen.mounted = monitoring.mounted /\ screen.mount = monitoring.mount
          /\ screen.running /\ screen.retrying = monitoring.retrying /\ screen.histories = monitoring.histories
      BY <1>0 DEF MonitorScreens
    <2>6. \A p \in probes : p.mount # monitoring.mount
      BY <1>c, <2>2 DEF MonitoringInv, MonitorWaits
    <2> HIDE DEF new, screen
    <2>7. MonitorTyped' /\ MountedIsNumbered'
      BY <1>0, <1>c, <2>1, <2>3, <2>4, <2>5 DEF MonitorTyped, MountedIsNumbered
    <2>8. MonitorWaits'
      <3>1. new.mount <= monitoring.mount
        BY <1>0, <2>4
      <3> QED BY <1>c, <2>1, <2>2, <2>4, <2>5, <2>6, <3>1 DEF MonitoringInv, MonitorWaits
    <2>9. HistoriesAreCurrent'
      BY <1>c, <2>1, <2>5 DEF MonitoringInv, HistoriesAreCurrent, HasSnapshot, Latest
    <2>10. RefusalKept
      BY <1>c, <2>1, <2>4 DEF RefusalKept
    <2> QED BY <2>7, <2>8, <2>9, <2>10 DEF MonitoringInv
  <1>d. [monitoring EXCEPT !.refused = monitoring.refused] = monitoring /\ monitoring.refused \in BOOLEAN
    BY <1>0 DEF MonitorScreens
  <1>13. CASE HandleQuickProbe
    <2>1. HasSnapshot /\ ProbeForm /\ ~monitoring.running
      BY <1>13 DEF HandleQuickProbe, ProbeForm
    <2>2. Latest.target \in HopTexts
      BY <1>0, <2>1, LatestIsTheOne DEF HopTexts
    <2>3. CASE Latest.target # NoText
      <3>1. RunHopProbe(Latest.target, [monitoring EXCEPT !.refused = FALSE]) /\ UNCHANGED <<monitored, retries>>
        BY <1>13, <2>3 DEF HandleQuickProbe
      <3> QED BY <1>c, <2>1, <2>2, <3>1
    <2>4. CASE Latest.target = NoText
      <3>1. monitoring' = [monitoring EXCEPT !.refused = TRUE] /\ UNCHANGED <<monitored, probes, retries>>
        BY <1>13, <2>4 DEF HandleQuickProbe
      <3> QED BY <1>b, <3>1
    <2> QED BY <2>3, <2>4
  <1>14. CASE RunStageProbe
    <2> DEFINE target == IF monitoring.custom # NoText THEN monitoring.custom ELSE Latest.target
    <2>1. HasSnapshot /\ ProbeForm /\ ~monitoring.running /\ UNCHANGED <<monitored, retries>>
          /\ IF target \in GoodTargets THEN RunHopProbe(target, monitoring)
             ELSE monitoring' = [monitoring EXCEPT !.refused = TRUE] /\ UNCHANGED probes
      BY <1>14 DEF RunStageProbe, ProbeForm
    <2>2. target \in HopTexts
      BY <1>0, <2>1, LatestIsTheOne DEF HopTexts, MonitorScreens
    <2> HIDE DEF target
    <2>3. CASE target \in GoodTargets
      BY <1>c, <1>d, <2>1, <2>2, <2>3
    <2>4. CASE target \notin GoodTargets
      BY <1>b, <2>1, <2>4
    <2> QED BY <2>3, <2>4
  <1>15. ASSUME NEW p \in probes, NEW st \in {"success", "error"}, ProbeAnswers(p, st) PROVE MonitoringInv' /\ RefusalKept
    <2>1. probes' = probes \ {p} /\ UNCHANGED <<monitored, retries>>
      BY <1>15 DEF ProbeAnswers
    <2>2. CASE monitoring.mounted /\ p.mount = monitoring.mount
      <3> DEFINE made == {[hop |-> p.hop, target |-> p.target, status |-> st]}
                 screen == [monitoring EXCEPT !.running = FALSE, !.result = made]
      <3>1. monitoring' = screen
        BY <1>15, <2>2 DEF ProbeAnswers
      <3>2. made \in SUBSET HopResults
        BY <1>0 DEF HopProbes, HopResults
      <3> HIDE DEF made
      <3>3. /\ screen \in MonitorScreens /\ screen.mounted = monitoring.mounted /\ screen.mount = monitoring.mount
            /\ ~screen.running /\ screen.retrying = monitoring.retrying /\ screen.histories = monitoring.histories
        BY <1>0, <3>2 DEF MonitorScreens
      <3> HIDE DEF screen
      <3>4. \A q \in probes' : q.mount # monitoring.mount
        BY <2>1, <2>2 DEF MonitoringInv, MonitorWaits
      <3>5. MonitorWaits'
        BY <2>1, <2>2, <3>1, <3>3, <3>4 DEF MonitoringInv, MonitorWaits
      <3>6. MonitorTyped' /\ MountedIsNumbered'
        BY <1>0, <2>1, <3>1, <3>3 DEF MonitoringInv, MonitorTyped, MountedIsNumbered
      <3>7. HistoriesAreCurrent'
        BY <2>1, <3>1, <3>3 DEF MonitoringInv, HistoriesAreCurrent, HasSnapshot, Latest
      <3> QED BY <2>1, <3>5, <3>6, <3>7 DEF MonitoringInv, RefusalKept
    <2>3. CASE ~(monitoring.mounted /\ p.mount = monitoring.mount)
      <3>1. monitoring' = monitoring
        BY <1>15, <2>3 DEF ProbeAnswers
      <3>2. MonitorWaits'
        BY <2>1, <2>3, <3>1 DEF MonitoringInv, MonitorWaits
      <3> QED BY <1>0, <2>1, <3>1, <3>2
              DEF MonitoringInv, MonitorTyped, MountedIsNumbered, HistoriesAreCurrent, HasSnapshot, Latest, RefusalKept
    <2> QED BY <2>2, <2>3
  <1>16. CASE RetryConnection
    <2> DEFINE screen == [monitoring EXCEPT !.retrying = TRUE]
    <2>1. /\ monitoring' = screen /\ retries' = retries \cup {monitoring.mount} /\ UNCHANGED <<monitored, probes>>
          /\ monitoring.mounted
      BY <1>16 DEF RetryConnection
    <2>2. monitoring.mount \in 1 .. MaxMounts
      BY <2>1 DEF MonitoringInv, MountedIsNumbered
    <2>3. /\ screen \in MonitorScreens /\ screen.mounted = monitoring.mounted /\ screen.mount = monitoring.mount
          /\ screen.running = monitoring.running /\ screen.retrying /\ screen.histories = monitoring.histories
      BY <1>0 DEF MonitorScreens
    <2> HIDE DEF screen
    <2>4. MonitorWaits'
      <3>1. monitoring.mount <= monitoring.mount
        BY <2>2
      <3> QED BY <2>1, <2>3, <3>1 DEF MonitoringInv, MonitorWaits
    <2>5. MonitorTyped' /\ MountedIsNumbered'
      BY <1>0, <2>1, <2>2, <2>3 DEF MonitorTyped, MountedIsNumbered
    <2>6. HistoriesAreCurrent'
      BY <2>1, <2>3 DEF MonitoringInv, HistoriesAreCurrent, HasSnapshot, Latest
    <2> QED BY <2>1, <2>4, <2>5, <2>6 DEF MonitoringInv, RefusalKept
  <1>e. ASSUME NEW screen \in MonitorScreens, NEW m \in retries
        PROVE  LET now == Retried(screen, m) IN
               /\ now \in MonitorScreens /\ now.mounted = screen.mounted /\ now.mount = screen.mount
               /\ now.running = screen.running /\ now.histories = screen.histories
               /\ now.retrying = IF screen.mounted /\ screen.mount = m THEN FALSE ELSE screen.retrying
    BY DEF Retried, MonitorScreens
  <1>f. ASSUME NEW m \in retries, retries' = retries \ {m}, UNCHANGED probes,
               monitoring'.mounted = monitoring.mounted, monitoring'.mount = monitoring.mount,
               monitoring'.running = monitoring.running,
               monitoring'.retrying = IF monitoring.mounted /\ monitoring.mount = m THEN FALSE ELSE monitoring.retrying
        PROVE  MonitorWaits'
    <2>1. monitoring'.retrying <=> monitoring.mounted /\ monitoring.mount \in retries \ {m}
      BY <1>f DEF MonitoringInv, MonitorWaits
    <2> QED BY <1>f, <2>1 DEF MonitoringInv, MonitorWaits
  <1>17. ASSUME NEW m \in retries, RetryFails(m) PROVE MonitoringInv' /\ RefusalKept
    <2>1. /\ retries' = retries \ {m} /\ monitored' = [monitored EXCEPT !.error = "failed"]
          /\ monitoring' = Retried(monitoring, m) /\ UNCHANGED probes
      BY <1>17 DEF RetryFails
    <2>2. /\ monitored' \in [latest : {{}} \cup {{t} : t \in Snapshots}, error : {"none", "failed"}]
          /\ monitored'.latest = monitored.latest
      BY <2>1 DEF MonitoringInv, MonitorTyped
    <2>3. /\ monitoring' \in MonitorScreens /\ monitoring'.mounted = monitoring.mounted
          /\ monitoring'.mount = monitoring.mount /\ monitoring'.running = monitoring.running
          /\ monitoring'.histories = monitoring.histories
          /\ monitoring'.retrying = IF monitoring.mounted /\ monitoring.mount = m THEN FALSE ELSE monitoring.retrying
      BY <1>0, <1>e, <2>1
    <2>4. MonitorWaits'
      BY <1>f, <2>1, <2>3
    <2>5. HistoriesAreCurrent'
      BY <2>2, <2>3 DEF MonitoringInv, HistoriesAreCurrent, HasSnapshot, Latest
    <2> QED BY <1>0, <2>1, <2>2, <2>3, <2>4, <2>5 DEF MonitoringInv, MonitorTyped, MountedIsNumbered, RefusalKept
  <1>18. ASSUME NEW m \in retries, NEW s \in Snapshots, RetryAnswers(m, s) PROVE MonitoringInv' /\ RefusalKept
    <2> DEFINE now == Redrawn(monitoring, s)
    <2>1. /\ retries' = retries \ {m} /\ monitored' = [latest |-> {s}, error |-> "none"]
          /\ monitoring' = Retried(now, m) /\ UNCHANGED probes
      BY <1>18 DEF RetryAnswers
    <2>2. /\ now \in MonitorScreens
          /\ now.mounted = monitoring.mounted /\ now.mount = monitoring.mount /\ now.running = monitoring.running
          /\ now.retrying = monitoring.retrying
          /\ now.mounted => /\ DOMAIN now.histories = DOMAIN s.rates
                            /\ \A p \in DOMAIN s.rates :
                                  /\ Len(now.histories[p]) \in 1 .. MaxHistory
                                  /\ now.histories[p][Len(now.histories[p])] = s.rates[p]
      BY <1>0, RedrawnIsCurrent
    <2> HIDE DEF now
    <2>3. /\ monitoring' \in MonitorScreens /\ monitoring'.mounted = now.mounted
          /\ monitoring'.mount = now.mount /\ monitoring'.running = now.running
          /\ monitoring'.histories = now.histories
          /\ monitoring'.retrying = IF now.mounted /\ now.mount = m THEN FALSE ELSE now.retrying
      BY <1>e, <2>1, <2>2
    <2>4. MonitorWaits'
      BY <1>f, <2>1, <2>2, <2>3
    <2>5. /\ monitored' \in [latest : {{}} \cup {{t} : t \in Snapshots}, error : {"none", "failed"}]
          /\ HistoriesAreCurrent'
      BY <2>1, <2>2, <2>3, SnapshotIsDrawn
    <2> QED BY <1>0, <2>1, <2>2, <2>3, <2>4, <2>5 DEF MonitoringInv, MonitorTyped, MountedIsNumbered, RefusalKept
  <1> QED BY <1>1, <1>2, <1>3, <1>4, <1>5, <1>6, <1>7, <1>8, <1>9, <1>10, <1>11, <1>12, <1>13, <1>14, <1>15, <1>16,
             <1>17, <1>18 DEF MonitoringNext

\* One page of the list is never empty while the list is not.
LEMMA ShownPageIsThere ==
    ASSUME MonitoringInv, monitoring.mounted, HasSnapshot, DOMAIN Latest.rates # {}
    PROVE  RowsOn(ShownPage, Cardinality(DOMAIN Latest.rates)) > 0
  <1> DEFINE n == Cardinality(DOMAIN Latest.rates)
             page == ShownPage
             pages == Pages(n)
  <1>1. Latest \in Snapshots /\ IsFiniteSet(DOMAIN Latest.rates)
    BY LatestIsTheOne, MonitoringConstants DEF MonitoringInv
  <1>2. n \in Nat /\ n # 0
    BY <1>1, FS_CardinalityType, FS_EmptySet
  <1>3. PageSize \in Nat \ {0}
    BY MonitoringConstants
  <1>4. page = IF monitoring.page < pages THEN monitoring.page ELSE pages - 1
    BY DEF ShownPage
  <1>5. monitoring.page \in Nat
    BY DEF MonitoringInv, MonitorTyped, MonitorScreens
  <1>6. pages = (n + PageSize - 1) \div PageSize
    BY <1>2 DEF Pages
  <1> HIDE DEF n, page, pages
  <1>7. pages \in Nat /\ pages * PageSize <= n + PageSize - 1 /\ pages > 0
    <2> DEFINE x == n + PageSize - 1
    <2>1. x \in Nat /\ x >= PageSize
      BY <1>2, <1>3
    <2> HIDE DEF x
    <2>2. pages = x \div PageSize
      BY <1>6 DEF x
    <2>3. pages \in Nat /\ pages * PageSize <= x /\ x < pages * PageSize + PageSize
      BY <1>3, <2>1, <2>2
    <2>4. pages # 0
      BY <1>3, <2>1, <2>3
    <2> QED BY <2>3, <2>4 DEF x
  <1>8. page \in Nat /\ page + 1 <= pages
    BY <1>4, <1>5, <1>7
  <1>9. page * PageSize < n
    <2>1. (page + 1) * PageSize <= pages * PageSize
      BY <1>3, <1>7, <1>8
    <2>2. page * PageSize + PageSize <= n + PageSize - 1
      BY <1>2, <1>3, <1>7, <1>8, <2>1
    <2> QED BY <1>2, <1>3, <1>8, <2>2
  <1>10. RowsOn(page, n) > 0
    <2>1. page * PageSize \in Nat
      BY <1>3, <1>8
    <2> QED BY <1>2, <1>3, <1>9, <2>1 DEF RowsOn
  <1> QED BY <1>10 DEF n, page

\* An edge that is drawn has its ends drawn, and a node an edge.
LEMMA GraphIsClosed ==
    ASSUME NEW s \in Snapshots, NEW mode
    PROVE  LET graph == FilteredGraph(s.edges, mode) IN
           /\ \A i \in graph.edges : {s.edges[i].source, s.edges[i].destination} \subseteq graph.nodes
           /\ \A n \in graph.nodes : LET row == s.edges[FindMatchingLineage(s.edges, n)]
                                     IN n \in {row.source, row.destination}
  <1> DEFINE edges == s.edges
             graph == FilteredGraph(edges, mode)
             ofClass == {n \in Nodes(edges) : LabelOf(edges, n) \in ClassOf(mode)}
             touching == {i \in DOMAIN edges : {edges[i].source, edges[i].destination} \cap ofClass # {}}
             ends == UNION {{edges[i].source, edges[i].destination} : i \in touching}
  <1>1. DOMAIN edges \subseteq Nat
    BY MonitoringConstants
  <1>2. /\ mode = "AllEndpoints" => graph = [nodes |-> Nodes(edges), edges |-> DOMAIN edges]
        /\ mode # "AllEndpoints" => graph = [nodes |-> ends \cup ofClass, edges |-> touching]
    BY DEF FilteredGraph
  <1>3. /\ \A i \in DOMAIN edges : {edges[i].source, edges[i].destination} \subseteq Nodes(edges)
        /\ \A i \in touching : {edges[i].source, edges[i].destination} \subseteq ends
        /\ ends \subseteq Nodes(edges) /\ ofClass \subseteq Nodes(edges)
    BY DEF Nodes
  <1> HIDE DEF ofClass, touching, ends, graph, edges
  <1>4. /\ \A i \in graph.edges : {edges[i].source, edges[i].destination} \subseteq graph.nodes
        /\ graph.nodes \subseteq Nodes(edges)
    BY <1>2, <1>3
  <1>5. ASSUME NEW n \in Nodes(edges)
        PROVE  n \in {edges[FindMatchingLineage(edges, n)].source, edges[FindMatchingLineage(edges, n)].destination}
    <2> DEFINE from == {i \in DOMAIN edges : edges[i].source = n}
               to == {i \in DOMAIN edges : edges[i].destination = n}
               tried == IF LabelOf(edges, n) = "SRC" THEN (IF from # {} THEN from ELSE to)
                        ELSE IF to # {} THEN to ELSE from
               row == FindMatchingLineage(edges, n)
    <2>1. from # {} \/ to # {}
      BY DEF Nodes
    <2>2. tried # {} /\ tried \subseteq from \cup to /\ tried \in SUBSET Nat
      BY <1>1, <2>1
    <2>3. row = CHOOSE i \in tried : \A j \in tried : i <= j
      BY DEF FindMatchingLineage
    <2>4. \A i \in from \cup to : n \in {edges[i].source, edges[i].destination}
      OBVIOUS
    <2> HIDE DEF tried, from, to, row
    <2>5. row \in tried
      BY <2>2, <2>3, LeastOf
    <2> QED BY <2>2, <2>4, <2>5 DEF row
  <1> QED BY <1>4, <1>5 DEF edges, graph

\* The histories are current, the probe is one of this screen, the page has rows and the
\* graph is closed.
LEMMA MonitoringHolds ==
    ASSUME MonitoringInv
    PROVE  /\ MonitoringTypeOK /\ HistoriesAreCurrent /\ OneProbeOfThisScreen /\ ShownPageHasRows
           /\ DrawnGraphIsClosed
  <1>1. /\ Cardinality({}) = 0 /\ \A x : Cardinality({x}) = 1
    BY FS_EmptySet, FS_Singleton
  <1>2. monitored.latest \subseteq Snapshots /\ Cardinality(monitored.latest) <= 1
    <2>1. CASE monitored.latest = {}
      BY <1>1, <2>1
    <2>2. ASSUME NEW s \in Snapshots, monitored.latest = {s} PROVE Cardinality(monitored.latest) = 1 /\ monitored.latest \subseteq Snapshots
      BY <1>1, <2>2
    <2> QED BY <2>1, <2>2 DEF MonitoringInv, MonitorTyped
  <1>3. MonitoringTypeOK
    BY <1>2 DEF MonitoringInv, MonitorTyped, MonitorScreens, MonitoringTypeOK, HopProbes, HopTexts
  <1>4. OneProbeOfThisScreen
    <2> DEFINE mine == {p \in probes : p.mount = monitoring.mount}
    <2>1. monitoring.mounted => mine = {} \/ \E p : mine = {p}
      BY DEF MonitoringInv, MonitorWaits
    <2> HIDE DEF mine
    <2>2. \A x : Cardinality({x}) <= 1
      BY <1>1
    <2>3. Cardinality({}) <= 1
      BY <1>1
    <2>4. monitoring.mounted => Cardinality(mine) <= 1
      BY <2>1, <2>2, <2>3
    <2> QED BY <2>4 DEF MonitoringInv, MonitorWaits, OneProbeOfThisScreen, mine
  <1>5. ShownPageHasRows
    BY ShownPageIsThere DEF ShownPageHasRows
  <1>6. DrawnGraphIsClosed
    BY GraphIsClosed, LatestIsTheOne DEF MonitoringInv, DrawnGraphIsClosed
  <1> QED BY <1>3, <1>4, <1>5, <1>6 DEF MonitoringInv

-----------------------------------------------------------------------------
\* The diagnostic engine (ui/app/src/diagnostic).

\* The step of the pipeline that observes a key.
ObservedKeys ==
    {"gateway_reachability", "dns_resolution", "dns_rtt", "target_packet_loss", "target_ping_rtt",
     "traceroute_hops", "traceroute_intermediate_timeouts", "bufferbloat_delta",
     "http_availability", "http_status", "http_ttfb"}
StepOf(key) ==
    IF key = "gateway_reachability" THEN 1
    ELSE IF key \in {"dns_resolution", "dns_rtt"} THEN 2
    ELSE IF key \in {"target_packet_loss", "target_ping_rtt"} THEN 3
    ELSE IF key \in {"traceroute_hops", "traceroute_intermediate_timeouts"} THEN 4
    ELSE IF key = "bufferbloat_delta" THEN 5 ELSE 6
MeasuredKeys == {"dns_rtt", "target_packet_loss", "target_ping_rtt", "bufferbloat_delta", "http_ttfb"}

\* A measured extreme is severe only when it is no simulation, and without a URL an
\* unavailable service never is.
Trusted(o) ==
    /\ o.key \in ObservedKeys
    /\ o.severity \in {"normal", "elevated", "severe"}
    /\ o.key \in MeasuredKeys /\ o.severity = "severe" => o.source # "simulated"
    /\ o.key = "http_availability" => o.severity # "severe"

\* No two observations of one key.
OneOfAKind(seen) == \A o, p \in seen : o.key = p.key => o = p
\* What a step may leave.
LeftBy(seen, step) ==
    /\ OneOfAKind(seen)
    /\ \A o \in seen : Trusted(o) /\ StepOf(o.key) = step

\* What the analysis has observed comes of the steps that ran, a kind at most once, and the
\* verdict is what the rules say of it.
DiagnosisInv ==
    /\ pipeline \in [tier : Tiers, explicitUrl : {FALSE}, source : Sources, laterSource : Sources,
                     next : 1 .. 7]
    /\ OneOfAKind(observations)
    /\ \A o \in observations : Trusted(o) /\ StepOf(o.key) < pipeline.next
    /\ verdict.given =>
        /\ pipeline.next = 7
        /\ verdict.diagnoses = Diagnoses
        /\ verdict.recommendations = Recommendations(Diagnoses)
    /\ ~verdict.given => verdict.diagnoses = << >>

\* The analysis before its first step.
LEMMA DiagnosisStart == ASSUME DiagnosisInit PROVE DiagnosisInv
  <1>1. verdict.given = FALSE /\ verdict.diagnoses = << >>
    BY DEF DiagnosisInit, NoVerdict
  <1>2. observations = {}
    BY DEF DiagnosisInit
  <1>3. pipeline \in [tier : Tiers, explicitUrl : {FALSE}, source : Sources, laterSource : Sources,
                      next : 1 .. 7]
    <2>1. PICK t \in Tiers, typed \in EnteredTargets, s \in Sources, l \in Sources :
            pipeline = [tier |-> t, explicitUrl |-> NormalizeTarget(ValidateAndNormalize(typed)).explicitUrl,
                        source |-> s, laterSource |-> l, next |-> 1]
      BY DEF DiagnosisInit
    <2>2. NormalizeTarget(ValidateAndNormalize(typed)).explicitUrl = FALSE
      <3>1. PICK b \in BOOLEAN : typed = [scheme |-> b]
        BY DEF EnteredTargets
      <3>2. [typed EXCEPT !.scheme = FALSE].scheme = FALSE
        BY <3>1
      <3>3. ValidateAndNormalize(typed).scheme = FALSE
        BY <3>2 DEF ValidateAndNormalize
      <3>4. ASSUME NEW r, r.scheme = FALSE PROVE NormalizeTarget(r).explicitUrl = FALSE
        BY <3>4 DEF NormalizeTarget
      <3> QED BY <3>3, <3>4, Zenon
    <2>3. pipeline = [tier |-> t, explicitUrl |-> FALSE, source |-> s, laterSource |-> l, next |-> 1]
      BY <2>1, <2>2, Zenon
    <2>4. FALSE \in {FALSE} /\ 1 \in 1 .. 7
      OBVIOUS
    <2> QED BY <2>3, <2>4
  <1> QED BY <1>1, <1>2, <1>3 DEF DiagnosisInv, OneOfAKind

\* A measured value, whatever it is compared with.
LEMMA MeasuredIsTrusted ==
    ASSUME NEW key \in MeasuredKeys, NEW source, NEW v, NEW metric
    PROVE  /\ Trusted(Measured(key, source, v, metric))
           /\ Measured(key, source, v, metric).key = key
  <1>1. Measured(key, source, v, metric) =
            [key |-> key, source |-> source, severity |-> Severity(v, metric, source), value |-> v]
    BY DEF Measured, Observed
  <1>2. /\ Severity(v, metric, source) \in {"normal", "elevated", "severe"}
        /\ Severity(v, metric, source) = "severe" => source # "simulated"
    <2> DEFINE high == Baseline(metric, pipeline.tier).elevatedMax
               usual == Baseline(metric, pipeline.tier).normalMax
    <2>1. Severity(v, metric, source) =
              IF v > high THEN (IF source = "simulated" THEN "elevated" ELSE "severe")
              ELSE IF v > usual THEN "elevated" ELSE "normal"
      BY DEF Severity
    <2> HIDE DEF high, usual
    <2> QED BY <2>1
  <1>3. key \in ObservedKeys /\ key # "http_availability"
    BY DEF MeasuredKeys, ObservedKeys
  <1> QED BY <1>1, <1>2, <1>3 DEF Trusted

\* What each of the six steps leaves can be trusted and is of its own keys.
LEMMA GatewayLeaves == ASSUME NEW seen \in FromGateway PROVE LeftBy(seen, 1)
  <1>1. StepOf("gateway_reachability") = 1 /\ "gateway_reachability" \in ObservedKeys
        /\ "gateway_reachability" \notin MeasuredKeys /\ "gateway_reachability" # "http_availability"
    BY DEF StepOf, ObservedKeys, MeasuredKeys
  <1>2. \A source, v : \A severity \in {"normal", "elevated", "severe"} :
            LET o == Observed("gateway_reachability", source, severity, v)
            IN Trusted(o) /\ o.key = "gateway_reachability"
    BY <1>1 DEF Observed, Trusted
  <1>3. CASE seen = {}
    BY <1>3 DEF LeftBy, OneOfAKind
  <1>4. CASE seen # {}
    <2>1. \E source, v : \E severity \in {"normal", "elevated", "severe"} :
            seen = {Observed("gateway_reachability", source, severity, v)}
      <3>1. \/ seen = {Observed("gateway_reachability", "unavailable", "elevated", Null)}
            \/ seen = {Observed("gateway_reachability", pipeline.source, "normal", 1)}
            \/ seen = {Observed("gateway_reachability", pipeline.source, "elevated", Null)}
        BY <1>4 DEF FromGateway, Failed
      <3>2. "normal" \in {"normal", "elevated", "severe"} /\ "elevated" \in {"normal", "elevated", "severe"}
        OBVIOUS
      <3> QED BY <3>1, <3>2
    <2> QED BY <2>1, <1>1, <1>2 DEF LeftBy, OneOfAKind
  <1> QED BY <1>3, <1>4

\* The resolution of names.
LEMMA DnsLeaves == ASSUME NEW seen \in FromDns PROVE LeftBy(seen, 2)
  <1>1. StepOf("dns_resolution") = 2 /\ StepOf("dns_rtt") = 2 /\ "dns_resolution" \in ObservedKeys
        /\ "dns_resolution" \notin MeasuredKeys /\ "dns_resolution" # "http_availability"
        /\ "dns_rtt" \in MeasuredKeys
    BY DEF StepOf, ObservedKeys, MeasuredKeys
  <1>2. \A source, v :
            LET o == Observed("dns_resolution", source, "severe", v)
            IN Trusted(o) /\ o.key = "dns_resolution"
    BY <1>1 DEF Observed, Trusted
  <1>3. CASE seen = {}
    BY <1>3 DEF LeftBy, OneOfAKind
  <1>4. CASE \E source, v : seen = {Observed("dns_resolution", source, "severe", v)}
    BY <1>4, <1>1, <1>2 DEF LeftBy, OneOfAKind
  <1>5. CASE \E source, v : seen = {Measured("dns_rtt", source, v, "dns_rtt")}
    BY <1>5, <1>1, MeasuredIsTrusted DEF LeftBy, OneOfAKind
  <1> QED BY <1>3, <1>4, <1>5 DEF FromDns, Failed

\* The round trips.
LEMMA PingLeaves == ASSUME NEW seen \in FromPing PROVE LeftBy(seen, 3)
  <1>1. StepOf("target_packet_loss") = 3 /\ StepOf("target_ping_rtt") = 3
        /\ "target_packet_loss" \in ObservedKeys /\ "target_packet_loss" # "http_availability"
        /\ "target_packet_loss" \in MeasuredKeys /\ "target_ping_rtt" \in MeasuredKeys
        /\ "target_packet_loss" # "target_ping_rtt"
    BY DEF StepOf, ObservedKeys, MeasuredKeys
  <1>3. CASE seen = {}
    BY <1>3 DEF LeftBy, OneOfAKind
  <1>4. CASE seen = Failed("target_packet_loss", "elevated")
    <2>1. PICK o : o = Observed("target_packet_loss", "unavailable", "elevated", Null)
      OBVIOUS
    <2>2. Trusted(o) /\ o.key = "target_packet_loss"
      BY <2>1, <1>1 DEF Observed, Trusted
    <2> QED BY <1>4, <2>1, <2>2, <1>1 DEF LeftBy, OneOfAKind, Failed
  <1>5. CASE \E source, v, w : seen = {Measured("target_packet_loss", source, v, "loss"),
                                       Measured("target_ping_rtt", source, w, "ping_rtt")}
    BY <1>5, <1>1, MeasuredIsTrusted DEF LeftBy, OneOfAKind
  <1> QED BY <1>3, <1>4, <1>5 DEF FromPing

\* The trace.
LEMMA TracerouteLeaves == ASSUME NEW seen \in FromTraceroute PROVE LeftBy(seen, 4)
  <1>1. StepOf("traceroute_hops") = 4 /\ StepOf("traceroute_intermediate_timeouts") = 4
        /\ "traceroute_hops" \in ObservedKeys /\ "traceroute_intermediate_timeouts" \in ObservedKeys
        /\ "traceroute_hops" # "http_availability"
        /\ "traceroute_intermediate_timeouts" # "http_availability"
        /\ "traceroute_hops" \notin MeasuredKeys /\ "traceroute_intermediate_timeouts" \notin MeasuredKeys
        /\ "traceroute_hops" # "traceroute_intermediate_timeouts"
    BY DEF StepOf, ObservedKeys, MeasuredKeys
  <1>2. \A source, v : \A severity \in {"normal", "elevated"} :
            /\ Trusted(Observed("traceroute_hops", source, severity, v))
            /\ Observed("traceroute_hops", source, severity, v).key = "traceroute_hops"
            /\ Trusted(Observed("traceroute_intermediate_timeouts", source, severity, v))
            /\ Observed("traceroute_intermediate_timeouts", source, severity, v).key =
                    "traceroute_intermediate_timeouts"
    BY <1>1 DEF Observed, Trusted
  <1>3. CASE seen = {}
    BY <1>3 DEF LeftBy, OneOfAKind
  <1>4. CASE \E n : seen = {Observed("traceroute_hops", pipeline.source,
                                     IF n > 25 THEN "elevated" ELSE "normal", n)}
    BY <1>4, <1>1, <1>2 DEF LeftBy, OneOfAKind
  <1>5. CASE \E n : seen = {Observed("traceroute_hops", pipeline.source,
                                     IF n > 25 THEN "elevated" ELSE "normal", n),
                            Observed("traceroute_intermediate_timeouts", pipeline.source, "normal", 3)}
    BY <1>5, <1>1, <1>2 DEF LeftBy, OneOfAKind
  <1> QED BY <1>3, <1>4, <1>5 DEF FromTraceroute

\* The latency under load.
LEMMA BufferbloatLeaves == ASSUME NEW seen \in FromBufferbloat PROVE LeftBy(seen, 5)
  <1>1. StepOf("bufferbloat_delta") = 5 /\ "bufferbloat_delta" \in MeasuredKeys
    BY DEF StepOf, MeasuredKeys
  <1>3. CASE seen = {}
    BY <1>3 DEF LeftBy, OneOfAKind
  <1>5. CASE \E source, v : seen = {Measured("bufferbloat_delta", source, v, "bufferbloat")}
    BY <1>5, <1>1, MeasuredIsTrusted DEF LeftBy, OneOfAKind
  <1> QED BY <1>3, <1>5 DEF FromBufferbloat

\* The service, reached without a URL.
LEMMA HttpLeaves ==
    ASSUME NEW seen \in FromHttp, pipeline.explicitUrl = FALSE
    PROVE  LeftBy(seen, 6)
  <1>1. StepOf("http_availability") = 6 /\ StepOf("http_status") = 6 /\ StepOf("http_ttfb") = 6
        /\ "http_availability" \in ObservedKeys /\ "http_status" \in ObservedKeys
        /\ "http_availability" \notin MeasuredKeys /\ "http_status" \notin MeasuredKeys
        /\ "http_status" # "http_availability" /\ "http_ttfb" \in MeasuredKeys
        /\ "http_status" # "http_ttfb"
    BY DEF StepOf, ObservedKeys, MeasuredKeys
  <1>2. \A source, v : \A severity \in {"normal", "elevated", "severe"} :
            /\ Observed("http_availability", source, severity, v).key = "http_availability"
            /\ severity # "severe" => Trusted(Observed("http_availability", source, severity, v))
            /\ Trusted(Observed("http_status", source, severity, v))
            /\ Observed("http_status", source, severity, v).key = "http_status"
    BY <1>1 DEF Observed, Trusted
  <1>3. CASE seen = {}
    BY <1>3 DEF LeftBy, OneOfAKind
  <1>4. CASE \E source : \E severity \in {"normal", "elevated"} :
                seen = {Observed("http_availability", source, severity, Null)}
    BY <1>4, <1>1, <1>2 DEF LeftBy, OneOfAKind
  <1>5. CASE \E source, code, ttfb : \E severity \in {"normal", "elevated", "severe"} :
                seen = {Observed("http_status", source, severity, code),
                        Measured("http_ttfb", source, ttfb, "ttfb")}
    BY <1>5, <1>1, <1>2, MeasuredIsTrusted DEF LeftBy, OneOfAKind
  <1>6. \A source : \A otherwise \in {"normal", "elevated"} :
            (IF pipeline.explicitUrl THEN "severe" ELSE otherwise) \in {"normal", "elevated"}
    OBVIOUS
  <1>7. \A code : (IF code >= 500 THEN "severe" ELSE IF code >= 400 THEN "elevated" ELSE "normal")
                    \in {"normal", "elevated", "severe"}
    OBVIOUS
  <1> QED BY <1>3, <1>4, <1>5, <1>6, <1>7 DEF FromHttp

\* The rules read the observations and nothing else.
LEMMA SameObserved ==
    ASSUME observations' = observations
    PROVE  Diagnoses' = Diagnoses /\ Recommendations(Diagnoses)' = Recommendations(Diagnoses)
  <1>1. DnsRule' = DnsRule
    BY DEF DnsRule, FromMetric, Diagnosed, Evidence, Worst, SimulatedOnly, Has, Obs, Number, Above, Notable
  <1>2. GatewayRule' = GatewayRule
    BY DEF GatewayRule, FromMetric, Diagnosed, Evidence, Worst, SimulatedOnly, Has, Obs, Number, Above, Notable
  <1>3. BufferbloatRule' = BufferbloatRule
    BY DEF BufferbloatRule, FromMetric, Diagnosed, Evidence, Worst, SimulatedOnly, Has, Obs, Number, Above, Notable
  <1>4. LossRule' = LossRule
    BY DEF LossRule, FromMetric, Diagnosed, Evidence, Worst, SimulatedOnly, Has, Obs, Number, Above, Notable
  <1>5. HttpRule' = HttpRule
    BY DEF HttpRule, FromMetric, Diagnosed, Evidence, Worst, SimulatedOnly, Has, Obs, Number, Above, Notable
  <1>6. RoutingRule' = RoutingRule
    BY DEF RoutingRule, FromMetric, Diagnosed, Evidence, Worst, SimulatedOnly, Has, Obs, Number, Above, Notable
  <1>7. Inferred' = Inferred
    BY <1>1, <1>2, <1>3, <1>4, <1>5, <1>6 DEF Inferred
  <1>8. Diagnoses' = Diagnoses
    BY <1>7 DEF Diagnoses, InOrder, Before, ByName
  <1> QED BY <1>8 DEF Recommendations

\* Every step of the analysis, whatever its probes returned.
LEMMA DiagnosisStep == ASSUME DiagnosisInv, [DiagnosisNext]_diagnosisVars PROVE DiagnosisInv'
  <1>1. CASE UNCHANGED diagnosisVars
    <2>1. Diagnoses' = Diagnoses /\ Recommendations(Diagnoses)' = Recommendations(Diagnoses)
      BY <1>1, SameObserved DEF diagnosisVars
    <2> QED BY <1>1, <2>1 DEF diagnosisVars, DiagnosisInv, OneOfAKind, Trusted
  <1>2. CASE RunStep
    <2> DEFINE n == pipeline.next
    <2>1. n \in 1 .. 6 /\ pipeline.explicitUrl = FALSE
      <3>1. Len(PipelineSteps) = 6
        BY DEF PipelineSteps
      <3>2. n \in 1 .. 7 /\ pipeline.explicitUrl = FALSE
        BY DEF DiagnosisInv
      <3> HIDE DEF n
      <3>3. ~(n > 6)
        BY <1>2, <3>1 DEF RunStep, AllStepsRun, n
      <3> QED BY <3>2, <3>3
    <2>2. PICK seen \in StepOutcomes(PipelineSteps[n]) : observations' = observations \cup seen
      BY <1>2 DEF RunStep
    <2>3. pipeline' = [pipeline EXCEPT !.next = @ + 1] /\ verdict' = verdict
      BY <1>2 DEF RunStep
    <2>4. LeftBy(seen, n)
      <3>1. CASE n = 1
        <4>1. PipelineSteps[n] = "gateway"
          BY <3>1 DEF PipelineSteps
        <4> QED BY <3>1, <4>1, <2>2, GatewayLeaves DEF StepOutcomes
      <3>2. CASE n = 2
        <4>1. PipelineSteps[n] = "dns"
          BY <3>2 DEF PipelineSteps
        <4> QED BY <3>2, <4>1, <2>2, DnsLeaves DEF StepOutcomes
      <3>3. CASE n = 3
        <4>1. PipelineSteps[n] = "ping"
          BY <3>3 DEF PipelineSteps
        <4> QED BY <3>3, <4>1, <2>2, PingLeaves DEF StepOutcomes
      <3>4. CASE n = 4
        <4>1. PipelineSteps[n] = "traceroute"
          BY <3>4 DEF PipelineSteps
        <4> QED BY <3>4, <4>1, <2>2, TracerouteLeaves DEF StepOutcomes
      <3>5. CASE n = 5
        <4>1. PipelineSteps[n] = "bufferbloat"
          BY <3>5 DEF PipelineSteps
        <4> QED BY <3>5, <4>1, <2>2, BufferbloatLeaves DEF StepOutcomes
      <3>6. CASE n = 6
        <4>1. PipelineSteps[n] = "http"
          BY <3>6 DEF PipelineSteps
        <4> QED BY <3>6, <4>1, <2>1, <2>2, HttpLeaves DEF StepOutcomes
      <3> QED BY <2>1, <3>1, <3>2, <3>3, <3>4, <3>5, <3>6
    <2>5. \A o \in observations : Trusted(o) /\ StepOf(o.key) < n
      BY DEF DiagnosisInv
    <2>6. pipeline' \in [tier : Tiers, explicitUrl : {FALSE}, source : Sources, laterSource : Sources,
                         next : 1 .. 7] /\ pipeline'.next = n + 1
      <3>1. pipeline \in [tier : Tiers, explicitUrl : {FALSE}, source : Sources, laterSource : Sources,
                          next : 1 .. 7]
        BY DEF DiagnosisInv
      <3>2. n + 1 \in 1 .. 7
        BY <2>1
      <3>3. pipeline' = [pipeline EXCEPT !.next = n + 1]
        BY <2>3
      <3> QED BY <3>1, <3>2, <3>3
    <2>7. ~verdict.given /\ verdict.diagnoses = << >>
      BY <2>1 DEF DiagnosisInv
    <2> HIDE DEF n
    <2>8. \A key : StepOf(key) \in Nat
      BY DEF StepOf
    <2>9. \A o \in observations' : Trusted(o) /\ StepOf(o.key) < n + 1
      BY <2>1, <2>2, <2>4, <2>5, <2>8 DEF LeftBy
    <2>10. \A o \in observations, p \in seen : o.key # p.key
      <3> SUFFICES ASSUME NEW o \in observations, NEW p \in seen, o.key = p.key PROVE FALSE
        OBVIOUS
      <3>1. StepOf(o.key) < n /\ StepOf(p.key) = n
        BY <2>4, <2>5 DEF LeftBy
      <3> QED BY <3>1, <2>1, <2>8
    <2>11. OneOfAKind(observations)'
      BY <2>2, <2>4, <2>10 DEF OneOfAKind, LeftBy, DiagnosisInv
    <2>12. (\A o \in observations : Trusted(o) /\ StepOf(o.key) < pipeline.next)'
      BY <2>6, <2>9 DEF Trusted, StepOf
    <2> QED BY <2>3, <2>6, <2>7, <2>11, <2>12 DEF DiagnosisInv
  <1>3. CASE Conclude
    <2>1. pipeline.next = 7
      BY <1>3 DEF Conclude, AllStepsRun, PipelineSteps, DiagnosisInv
    <2>2. verdict'.given /\ verdict'.diagnoses = Diagnoses /\ verdict'.recommendations = Recommendations(Diagnoses)
          /\ pipeline' = pipeline /\ observations' = observations
      BY <1>3 DEF Conclude
    <2>3. Diagnoses' = Diagnoses /\ Recommendations(Diagnoses)' = Recommendations(Diagnoses)
      BY <2>2, SameObserved
    <2> QED BY <2>1, <2>2, <2>3 DEF DiagnosisInv, OneOfAKind, Trusted
  <1> QED BY <1>1, <1>2, <1>3 DEF DiagnosisNext

-----------------------------------------------------------------------------
\* The categories there are rules for.
Categories == {"DNS", "GATEWAY", "BUFFERBLOAT", "PACKET_LOSS", "REMOTE_SERVICE_RESPONSE", "ROUTING"}

\* An observation that is looked up by its key is there.
LEMMA Looked == ASSUME NEW key, Has(key) PROVE Obs(key) \in observations /\ Obs(key).key = key
  BY DEF Has, Obs

\* A diagnosis that can be shown: something speaks for it, of simulated figures it is not
\* severe, and a loss is one that was measured end to end.
Sensible(d, category) ==
    /\ d.category = category
    /\ d.confidence \in Nat
    /\ \E e \in d.evidence : e.role = "corroborating"
    /\ SimulatedOnly => d.severity # "severe"

\* A rule whose evidence speaks for it.
LEMMA DiagnosedIsSensible ==
    ASSUME NEW category, NEW confidence \in Nat, NEW severity, NEW key,
           [key |-> key, role |-> "corroborating"] \in Evidence(category),
           SimulatedOnly => severity # "severe",
           NEW d \in Diagnosed(category, confidence, severity)
    PROVE  Sensible(d, category)
  <1>1. d = [category |-> category, confidence |-> confidence, severity |-> severity,
             evidence |-> Evidence(category)]
    BY DEF Diagnosed
  <1>2. d.category = category /\ d.confidence = confidence /\ d.severity = severity
        /\ d.evidence = Evidence(category)
    BY <1>1
  <1>3. [key |-> key, role |-> "corroborating"].role = "corroborating"
    OBVIOUS
  <1> QED BY <1>2, <1>3 DEF Sensible

\* A rule has one diagnosis at most.
LEMMA OneDiagnosis ==
    ASSUME NEW category, NEW confidence, NEW severity
    PROVE  /\ IsFiniteSet(Diagnosed(category, confidence, severity))
           /\ \A c, d \in Diagnosed(category, confidence, severity) : c = d
  BY FS_Singleton DEF Diagnosed

\* Nothing measured is severe when all is simulated, nor is the worst the rules say.
LEMMA NothingSevere ==
    ASSUME DiagnosisInv, SimulatedOnly
    PROVE  /\ Worst # "severe"
           /\ \A key \in MeasuredKeys : Has(key) => Obs(key).severity # "severe"
  <1>1. ASSUME NEW key \in MeasuredKeys, Has(key) PROVE Obs(key).severity # "severe"
    BY <1>1, Looked DEF SimulatedOnly, DiagnosisInv, Trusted
  <1> QED BY <1>1 DEF Worst

\* What holds of a rule.
RuleHolds(rule, category) ==
    /\ IsFiniteSet(rule)
    /\ \A c, d \in rule : c = d
    /\ \A d \in rule : Sensible(d, category)

\* A rule that infers nothing.
LEMMA EmptyRule == \A category : RuleHolds({}, category)
  BY FS_EmptySet DEF RuleHolds

\* A rule that infers something.
LEMMA RuleOf ==
    ASSUME NEW category, NEW confidence \in Nat, NEW severity, NEW key,
           [key |-> key, role |-> "corroborating"] \in Evidence(category),
           SimulatedOnly => severity # "severe"
    PROVE  RuleHolds(Diagnosed(category, confidence, severity), category)
  BY OneDiagnosis, DiagnosedIsSensible DEF RuleHolds

\* A rule that goes by one measured value.
LEMMA MetricRule ==
    ASSUME DiagnosisInv, NEW category, NEW key \in MeasuredKeys, NEW severe \in Nat, NEW elevated \in Nat,
           Notable(key) => [key |-> key, role |-> "corroborating"] \in Evidence(category)
    PROVE  RuleHolds(FromMetric(category, key, severe, elevated), category)
  <1>1. CASE ~Notable(key)
    BY <1>1, EmptyRule DEF FromMetric
  <1>2. CASE Notable(key)
    <2>1. Has(key)
      BY <1>2 DEF Notable, Number
    <2>2. SimulatedOnly => Obs(key).severity # "severe"
      BY <2>1, NothingSevere
    <2> DEFINE confidence == IF Obs(key).severity = "severe" THEN severe ELSE elevated
    <2>3. confidence \in Nat
      OBVIOUS
    <2>4. FromMetric(category, key, severe, elevated) = Diagnosed(category, confidence, Obs(key).severity)
      BY <1>2 DEF FromMetric
    <2> HIDE DEF confidence
    <2> QED BY <1>2, <2>2, <2>3, <2>4, RuleOf
  <1> QED BY <1>1, <1>2

\* The six rules, one after the other.
LEMMA DnsHolds == ASSUME DiagnosisInv PROVE RuleHolds(DnsRule, "DNS")
  <1> DEFINE failed == Has("dns_resolution") /\ Obs("dns_resolution").severity = "severe"
  <1>1. CASE failed
    <2>1. [key |-> "dns_resolution", role |-> "corroborating"] \in Evidence("DNS")
      BY <1>1 DEF Evidence
    <2>2. DnsRule = Diagnosed("DNS", 95, Worst)
      BY <1>1 DEF DnsRule
    <2> QED BY <2>1, <2>2, NothingSevere, RuleOf
  <1>2. CASE ~failed
    <2>1. Notable("dns_rtt") => [key |-> "dns_rtt", role |-> "corroborating"] \in Evidence("DNS")
      BY <1>2 DEF Evidence
    <2>2. DnsRule = FromMetric("DNS", "dns_rtt", 85, 65)
      BY <1>2 DEF DnsRule
    <2>3. "dns_rtt" \in MeasuredKeys
      BY DEF MeasuredKeys
    <2> QED BY <2>1, <2>2, <2>3, MetricRule
  <1> QED BY <1>1, <1>2

\* An unreachable gateway.
LEMMA GatewayHolds == ASSUME DiagnosisInv PROVE RuleHolds(GatewayRule, "GATEWAY")
  <1>1. CASE Has("gateway_reachability") /\ ~Number("gateway_reachability")
    <2>1. [key |-> "gateway_reachability", role |-> "corroborating"] \in Evidence("GATEWAY")
      BY <1>1 DEF Evidence
    <2>2. GatewayRule = Diagnosed("GATEWAY", 90, Worst)
      BY <1>1 DEF GatewayRule
    <2> QED BY <2>1, <2>2, NothingSevere, RuleOf
  <1>2. CASE ~(Has("gateway_reachability") /\ ~Number("gateway_reachability"))
    BY <1>2, EmptyRule DEF GatewayRule
  <1> QED BY <1>1, <1>2

\* Latency under load.
LEMMA BufferbloatHolds == ASSUME DiagnosisInv PROVE RuleHolds(BufferbloatRule, "BUFFERBLOAT")
  <1>1. Notable("bufferbloat_delta") =>
            [key |-> "bufferbloat_delta", role |-> "corroborating"] \in Evidence("BUFFERBLOAT")
    BY DEF Evidence
  <1>2. "bufferbloat_delta" \in MeasuredKeys
    BY DEF MeasuredKeys
  <1> QED BY <1>1, <1>2, MetricRule DEF BufferbloatRule

\* Loss measured end to end.
LEMMA LossHolds == ASSUME DiagnosisInv PROVE RuleHolds(LossRule, "PACKET_LOSS")
  <1>1. CASE Above("target_packet_loss", 0)
    <2>1. [key |-> "target_packet_loss", role |-> "corroborating"] \in Evidence("PACKET_LOSS")
      BY <1>1 DEF Evidence
    <2> DEFINE confidence == IF Above("target_packet_loss", 99) THEN 92 ELSE 75
    <2>2. LossRule = Diagnosed("PACKET_LOSS", confidence, Obs("target_packet_loss").severity)
      BY <1>1 DEF LossRule
    <2>3. confidence \in Nat
      OBVIOUS
    <2>4. "target_packet_loss" \in MeasuredKeys /\ Has("target_packet_loss")
      BY <1>1 DEF MeasuredKeys, Above, Number
    <2> HIDE DEF confidence
    <2> QED BY <2>1, <2>2, <2>3, <2>4, NothingSevere, RuleOf
  <1>2. CASE ~Above("target_packet_loss", 0)
    BY <1>2, EmptyRule DEF LossRule
  <1> QED BY <1>1, <1>2

\* The service: without a URL its absence is never severe, so a diagnosis has the status
\* or the time to show for itself.
LEMMA HttpHolds == ASSUME DiagnosisInv PROVE RuleHolds(HttpRule, "REMOTE_SERVICE_RESPONSE")
  <1>1. ~(Has("http_availability") /\ Obs("http_availability").severity = "severe")
    BY Looked DEF DiagnosisInv, Trusted
  <1>2. CASE Above("http_status", 399)
    <2>1. [key |-> "http_status", role |-> "corroborating"] \in Evidence("REMOTE_SERVICE_RESPONSE")
      BY <1>2 DEF Evidence
    <2> DEFINE confidence == IF Above("http_status", 499) THEN 95 ELSE 85
               severity == IF Above("http_status", 499) THEN Worst ELSE "elevated"
    <2>2. HttpRule = Diagnosed("REMOTE_SERVICE_RESPONSE", confidence, severity)
      BY <1>1, <1>2 DEF HttpRule
    <2>3. confidence \in Nat /\ (SimulatedOnly => severity # "severe")
      BY NothingSevere
    <2> HIDE DEF confidence, severity
    <2> QED BY <2>1, <2>2, <2>3, RuleOf
  <1>3. CASE ~Above("http_status", 399)
    <2>1. Notable("http_ttfb") =>
            [key |-> "http_ttfb", role |-> "corroborating"] \in Evidence("REMOTE_SERVICE_RESPONSE")
      BY DEF Evidence
    <2>2. HttpRule = FromMetric("REMOTE_SERVICE_RESPONSE", "http_ttfb", 65, 65)
      BY <1>1, <1>3 DEF HttpRule
    <2>3. "http_ttfb" \in MeasuredKeys
      BY DEF MeasuredKeys
    <2> QED BY <2>1, <2>2, <2>3, MetricRule
  <1> QED BY <1>2, <1>3

\* A long way.
LEMMA RoutingHolds == RuleHolds(RoutingRule, "ROUTING")
  <1>1. CASE Above("traceroute_hops", 25)
    <2>1. [key |-> "traceroute_hops", role |-> "corroborating"] \in Evidence("ROUTING")
      BY <1>1 DEF Evidence
    <2>2. RoutingRule = Diagnosed("ROUTING", 60, "elevated")
      BY <1>1 DEF RoutingRule
    <2> QED BY <2>1, <2>2, RuleOf
  <1>2. CASE ~Above("traceroute_hops", 25)
    BY <1>2, EmptyRule DEF RoutingRule
  <1> QED BY <1>1, <1>2

\* What the six rules infer: at most one diagnosis of a category, each a sensible one.
LEMMA InferredAre ==
    ASSUME DiagnosisInv
    PROVE  /\ IsFiniteSet(Inferred)
           /\ \A d \in Inferred : d.category \in Categories /\ Sensible(d, d.category)
           /\ \A c, d \in Inferred : c.category = d.category => c = d
  <1>1. RuleHolds(DnsRule, "DNS") /\ RuleHolds(GatewayRule, "GATEWAY")
        /\ RuleHolds(BufferbloatRule, "BUFFERBLOAT") /\ RuleHolds(LossRule, "PACKET_LOSS")
        /\ RuleHolds(HttpRule, "REMOTE_SERVICE_RESPONSE") /\ RuleHolds(RoutingRule, "ROUTING")
    BY DnsHolds, GatewayHolds, BufferbloatHolds, LossHolds, HttpHolds, RoutingHolds
  <1>2. IsFiniteSet(Inferred)
    <2>1. IsFiniteSet(DnsRule) /\ IsFiniteSet(GatewayRule) /\ IsFiniteSet(BufferbloatRule)
          /\ IsFiniteSet(LossRule) /\ IsFiniteSet(HttpRule) /\ IsFiniteSet(RoutingRule)
      BY <1>1 DEF RuleHolds
    <2> QED BY <2>1, FS_Union DEF Inferred
  <1>3. /\ \A d \in DnsRule : d.category = "DNS"
        /\ \A d \in GatewayRule : d.category = "GATEWAY"
        /\ \A d \in BufferbloatRule : d.category = "BUFFERBLOAT"
        /\ \A d \in LossRule : d.category = "PACKET_LOSS"
        /\ \A d \in HttpRule : d.category = "REMOTE_SERVICE_RESPONSE"
        /\ \A d \in RoutingRule : d.category = "ROUTING"
    BY <1>1 DEF RuleHolds, Sensible
  <1>4. \A d \in Inferred : d.category \in Categories
    BY <1>3 DEF Inferred, Categories
  <1>5. \A d \in Inferred : Sensible(d, d.category)
    BY <1>1, <1>3 DEF Inferred, RuleHolds
  <1>6. ASSUME NEW c \in Inferred, NEW d \in Inferred, c.category = d.category PROVE c = d
    <2>1. CASE d \in DnsRule
      <3>1. c \in DnsRule
        BY <1>3, <1>6, <2>1 DEF Inferred
      <3> QED BY <1>1, <2>1, <3>1 DEF RuleHolds
    <2>2. CASE d \in GatewayRule
      <3>1. c \in GatewayRule
        BY <1>3, <1>6, <2>2 DEF Inferred
      <3> QED BY <1>1, <2>2, <3>1 DEF RuleHolds
    <2>3. CASE d \in BufferbloatRule
      <3>1. c \in BufferbloatRule
        BY <1>3, <1>6, <2>3 DEF Inferred
      <3> QED BY <1>1, <2>3, <3>1 DEF RuleHolds
    <2>4. CASE d \in LossRule
      <3>1. c \in LossRule
        BY <1>3, <1>6, <2>4 DEF Inferred
      <3> QED BY <1>1, <2>4, <3>1 DEF RuleHolds
    <2>5. CASE d \in HttpRule
      <3>1. c \in HttpRule
        BY <1>3, <1>6, <2>5 DEF Inferred
      <3> QED BY <1>1, <2>5, <3>1 DEF RuleHolds
    <2>6. CASE d \in RoutingRule
      <3>1. c \in RoutingRule
        BY <1>3, <1>6, <2>6 DEF Inferred
      <3> QED BY <1>1, <2>6, <3>1 DEF RuleHolds
    <2> QED BY <2>1, <2>2, <2>3, <2>4, <2>5, <2>6 DEF Inferred
  <1> QED BY <1>2, <1>4, <1>5, <1>6

-----------------------------------------------------------------------------
\* The order of the sort is a strict and total one of the inferred diagnoses.
LEMMA BeforeIsAnOrder ==
    ASSUME DiagnosisInv
    PROVE  /\ \A d \in Inferred : ~Before(d, d)
           /\ \A c, d \in Inferred : c = d \/ Before(c, d) \/ Before(d, c)
           /\ \A c, d, e \in Inferred : Before(c, d) /\ Before(d, e) => Before(c, e)
           /\ \A c, d \in Inferred : Before(c, d) => c.confidence >= d.confidence
  <1> DEFINE Place(category) ==
                 IF category = "BUFFERBLOAT" THEN 1 ELSE IF category = "DNS" THEN 2
                 ELSE IF category = "GATEWAY" THEN 3 ELSE IF category = "PACKET_LOSS" THEN 4
                 ELSE IF category = "REMOTE_SERVICE_RESPONSE" THEN 5 ELSE 6
  <1>1. \A category \in Categories : /\ Place(category) \in 1 .. 6
                                     /\ ByName[Place(category)] = category
    BY DEF Categories, ByName
  <1>2. \A i \in DOMAIN ByName : i \in 1 .. 6 /\ Place(ByName[i]) = i
    BY DEF ByName
  <1>a. DOMAIN ByName = 1 .. 6
    BY DEF ByName
  <1>3. \A c, d \in Categories : Place(c) = Place(d) => c = d
    BY <1>1
  <1> HIDE DEF Place
  <1>4. \A d \in Inferred : d.category \in Categories /\ d.confidence \in Nat
    BY InferredAre DEF Sensible
  <1>5. ASSUME NEW c \in Inferred, NEW d \in Inferred
        PROVE  Before(c, d) <=> \/ c.confidence > d.confidence
                                \/ /\ c.confidence = d.confidence
                                   /\ Place(c.category) < Place(d.category)
    <2>1. c.category \in Categories /\ d.category \in Categories
      BY <1>4
    <2>2. ASSUME NEW i \in DOMAIN ByName, NEW j \in DOMAIN ByName, i < j,
                 ByName[i] = c.category, ByName[j] = d.category
          PROVE  Place(c.category) < Place(d.category)
      BY <1>2, <2>2
    <2>3. ASSUME Place(c.category) < Place(d.category)
          PROVE  \E i, j \in DOMAIN ByName : i < j /\ ByName[i] = c.category /\ ByName[j] = d.category
      BY <1>1, <1>a, <2>1, <2>3
    <2> QED BY <2>2, <2>3 DEF Before
  <1>6. ASSUME NEW d \in Inferred PROVE ~Before(d, d)
    BY <1>1, <1>4, <1>5
  <1>7. ASSUME NEW c \in Inferred, NEW d \in Inferred PROVE c = d \/ Before(c, d) \/ Before(d, c)
    <2>1. c.category = d.category => c = d
      BY InferredAre
    <2>2. /\ c.confidence \in Nat /\ d.confidence \in Nat
          /\ Place(c.category) \in 1 .. 6 /\ Place(d.category) \in 1 .. 6
      BY <1>1, <1>4
    <2>3. Place(c.category) = Place(d.category) => c.category = d.category
      BY <1>3, <1>4
    <2> QED BY <1>5, <2>1, <2>2, <2>3
  <1>8. ASSUME NEW c \in Inferred, NEW d \in Inferred, NEW e \in Inferred, Before(c, d), Before(d, e)
        PROVE  Before(c, e)
    <2>1. \A x \in Inferred : x.confidence \in Nat /\ Place(x.category) \in 1 .. 6
      BY <1>1, <1>4
    <2> QED BY <1>5, <1>8, <2>1
  <1>9. ASSUME NEW c \in Inferred, NEW d \in Inferred, Before(c, d) PROVE c.confidence >= d.confidence
    BY <1>4, <1>5, <1>9
  <1> QED BY <1>6, <1>7, <1>8, <1>9

\* Those that come before one.
Earlier(d) == {e \in Inferred : Before(e, d)}
\* The one in a place of the sort.
Sorted(k) == CHOOSE d \in Inferred : Cardinality(Earlier(d)) = k - 1

\* Every place of the sorted diagnoses is taken by one of them, and the earlier place by
\* the one that comes before.
LEMMA EveryPlaceIsTaken ==
    ASSUME DiagnosisInv
    PROVE  /\ Cardinality(Inferred) \in Nat
           /\ \A k \in 1 .. Cardinality(Inferred) :
                /\ Sorted(k) \in Inferred
                /\ Cardinality(Earlier(Sorted(k))) = k - 1
           /\ \A i, j \in 1 .. Cardinality(Inferred) : i < j => Before(Sorted(i), Sorted(j))
  <1> DEFINE n == Cardinality(Inferred)
             rank == [d \in Inferred |-> Cardinality(Earlier(d))]
             ranks == {rank[d] : d \in Inferred}
  <1>1. IsFiniteSet(Inferred) /\ n \in Nat
    BY InferredAre, FS_CardinalityType
  <1>2. ASSUME NEW d \in Inferred
        PROVE  IsFiniteSet(Earlier(d)) /\ rank[d] \in 0 .. n - 1
    <2>1. Earlier(d) \in SUBSET Inferred /\ d \notin Earlier(d)
      BY BeforeIsAnOrder DEF Earlier
    <2>2. IsFiniteSet(Earlier(d)) /\ Cardinality(Earlier(d)) <= n
          /\ (Cardinality(Earlier(d)) = n => Earlier(d) = Inferred)
      BY <1>1, <2>1, FS_Subset
    <2>3. Cardinality(Earlier(d)) \in Nat
      BY <2>2, FS_CardinalityType
    <2>4. Cardinality(Earlier(d)) # n
      BY <2>1, <2>2
    <2>5. Cardinality(Earlier(d)) \in 0 .. n - 1
      BY <1>1, <2>2, <2>3, <2>4
    <2> QED BY <2>2, <2>5
  <1>3. ASSUME NEW c \in Inferred, NEW d \in Inferred, Before(c, d) PROVE rank[c] < rank[d]
    <2>1. Earlier(c) \in SUBSET Earlier(d) /\ c \in Earlier(d) /\ c \notin Earlier(c)
      BY <1>3, BeforeIsAnOrder DEF Earlier
    <2>2. Cardinality(Earlier(c)) <= Cardinality(Earlier(d))
          /\ (Cardinality(Earlier(c)) = Cardinality(Earlier(d)) => Earlier(c) = Earlier(d))
      BY <1>2, <2>1, FS_Subset
    <2>3. Cardinality(Earlier(c)) # Cardinality(Earlier(d))
      BY <2>1, <2>2
    <2>4. rank[c] = Cardinality(Earlier(c)) /\ rank[d] = Cardinality(Earlier(d))
      OBVIOUS
    <2>5. rank[c] \in 0 .. n - 1 /\ rank[d] \in 0 .. n - 1
      BY <1>2
    <2> HIDE DEF rank, n
    <2> QED BY <1>1, <2>2, <2>3, <2>4, <2>5
  <1>4. ASSUME NEW c \in Inferred, NEW d \in Inferred, rank[c] = rank[d] PROVE c = d
    <2>1. rank[c] \in 0 .. n - 1 /\ rank[d] \in 0 .. n - 1
      BY <1>2
    <2> HIDE DEF rank, n
    <2>2. ~Before(c, d) /\ ~Before(d, c)
      BY <1>1, <1>3, <1>4, <2>1
    <2> QED BY <2>2, BeforeIsAnOrder
  <1>5. IsFiniteSet(ranks) /\ Cardinality(ranks) = n
    <2>1. rank \in [Inferred -> ranks] /\ \A y \in ranks : \E x \in Inferred : y = rank[x]
      OBVIOUS
    <2> HIDE DEF rank, ranks
    <2> QED BY <1>1, <1>4, <2>1, ImageOfInjection
  <1>6. ranks = 0 .. n - 1
    <2>1. ranks \in SUBSET (0 .. n - 1)
      BY <1>2
    <2>2. IsFiniteSet(0 .. n - 1) /\ Cardinality(0 .. n - 1) = n
      <3> HIDE DEF n
      <3>1. 0 \in Int /\ n - 1 \in Int
        BY <1>1
      <3>2. IsFiniteSet(0 .. n - 1)
            /\ Cardinality(0 .. n - 1) = IF 0 > n - 1 THEN 0 ELSE n - 1 - 0 + 1
        BY <3>1, FS_Interval
      <3> QED BY <1>1, <3>2
    <2> HIDE DEF ranks, n
    <2> QED BY <1>5, <2>1, <2>2, FS_Subset
  <1>7. ASSUME NEW k \in 1 .. n
        PROVE  Sorted(k) \in Inferred /\ Cardinality(Earlier(Sorted(k))) = k - 1
    <2>1. k - 1 \in ranks
      <3> HIDE DEF ranks, n
      <3> QED BY <1>1, <1>6
    <2>2. \E d \in Inferred : Cardinality(Earlier(d)) = k - 1
      BY <2>1
    <2> QED BY <2>2 DEF Sorted
  <1>8. ASSUME NEW i \in 1 .. n, NEW j \in 1 .. n, i < j PROVE Before(Sorted(i), Sorted(j))
    <2>1. Sorted(i) \in Inferred /\ Sorted(j) \in Inferred
          /\ rank[Sorted(i)] = i - 1 /\ rank[Sorted(j)] = j - 1
      BY <1>7
    <2> HIDE DEF rank, n
    <2>2. Sorted(i) # Sorted(j)
      BY <1>1, <1>8, <2>1
    <2>3. ~Before(Sorted(j), Sorted(i))
      BY <1>1, <1>3, <1>8, <2>1
    <2> QED BY <2>1, <2>2, <2>3, BeforeIsAnOrder
  <1> QED BY <1>1, <1>7, <1>8

\* The sort puts every inferred diagnosis in a place and none of them in two.
LEMMA DiagnosesAreSorted ==
    ASSUME DiagnosisInv
    PROVE  /\ Cardinality(Inferred) \in Nat
           /\ Diagnoses \in [1 .. Cardinality(Inferred) -> Inferred]
           /\ Len(Diagnoses) = Cardinality(Inferred)
           /\ Diagnoses = << >> <=> Cardinality(Inferred) = 0
           /\ \A i, j \in 1 .. Cardinality(Inferred) : i < j => Before(Diagnoses[i], Diagnoses[j])
  <1> DEFINE n == Cardinality(Inferred)
  <1>1. Diagnoses = [k \in 1 .. n |-> Sorted(k)]
    BY DEF Diagnoses, InOrder, Sorted, Earlier
  <1>2. n \in Nat
    BY EveryPlaceIsTaken
  <1>3. Diagnoses \in [1 .. n -> Inferred]
    BY <1>1, EveryPlaceIsTaken
  <1>4. \A i, j \in 1 .. n : i < j => Before(Diagnoses[i], Diagnoses[j])
    BY <1>1, EveryPlaceIsTaken
  <1> HIDE DEF n
  <1>5. Diagnoses \in Seq(Inferred)
    BY <1>2, <1>3 DEF Seq
  <1>6. Len(Diagnoses) = n
    BY <1>2, <1>3, <1>5, LenProperties
  <1>7. Diagnoses = << >> <=> n = 0
    BY <1>5, <1>6, EmptySeq
  <1> QED BY <1>2, <1>3, <1>4, <1>6, <1>7 DEF n

-----------------------------------------------------------------------------
\* The recommendations answer the categories, each another one.
LEMMA AdviceIs ==
    ASSUME NEW diagnoses, diagnoses # << >>,
           \A i \in DOMAIN diagnoses : diagnoses[i].category \in Categories
    PROVE  /\ DOMAIN Recommendations(diagnoses) = DOMAIN diagnoses
           /\ \A i \in DOMAIN diagnoses : Recommendations(diagnoses)[i] # "nominal"
           /\ \A i, j \in DOMAIN diagnoses :
                Recommendations(diagnoses)[i] = Recommendations(diagnoses)[j] =>
                    diagnoses[i].category = diagnoses[j].category
  <1> DEFINE of == [DNS |-> "dns", GATEWAY |-> "gateway", BUFFERBLOAT |-> "bufferbloat",
                    PACKET_LOSS |-> "loss", REMOTE_SERVICE_RESPONSE |-> "http", ROUTING |-> "routing"]
  <1>1. Recommendations(diagnoses) = [i \in DOMAIN diagnoses |-> of[diagnoses[i].category]]
    BY DEF Recommendations
  <1>2. of["DNS"] = "dns" /\ of["GATEWAY"] = "gateway" /\ of["BUFFERBLOAT"] = "bufferbloat"
        /\ of["PACKET_LOSS"] = "loss" /\ of["REMOTE_SERVICE_RESPONSE"] = "http"
        /\ of["ROUTING"] = "routing"
    OBVIOUS
  <1> HIDE DEF of
  <1>3. \A c, d \in Categories : of[c] # "nominal" /\ (of[c] = of[d] => c = d)
    BY <1>2 DEF Categories
  <1> QED BY <1>1, <1>3

\* What is recommended follows the diagnoses of the finished analysis.
LEMMA AdviceFollows == ASSUME DiagnosisInv PROVE RecommendationsFollow
  <1> DEFINE n == Cardinality(Inferred)
  <1> SUFFICES ASSUME verdict.given PROVE RecommendationsFollow
    BY DEF RecommendationsFollow
  <1>1. verdict.diagnoses = Diagnoses /\ verdict.recommendations = Recommendations(Diagnoses)
    BY DEF DiagnosisInv
  <1>2. /\ n \in Nat
        /\ Diagnoses \in [1 .. n -> Inferred]
        /\ Len(Diagnoses) = n
        /\ Diagnoses = << >> <=> n = 0
        /\ \A i, j \in 1 .. n : i < j => Before(Diagnoses[i], Diagnoses[j])
    BY DiagnosesAreSorted
  <1> HIDE DEF n
  <1>3. \A i, j \in DOMAIN Diagnoses : i < j => Diagnoses[i].confidence >= Diagnoses[j].confidence
    BY <1>2, BeforeIsAnOrder
  <1>4. CASE Diagnoses = << >>
    <2>1. Recommendations(Diagnoses) = <<"nominal">>
      BY <1>4 DEF Recommendations
    <2>2. Len(<<"nominal">>) = 1 /\ DOMAIN <<"nominal">> = {1} /\ <<"nominal">>[1] = "nominal"
      OBVIOUS
    <2> QED BY <1>1, <1>3, <1>4, <2>1, <2>2 DEF RecommendationsFollow
  <1>5. CASE Diagnoses # << >>
    <2>1. \A i \in DOMAIN Diagnoses : Diagnoses[i].category \in Categories
      BY <1>2, InferredAre
    <2>2. /\ DOMAIN Recommendations(Diagnoses) = DOMAIN Diagnoses
          /\ \A i \in DOMAIN Diagnoses : Recommendations(Diagnoses)[i] # "nominal"
          /\ \A i, j \in DOMAIN Diagnoses :
                Recommendations(Diagnoses)[i] = Recommendations(Diagnoses)[j] =>
                    Diagnoses[i].category = Diagnoses[j].category
      <3> HIDE DEF Diagnoses
      <3> QED BY ONLY <1>5, <2>1, AdviceIs
    <2>3. Len(Recommendations(Diagnoses)) = Len(Diagnoses)
      <3>1. Recommendations(Diagnoses) \in Seq({Recommendations(Diagnoses)[i] : i \in 1 .. n})
        <4> DEFINE of == [DNS |-> "dns", GATEWAY |-> "gateway", BUFFERBLOAT |-> "bufferbloat",
                          PACKET_LOSS |-> "loss", REMOTE_SERVICE_RESPONSE |-> "http", ROUTING |-> "routing"]
                   advice == Recommendations(Diagnoses)
        <4>1. advice = [i \in DOMAIN Diagnoses |-> of[Diagnoses[i].category]]
          BY <1>5 DEF Recommendations
        <4>2. DOMAIN Diagnoses = 1 .. n
          BY <1>2
        <4>3. advice \in [1 .. n -> {advice[i] : i \in 1 .. n}]
          <5> HIDE DEF of, advice
          <5> QED BY <4>1, <4>2
        <4> HIDE DEF advice
        <4>4. advice \in Seq({advice[i] : i \in 1 .. n})
          BY <1>2, <4>3 DEF Seq
        <4> QED BY <4>4 DEF advice
      <3>2. Len(Recommendations(Diagnoses)) \in Nat
            /\ DOMAIN Recommendations(Diagnoses) = 1 .. Len(Recommendations(Diagnoses))
        BY <3>1, LenProperties
      <3>3. DOMAIN Recommendations(Diagnoses) = 1 .. n
        <4>1. DOMAIN Diagnoses = 1 .. n
          BY <1>2
        <4>2. DOMAIN Recommendations(Diagnoses) = DOMAIN Diagnoses
          BY <2>2
        <4> QED BY <4>1, <4>2
      <3>4. ASSUME NEW k \in Nat, NEW m \in Nat, 1 .. k = 1 .. m PROVE k = m
        <4>1. k # 0 => k \in 1 .. m
          BY <3>4
        <4>2. m # 0 => m \in 1 .. k
          BY <3>4
        <4> QED BY <4>1, <4>2
      <3> QED BY <1>2, <3>2, <3>3, <3>4
    <2>4. ASSUME NEW i \in DOMAIN Diagnoses, NEW j \in DOMAIN Diagnoses, i # j
          PROVE  Diagnoses[i].category # Diagnoses[j].category
      <3>1. i \in 1 .. n /\ j \in 1 .. n /\ (i < j \/ j < i)
        BY <1>2, <2>4
      <3>2. Diagnoses[i] # Diagnoses[j]
        BY <1>2, <3>1, BeforeIsAnOrder
      <3> QED BY <1>2, <3>1, <3>2, InferredAre
    <2>5. \A i, j \in DOMAIN Recommendations(Diagnoses) :
            i # j => Recommendations(Diagnoses)[i] # Recommendations(Diagnoses)[j]
      BY <2>2, <2>4
    <2>6. ~\E i \in DOMAIN Recommendations(Diagnoses) : Recommendations(Diagnoses)[i] = "nominal"
      BY <2>2
    <2> QED BY <1>1, <1>3, <1>5, <2>3, <2>5, <2>6 DEF RecommendationsFollow
  <1> QED BY <1>4, <1>5

\* Everything concluded has its evidence.
LEMMA DiagnosisHolds ==
    ASSUME DiagnosisInv
    PROVE  /\ DiagnosisTypeOK /\ DiagnosesAreEvidenced /\ SimulatedIsNeverSevere
           /\ SilentHopsAreNoLoss /\ RecommendationsFollow
  <1>1. DiagnosisTypeOK
    <2>1. Len(PipelineSteps) + 1 = 7
      BY DEF PipelineSteps
    <2> QED BY <2>1 DEF DiagnosisTypeOK, DiagnosisInv, OneOfAKind, Trusted
  <1>2. ASSUME NEW i \in DOMAIN verdict.diagnoses
        PROVE  verdict.diagnoses[i] \in Inferred
    <2>1. CASE verdict.given
      BY <1>2, <2>1, DiagnosesAreSorted DEF DiagnosisInv
    <2>2. CASE ~verdict.given
      <3>1. DOMAIN << >> = {}
        OBVIOUS
      <3> QED BY <1>2, <2>2, <3>1 DEF DiagnosisInv
    <2> QED BY <2>1, <2>2
  <1>3. DiagnosesAreEvidenced /\ SimulatedIsNeverSevere
    BY <1>2, InferredAre DEF DiagnosesAreEvidenced, SimulatedIsNeverSevere, Sensible
  <1>4. SilentHopsAreNoLoss
    <2> SUFFICES ASSUME Number("target_packet_loss"), Obs("target_packet_loss").value = 0,
                        NEW i \in DOMAIN verdict.diagnoses,
                        verdict.diagnoses[i].category = "PACKET_LOSS"
                 PROVE  FALSE
      BY DEF SilentHopsAreNoLoss
    <2>1. LossRule = {}
      <3>1. ~Above("target_packet_loss", 0)
        BY DEF Above
      <3> QED BY <3>1 DEF LossRule
    <2>2. RuleHolds(DnsRule, "DNS") /\ RuleHolds(GatewayRule, "GATEWAY")
          /\ RuleHolds(BufferbloatRule, "BUFFERBLOAT")
          /\ RuleHolds(HttpRule, "REMOTE_SERVICE_RESPONSE") /\ RuleHolds(RoutingRule, "ROUTING")
      BY DnsHolds, GatewayHolds, BufferbloatHolds, HttpHolds, RoutingHolds
    <2> QED BY <1>2, <2>1, <2>2 DEF Inferred, RuleHolds, Sensible
  <1> QED BY <1>1, <1>3, <1>4, AdviceFollows

-----------------------------------------------------------------------------
\* The diagnostics screen (Diagnostics.tsx).

\* The deep analyses.
DeepSessions == [any : BOOLEAN, run : 0 .. MaxRuns, status : {"none", "running", "completed"}, step : 0 .. 6]
\* The states of a single probe.
ProbeStates == [status : {"idle", "running", "success", "error"}, run : 0 .. MaxRuns]
\* The queries under way.
Queries == [kind : SingleProbes \cup {"deep"}, run : 1 .. MaxRuns, step : 1 .. 6]

\* The states of the screen.
DiagScreens == [target : Targets, probes : [SingleProbes -> ProbeStates], session : DeepSessions,
                stage : 0 .. 6, deepBusy : BOOLEAN, notice : BOOLEAN]

\* The types.
DiagTyped ==
    /\ diag \in DiagScreens
    /\ run \in [id : 0 .. MaxRuns, cancelled : BOOLEAN]
    /\ probing \subseteq Queries
    /\ clearedAt \in 0 .. MaxRuns

\* A query of the run that is current.
Current(q) == q.run = run.id

\* One query of a run at most, none of a cancelled one, and what is busy on the screen is
\* the current run.
DiagnosticsInv ==
    /\ DiagTyped
    /\ clearedAt <= run.id
    /\ \A q \in probing : q.run <= run.id
    /\ \A q, r \in probing : q.run = r.run => q = r
    /\ run.cancelled => \A q \in probing : ~Current(q)
    /\ \A q \in probing : Current(q) => clearedAt < run.id
    /\ \A q \in probing : Current(q) /\ q.kind = "deep" => diag.deepBusy
    /\ \A q \in probing : Current(q) /\ q.kind # "deep" => diag.probes[q.kind].status = "running"
    /\ diag.deepBusy => /\ diag.session.any /\ diag.session.status = "running"
                        /\ diag.session.run = run.id
                        /\ \E q \in probing : Current(q) /\ q.kind = "deep" /\ q.step = diag.stage
    /\ \A p \in SingleProbes : diag.probes[p].status = "running"
                                 => \E q \in probing : Current(q) /\ q.kind = p
    /\ ClearedStaysCleared

\* A deep analysis on the screen.
LEMMA SessionIsSet ==
    ASSUME NEW d \in DiagScreens, NEW s \in DeepSessions, NEW n \in 0 .. 6, NEW b \in BOOLEAN
    PROVE  [d EXCEPT !.session = s, !.stage = n, !.deepBusy = b] \in DiagScreens
  BY DEF DiagScreens

\* The deep analysis is no single probe.
LEMMA DeepIsNoProbe == "deep" \notin SingleProbes
  BY DEF SingleProbes

\* A fresh screen.
LEMMA FreshDiagnostics ==
    /\ DiagFresh \in [target : ValidTargets, probes : [SingleProbes -> ProbeStates], session : DeepSessions,
                 stage : 0 .. 6, deepBusy : BOOLEAN, notice : BOOLEAN]
    /\ ~DiagFresh.deepBusy /\ ~DiagFresh.session.any
    /\ \A p \in SingleProbes : DiagFresh.probes[p].status = "idle"
  BY DiagnosticsConstants DEF DiagFresh, IdleProbe, NoDeepSession, ProbeStates, DeepSessions

\* Clearing the screen or changing the target.
LEMMA DiagnosticsReset ==
    ASSUME NEW t \in Targets, diag' = [DiagFresh EXCEPT !.target = t], NEW n \in 0 .. MaxRuns,
           NEW c \in BOOLEAN, run' = [id |-> n, cancelled |-> c],
           NEW m \in 0 .. n, clearedAt' = m, probing' \subseteq Queries,
           \A q \in probing' : q.run < n, \A q, r \in probing' : q.run = r.run => q = r
    PROVE  DiagnosticsInv'
  <1> USE DiagnosticsConstants
  <1>1. DiagTyped'
    BY FreshDiagnostics DEF DiagTyped, DiagScreens
  <1>2. /\ ~diag'.deepBusy /\ ~diag'.session.any /\ run'.id = n /\ run'.cancelled = c
        /\ \A p \in SingleProbes : diag'.probes[p].status = "idle"
    BY FreshDiagnostics
  <1>3. ClearedStaysCleared'
    BY <1>2 DEF ClearedStaysCleared
  <1>4. \A q \in probing' : q.run \in Nat /\ q.run <= n /\ q.run # n
    BY DEF Queries
  <1>5. \A q \in probing' : ~(q.run = run'.id)
    BY <1>2, <1>4
  <1> QED BY <1>1, <1>2, <1>3, <1>4, <1>5 DEF DiagnosticsInv, Current

\* The diagnostics when they are opened.
LEMMA DiagnosticsStart == ASSUME DiagnosticsInit PROVE DiagnosticsInv
  <1> USE DiagnosticsConstants
  <1>1. DiagTyped
    BY FreshDiagnostics DEF DiagnosticsInit, DiagTyped, DiagScreens
  <1>2. /\ ~diag.deepBusy /\ ~diag.session.any /\ run.id = 0 /\ ~run.cancelled /\ probing = {} /\ clearedAt = 0
        /\ \A p \in SingleProbes : diag.probes[p].status = "idle"
    BY FreshDiagnostics DEF DiagnosticsInit
  <1> QED BY <1>1, <1>2 DEF DiagnosticsInv, ClearedStaysCleared

\* Starting a probe or an analysis.
LEMMA RunStarts ==
    ASSUME DiagnosticsInv, NEW kind \in SingleProbes \cup {"deep"}, NEW screen, StartRun(kind, screen),
           screen \in DiagScreens,
           kind = "deep" => /\ screen.deepBusy /\ screen.session.any /\ screen.session.status = "running"
                            /\ screen.session.run = run.id + 1 /\ screen.stage = 1
                            /\ screen.probes = diag.probes,
           kind # "deep" => /\ screen.deepBusy = diag.deepBusy /\ screen.session = diag.session
                            /\ screen.probes = [diag.probes EXCEPT ![kind] = [status |-> "running", run |-> run.id + 1]]
    PROVE  DiagnosticsInv'
  <1> USE DiagnosticsConstants, DeepIsNoProbe
  <1> DEFINE new == [kind |-> kind, run |-> run.id + 1, step |-> 1]
  <1>1. /\ run' = [id |-> run.id + 1, cancelled |-> FALSE] /\ clearedAt' = clearedAt
        /\ probing' = probing \cup {new} /\ run.id < MaxRuns
        /\ diag' = [screen EXCEPT !.notice = FALSE] /\ ~IsAnyBusy
    BY DEF StartRun, DiagnosticsView
  <1>2. /\ run.id \in Nat /\ clearedAt \in Nat /\ clearedAt <= run.id /\ run'.id = run.id + 1
        /\ ~run'.cancelled /\ new \in Queries
    BY <1>1 DEF DiagnosticsInv, DiagTyped, DiagScreens, Queries
  <1>3. \A q \in probing : q.run \in Nat /\ q.run <= run.id
    BY DEF DiagnosticsInv, DiagTyped, DiagScreens, Queries
  <1>a. run.id + 1 \in 0 .. MaxRuns
    BY <1>1, <1>2
  <1>b. run' \in [id : 0 .. MaxRuns, cancelled : BOOLEAN]
    BY <1>1, <1>a
  <1>c. diag' \in DiagScreens
    BY <1>1 DEF DiagScreens
  <1>d. probing' \subseteq Queries /\ clearedAt' \in 0 .. MaxRuns
    BY <1>1, <1>2 DEF DiagnosticsInv, DiagTyped, DiagScreens
  <1>4. DiagTyped'
    BY <1>b, <1>c, <1>d DEF DiagTyped, DiagScreens
  <1>5. \A q \in probing' : q.run <= run'.id /\ (Current(q)' <=> q = new)
    BY <1>1, <1>2, <1>3 DEF Current
  <1>6. \A q, r \in probing' : q.run = r.run => q = r
    BY <1>1, <1>3, <1>2 DEF DiagnosticsInv
  <1>7. ~diag.deepBusy /\ \A p \in SingleProbes : diag.probes[p].status # "running"
    BY <1>1 DEF IsAnyBusy
  <1>8. /\ diag'.deepBusy = screen.deepBusy /\ diag'.session = screen.session
        /\ diag'.stage = screen.stage /\ diag'.probes = screen.probes
    BY <1>1
  <1>9. new \in probing' /\ new.kind = kind /\ new.step = 1 /\ new.run = run.id + 1
    BY <1>1
  <1>10. diag.probes \in [SingleProbes -> ProbeStates]
    BY DEF DiagnosticsInv, DiagTyped, DiagScreens
  <1>11. ClearedStaysCleared'
    BY <1>1, <1>2, <1>8, <1>10 DEF DiagnosticsInv, ClearedStaysCleared
  <1> HIDE DEF new
  <1>12. CASE kind = "deep"
    BY <1>1, <1>2, <1>4, <1>5, <1>6, <1>7, <1>8, <1>9, <1>11, <1>12 DEF DiagnosticsInv
  <1>13. CASE kind # "deep"
    BY <1>1, <1>2, <1>4, <1>5, <1>6, <1>7, <1>8, <1>9, <1>10, <1>11, <1>13 DEF DiagnosticsInv
  <1> QED BY <1>12, <1>13

\* Every step of the screen, late answers and cancelled runs included.
LEMMA DiagnosticsStep == ASSUME DiagnosticsInv, [DiagnosticsNext]_diagnosticsVars PROVE DiagnosticsInv'
  <1> USE DiagnosticsConstants, DeepIsNoProbe
  <1>1. CASE UNCHANGED diagnosticsVars
    BY <1>1 DEF diagnosticsVars, DiagnosticsInv, DiagTyped, DiagScreens, Current, ClearedStaysCleared
  <1>2. ASSUME NEW t \in Targets, TypeTarget(t) PROVE DiagnosticsInv'
    BY <1>2 DEF TypeTarget, DiagnosticsInv, DiagTyped, DiagScreens, Current, ClearedStaysCleared
  <1>3. CASE RefuseTarget
    BY <1>3 DEF RefuseTarget, DiagnosticsInv, DiagTyped, DiagScreens, Current, ClearedStaysCleared
  <1>4. CASE DismissDiagNotice
    BY <1>4 DEF DismissDiagNotice, DiagnosticsInv, DiagTyped, DiagScreens, Current, ClearedStaysCleared
  <1>5. ASSUME NEW p \in SingleProbes, RunProbe(p) PROVE DiagnosticsInv'
    <2> DEFINE screen == [diag EXCEPT !.probes[p] = [status |-> "running", run |-> run.id + 1]]
    <2>1. StartRun(p, screen)
      BY <1>5 DEF RunProbe
    <2>2. run.id + 1 \in 0 .. MaxRuns
      BY <2>1 DEF StartRun, DiagnosticsInv, DiagTyped, DiagScreens
    <2>3. screen \in DiagScreens
          /\ screen.deepBusy = diag.deepBusy /\ screen.session = diag.session
          /\ screen.probes = [diag.probes EXCEPT ![p] = [status |-> "running", run |-> run.id + 1]]
      BY <2>2 DEF DiagnosticsInv, DiagTyped, DiagScreens, ProbeStates
    <2>4. p # "deep"
      OBVIOUS
    <2> HIDE DEF screen
    <2> QED BY <2>1, <2>3, <2>4, RunStarts
  <1>6. CASE RunDeep
    <2> DEFINE started == [any |-> TRUE, run |-> run.id + 1, status |-> "running", step |-> 1]
               screen == [diag EXCEPT !.deepBusy = TRUE, !.stage = 1, !.session = started]
    <2>1. StartRun("deep", screen)
      BY <1>6 DEF RunDeep
    <2>2. run.id + 1 \in 0 .. MaxRuns
      BY <2>1 DEF StartRun, DiagnosticsInv, DiagTyped, DiagScreens
    <2>a. started \in DeepSessions
      BY <2>2 DEF DeepSessions
    <2>b. started.any /\ started.status = "running" /\ started.run = run.id + 1
      OBVIOUS
    <2> HIDE DEF started
    <2>3. screen \in DiagScreens
          /\ screen.deepBusy /\ screen.session.any /\ screen.session.status = "running"
          /\ screen.session.run = run.id + 1 /\ screen.stage = 1 /\ screen.probes = diag.probes
      <3>1. diag \in DiagScreens
        BY DEF DiagnosticsInv, DiagTyped, DiagScreens
      <3>2. screen = [diag EXCEPT !.session = started, !.stage = 1, !.deepBusy = TRUE]
        BY <3>1 DEF DiagScreens
      <3> HIDE DEF screen
      <3>3. 1 \in 0 .. 6 /\ TRUE \in BOOLEAN
        OBVIOUS
      <3>4. screen \in DiagScreens
        BY <2>a, <3>1, <3>2, <3>3, SessionIsSet
      <3>5. screen.session = started /\ screen.stage = 1 /\ screen.deepBusy /\ screen.probes = diag.probes
        BY <3>1, <3>2 DEF DiagScreens
      <3> QED BY <2>b, <3>4, <3>5
    <2> HIDE DEF screen
    <2> QED BY <2>1, <2>3, RunStarts
  <1>7. ASSUME NEW q \in probing, NEW ok \in BOOLEAN, ProbeEnded(q, ok) PROVE DiagnosticsInv'
    <2>1. /\ q.kind \in SingleProbes /\ q.kind # "deep" /\ probing' = probing \ {q} /\ run' = run /\ clearedAt' = clearedAt
      BY <1>7 DEF ProbeEnded, DiagnosticsInv, DiagTyped, DiagScreens, Queries
    <2>2. CASE IsStale(q)
      <3>1. diag' = diag /\ ~Current(q)
        BY <1>7, <2>2 DEF ProbeEnded, IsStale, DiagnosticsInv, Current
      <3> QED BY <2>1, <3>1 DEF DiagnosticsInv, DiagTyped, DiagScreens, Current, ClearedStaysCleared
    <2>3. CASE ~IsStale(q)
      <3>1. /\ diag' = [diag EXCEPT !.probes[q.kind] = [status |-> IF ok THEN "success" ELSE "error", run |-> q.run],
                                 !.notice = @ \/ ~ok]
            /\ Current(q) /\ q.run \in 1 .. MaxRuns
        BY <1>7, <2>3 DEF ProbeEnded, IsStale, Current, DiagnosticsInv, DiagTyped, DiagScreens, Queries
      <3>2. \A r \in probing : Current(r) => r = q
        BY <3>1 DEF DiagnosticsInv, Current
      <3>3. /\ diag'.deepBusy = diag.deepBusy /\ diag'.session = diag.session /\ diag'.stage = diag.stage
            /\ diag'.probes = [diag.probes EXCEPT ![q.kind] = [status |-> IF ok THEN "success" ELSE "error", run |-> q.run]]
            /\ diag.probes \in [SingleProbes -> ProbeStates]
        BY <3>1 DEF DiagnosticsInv, DiagTyped, DiagScreens
      <3>4. ~diag.deepBusy
        BY <2>1, <3>2 DEF DiagnosticsInv
      <3>5. \A p \in SingleProbes \ {q.kind} : diag.probes[p].status # "running"
        BY <3>2 DEF DiagnosticsInv
      <3>6. \A r \in probing' : ~Current(r)'
        BY <2>1, <3>2 DEF Current
      <3>a. [status |-> IF ok THEN "success" ELSE "error", run |-> q.run] \in ProbeStates
        BY <3>1 DEF ProbeStates
      <3>b. (diag.notice \/ ~ok) \in BOOLEAN
        OBVIOUS
      <3>c. diag' \in DiagScreens
        BY <3>1, <3>a, <3>b DEF DiagnosticsInv, DiagTyped, DiagScreens
      <3>7. DiagTyped'
        BY <2>1, <3>c DEF DiagnosticsInv, DiagTyped, DiagScreens
      <3>8. ClearedStaysCleared'
        BY <2>1, <3>1, <3>3 DEF DiagnosticsInv, ClearedStaysCleared, Current
      <3>9. \A p \in SingleProbes : diag'.probes[p].status # "running"
        BY <3>3, <3>5
      <3> QED BY <2>1, <3>3, <3>4, <3>6, <3>7, <3>8, <3>9 DEF DiagnosticsInv
    <2> QED BY <2>2, <2>3
  <1>8. ASSUME NEW q \in probing, StepEnded(q) PROVE DiagnosticsInv'
    <2>1. /\ q.kind = "deep" /\ q.step < 6 /\ run' = run /\ clearedAt' = clearedAt
      BY <1>8 DEF StepEnded, LastStep
    <2>2. CASE IsStale(q)
      <3>1. diag' = diag /\ ~Current(q) /\ probing' = probing \ {q}
        BY <1>8, <2>2 DEF StepEnded, IsStale, DiagnosticsInv, Current
      <3> QED BY <2>1, <3>1 DEF DiagnosticsInv, DiagTyped, DiagScreens, Current, ClearedStaysCleared
    <2>3. CASE ~IsStale(q)
      <3> DEFINE next == [q EXCEPT !.step = @ + 1]
      <3>1. /\ diag' = [diag EXCEPT !.stage = q.step + 1, !.session.step = q.step + 1, !.session.run = q.run]
            /\ probing' = (probing \ {q}) \cup {next}
            /\ Current(q) /\ q \in Queries
        BY <1>8, <2>3 DEF StepEnded, IsStale, Current, DiagnosticsInv, DiagTyped, DiagScreens
      <3>2. \A r \in probing : Current(r) => r = q
        BY <3>1 DEF DiagnosticsInv, Current
      <3>3. next \in Queries /\ next.run = q.run /\ next.kind = "deep" /\ next.step = q.step + 1
        BY <2>1, <3>1 DEF Queries
      <3>4. /\ diag'.deepBusy = diag.deepBusy /\ diag'.probes = diag.probes /\ diag'.stage = q.step + 1
            /\ diag'.session.any = diag.session.any /\ diag'.session.status = diag.session.status
            /\ diag'.session.run = run.id
        BY <3>1 DEF DiagnosticsInv, DiagTyped, DiagScreens, DeepSessions, Current
      <3>5. diag.deepBusy
        BY <2>1, <3>1 DEF DiagnosticsInv
      <3>6. q.step + 1 \in 0 .. 6 /\ q.run \in 0 .. MaxRuns
        BY <2>1, <3>1 DEF Queries
      <3>7. DiagTyped'
        BY <2>1, <3>1, <3>3, <3>6 DEF DiagnosticsInv, DiagTyped, DiagScreens, DeepSessions
      <3> HIDE DEF next
      <3>8. \A r \in probing' : Current(r)' <=> r = next
        BY <2>1, <3>1, <3>2, <3>3 DEF Current
      <3>9. ClearedStaysCleared'
        BY <2>1, <3>1, <3>4, <3>5 DEF DiagnosticsInv, ClearedStaysCleared, Current
      <3>10. \A r, s \in probing' : r.run = s.run => r = s
        BY <3>1, <3>3 DEF DiagnosticsInv
      <3>11. \A r \in probing' : r.run <= run'.id
        BY <2>1, <3>1, <3>3 DEF DiagnosticsInv
      <3>12. \A p \in SingleProbes : diag'.probes[p].status # "running"
        BY <2>1, <3>2, <3>4 DEF DiagnosticsInv
      <3>13. ~run'.cancelled /\ clearedAt' < run'.id /\ clearedAt' <= run'.id
        BY <2>1, <3>1 DEF DiagnosticsInv
      <3>14. next \in probing'
        BY <3>1
      <3>15. diag.session.any /\ diag.session.status = "running"
        BY <3>5 DEF DiagnosticsInv
      <3> QED BY <2>1, <3>3, <3>4, <3>5, <3>7, <3>8, <3>9, <3>10, <3>11, <3>12, <3>13, <3>14, <3>15
              DEF DiagnosticsInv
    <2> QED BY <2>2, <2>3
  <1>9. ASSUME NEW q \in probing, DeepEnded(q) PROVE DiagnosticsInv'
    <2>1. /\ q.kind = "deep" /\ probing' = probing \ {q} /\ run' = run /\ clearedAt' = clearedAt
      BY <1>9 DEF DeepEnded
    <2>2. CASE IsStale(q)
      <3>1. diag' = diag /\ ~Current(q)
        BY <1>9, <2>2 DEF DeepEnded, IsStale, DiagnosticsInv, Current
      <3> QED BY <2>1, <3>1 DEF DiagnosticsInv, DiagTyped, DiagScreens, Current, ClearedStaysCleared
    <2>3. CASE ~IsStale(q)
      <3>1. /\ diag' = [diag EXCEPT !.session = [any |-> TRUE, run |-> q.run, status |-> "completed", step |-> 6],
                                 !.stage = 0, !.deepBusy = FALSE]
            /\ Current(q) /\ q.run \in 1 .. MaxRuns
        BY <1>9, <2>3 DEF DeepEnded, IsStale, Current, DiagnosticsInv, DiagTyped, DiagScreens, Queries, LastStep
      <3>2. \A r \in probing : Current(r) => r = q
        BY <3>1 DEF DiagnosticsInv, Current
      <3>3. ~diag'.deepBusy /\ diag'.probes = diag.probes /\ diag'.session.run = q.run
        BY <3>1 DEF DiagnosticsInv, DiagTyped, DiagScreens
      <3>4. \A p \in SingleProbes : diag.probes[p].status # "running"
        BY <2>1, <3>2 DEF DiagnosticsInv
      <3>5. \A r \in probing' : ~Current(r)'
        BY <2>1, <3>2 DEF Current
      <3> DEFINE ended == [any |-> TRUE, run |-> q.run, status |-> "completed", step |-> 6]
      <3>a. ended \in DeepSessions
        BY <3>1 DEF DeepSessions
      <3>b. diag' = [diag EXCEPT !.session = ended, !.stage = 0, !.deepBusy = FALSE]
        BY <3>1
      <3> HIDE DEF ended
      <3>6. DiagTyped'
        <4>1. diag \in DiagScreens
          BY DEF DiagnosticsInv, DiagTyped, DiagScreens
        <4>4. diag' \in DiagScreens
          <5>1. diag' = [diag EXCEPT !.session = ended, !.stage = 0, !.deepBusy = FALSE]
            BY <4>1, <3>b DEF DiagScreens
          <5>2. 0 \in 0 .. 6 /\ FALSE \in BOOLEAN
            OBVIOUS
          <5> QED BY <4>1, <3>a, <5>1, <5>2, SessionIsSet
        <4> QED BY <2>1, <4>4 DEF DiagnosticsInv, DiagTyped, DiagScreens
      <3>7. ClearedStaysCleared'
        BY <2>1, <3>1, <3>3 DEF DiagnosticsInv, ClearedStaysCleared, Current
      <3> QED BY <2>1, <3>3, <3>4, <3>5, <3>6, <3>7 DEF DiagnosticsInv
    <2> QED BY <2>2, <2>3
  <1>10. CASE ClearResults
    <2>1. /\ run' = [id |-> run.id + 1, cancelled |-> TRUE] /\ diag' = [DiagFresh EXCEPT !.target = diag.target]
          /\ clearedAt' = run.id + 1 /\ probing' = probing /\ run.id + 1 \in 0 .. MaxRuns /\ run.id \in Nat
          /\ diag.target \in Targets
      BY <1>10 DEF ClearResults, DiagnosticsInv, DiagTyped, DiagScreens
    <2>2. \A q \in probing : q.run \in Nat /\ q.run < run.id + 1
      BY <2>1 DEF DiagnosticsInv, DiagTyped, DiagScreens, Queries
    <2>3. /\ probing' \subseteq Queries /\ \A q, r \in probing' : q.run = r.run => q = r
          /\ run.id + 1 \in 0 .. run.id + 1 /\ \A q \in probing' : q.run < run.id + 1
      BY <2>1, <2>2 DEF DiagnosticsInv, DiagTyped, DiagScreens
    <2> QED BY <2>1, <2>3, DiagnosticsReset
  <1>11. CASE LeaveDiagnostics
    <2>1. diag' = [DiagFresh EXCEPT !.target = DiagFresh.target] /\ DiagFresh.target \in Targets
          /\ run' = [id |-> 0, cancelled |-> FALSE] /\ clearedAt' = 0 /\ probing' = {}
      BY <1>11, FreshDiagnostics DEF LeaveDiagnostics
    <2>2. /\ probing' \subseteq Queries /\ \A q, r \in probing' : q.run = r.run => q = r
          /\ 0 \in 0 .. MaxRuns /\ 0 \in 0 .. 0 /\ \A q \in probing' : q.run < 0
      BY <2>1
    <2> QED BY <2>1, <2>2, DiagnosticsReset
  <1> QED BY <1>1, <1>2, <1>3, <1>4, <1>5, <1>6, <1>7, <1>8, <1>9, <1>10, <1>11 DEF DiagnosticsNext

\* What is busy is current, what was cleared stays so, the stage is the query's.
LEMMA DiagnosticsHolds ==
    ASSUME DiagnosticsInv
    PROVE  DiagnosticsTypeOK /\ BusyIsTheCurrentRun /\ ClearedStaysCleared /\ StageIsTheQuery
  <1>1. DiagnosticsTypeOK
    BY DEF DiagnosticsInv, DiagTyped, DiagScreens, DiagnosticsTypeOK, ProbeStates, DeepSessions, Queries, LastStep
  <1>2. BusyIsTheCurrentRun
    BY DEF DiagnosticsInv, DiagTyped, DiagScreens, Queries, BusyIsTheCurrentRun, IsAnyBusy, Current
  <1>3. ASSUME diag.deepBusy PROVE StageIsTheQuery
    <2>1. PICK q \in probing : Current(q) /\ q.kind = "deep" /\ q.step = diag.stage
      BY <1>3 DEF DiagnosticsInv
    <2>2. q.step \in 1 .. 6 /\ diag.session.run = run.id /\ diag.session.status = "running"
      BY <1>3 DEF DiagnosticsInv, DiagTyped, DiagScreens, Queries
    <2>3. DeepCard.ticked = q.step - 1
      BY <2>1, <2>2 DEF DeepCard
    <2> QED BY <2>1, <2>2, <2>3 DEF StageIsTheQuery, Current
  <1> QED BY <1>1, <1>2, <1>3 DEF DiagnosticsInv, StageIsTheQuery

-----------------------------------------------------------------------------
\* The parts together.

\* A screen that is not looked at is not mounted.
OnlyTheReadIsMounted ==
    /\ reading # "timeline" => ~timeline.mounted
    /\ reading # "journey" => ~journey.mounted
    /\ reading # "apps" => ~apps.mounted

\* Each part by itself, and the navigation only moved by the screen that is looked at.
EvidenceInv ==
    /\ reading \in Parts
    /\ OnlyTheReadIsMounted
    /\ StoreInv /\ DashboardInv /\ KpiInv /\ StripInv /\ TimelineInv /\ JourneyInv /\ AppsInv
    /\ MonitoringInv /\ DiagnosisInv /\ DiagnosticsInv

\* What one step of the application is to each part: a step of its own, or none.
LEMMA EvidenceStep ==
    ASSUME [EvidenceNext]_evidenceVars
    PROVE  /\ UNCHANGED reading
           /\ [StoreNext]_storeVars /\ [DashboardNext]_dashboardVars /\ [KpiNext]_kpiVars
           /\ [ProbeStripNext]_stripVars /\ [MonitoringNext]_monitoringVars
           /\ [DiagnosisNext]_diagnosisVars /\ [DiagnosticsNext]_diagnosticsVars
           /\ reading \notin {"timeline", "journey", "apps"} => UNCHANGED nav
           /\ IF reading = "timeline" THEN [TimelineNext]_timelineVars ELSE UNCHANGED timelineOwn
           /\ IF reading = "journey" THEN [JourneyNext]_journeyVars ELSE UNCHANGED journeyOwn
           /\ IF reading = "apps" THEN [AppsNext]_appsVars ELSE UNCHANGED appsOwn
  <1>1. CASE UNCHANGED evidenceVars
    BY <1>1 DEF evidenceVars, timelineOwn, journeyOwn, appsOwn, timelineVars, journeyVars, appsVars
  <1>2. CASE reading = "store" /\ StoreNext /\ OnlyPart("store")
    BY <1>2, Zenon DEF OnlyPart
  <1>3. CASE reading = "dashboard" /\ DashboardNext /\ OnlyPart("dashboard")
    BY <1>3, Zenon DEF OnlyPart
  <1>4. CASE reading = "kpi" /\ KpiNext /\ OnlyPart("kpi")
    BY <1>4, Zenon DEF OnlyPart
  <1>5. CASE reading = "strip" /\ ProbeStripNext /\ OnlyPart("strip")
    BY <1>5, Zenon DEF OnlyPart
  <1>6. CASE reading = "timeline" /\ TimelineNext /\ OnlyPart("timeline")
    BY <1>6, Zenon DEF OnlyPart
  <1>7. CASE reading = "journey" /\ JourneyNext /\ OnlyPart("journey")
    BY <1>7, Zenon DEF OnlyPart
  <1>8. CASE reading = "apps" /\ AppsNext /\ OnlyPart("apps")
    BY <1>8, Zenon DEF OnlyPart
  <1>9. CASE reading = "monitoring" /\ MonitoringNext /\ OnlyPart("monitoring")
    BY <1>9, Zenon DEF OnlyPart
  <1>10. CASE reading = "diagnosis" /\ DiagnosisNext /\ OnlyPart("diagnosis")
    BY <1>10, Zenon DEF OnlyPart
  <1>11. CASE reading = "diagnostics" /\ DiagnosticsNext /\ OnlyPart("diagnostics")
    BY <1>11, Zenon DEF OnlyPart
  <1> QED BY <1>1, <1>2, <1>3, <1>4, <1>5, <1>6, <1>7, <1>8, <1>9, <1>10, <1>11 DEF EvidenceNext

\* A screen that is not mounted asks nothing of the navigation but its type.
LEMMA NavigationOfOthers ==
    ASSUME NavInv'
    PROVE  /\ TimelineInv /\ UNCHANGED timelineOwn => TimelineInv'
           /\ JourneyInv /\ ~journey.mounted /\ UNCHANGED journeyOwn => JourneyInv'
           /\ AppsInv /\ ~apps.mounted /\ UNCHANGED appsOwn => AppsInv'
  <1>1. TimelineInv /\ UNCHANGED timelineOwn => TimelineInv'
    BY DEF TimelineInv, timelineOwn
  <1>2. JourneyInv /\ ~journey.mounted /\ UNCHANGED journeyOwn => JourneyInv'
    BY DEF JourneyInv, JourneyTyped, JourneysInOrder, journeyOwn, SkeletonHasCause, ShownJourneyIsWanted
  <1>3. AppsInv /\ ~apps.mounted /\ UNCHANGED appsOwn => AppsInv'
    BY DEF AppsInv, appsOwn
  <1> QED BY <1>1, <1>2, <1>3

\* Every part keeps what relates the things it shows to the things it holds and waits for,
\* through every order of snapshots, answers, failures and steps of the reader.
THEOREM EvidenceInvariant == EvidenceSpec => []EvidenceInv
  <1>1. EvidenceInit => EvidenceInv
    <2> SUFFICES ASSUME EvidenceInit PROVE EvidenceInv
      OBVIOUS
    <2>1. reading \in Parts /\ OnlyTheReadIsMounted
      BY DEF EvidenceInit, OnlyTheReadIsMounted, TimelineInit, TimelineFresh, JourneyInit, JourneyFresh,
             AppsInit, AppsFresh
    <2>2. StoreInv /\ DashboardInv /\ KpiInv /\ StripInv
      BY StoreStart, DashboardStart, KpiStart, StripStarts DEF EvidenceInit
    <2>3. TimelineInv /\ JourneyInv /\ AppsInv
      BY TimelineStart, JourneyStart, AppsStart DEF EvidenceInit
    <2>4. MonitoringInv /\ DiagnosisInv /\ DiagnosticsInv
      BY MonitoringStart, DiagnosisStart, DiagnosticsStart DEF EvidenceInit
    <2> QED BY <2>1, <2>2, <2>3, <2>4 DEF EvidenceInv
  <1>2. EvidenceInv /\ [EvidenceNext]_evidenceVars => EvidenceInv'
    <2> SUFFICES ASSUME EvidenceInv, [EvidenceNext]_evidenceVars PROVE EvidenceInv'
      OBVIOUS
    <2>1. reading' = reading /\ reading \in Parts
      BY EvidenceStep DEF EvidenceInv
    <2>2. StoreInv' /\ DashboardInv' /\ KpiInv' /\ StripInv'
      BY EvidenceStep, StoreStep, DashboardStep, KpiStep, StripStep DEF EvidenceInv
    <2>3. MonitoringInv' /\ DiagnosisInv' /\ DiagnosticsInv'
      BY EvidenceStep, MonitoringStep, DiagnosisStep, DiagnosticsStep DEF EvidenceInv
    <2>4. reading = "timeline" => TimelineInv'
      BY EvidenceStep, TimelineStep DEF EvidenceInv
    <2>5. reading = "journey" => JourneyInv'
      BY EvidenceStep, JourneyStep DEF EvidenceInv
    <2>6. reading = "apps" => AppsInv'
      BY EvidenceStep, AppsStep DEF EvidenceInv
    <2>7. NavInv'
      <3>1. CASE reading \in {"timeline", "journey", "apps"}
        BY <2>4, <2>5, <2>6, <3>1 DEF TimelineInv, JourneyInv, JourneyTyped, AppsInv
      <3>2. CASE reading \notin {"timeline", "journey", "apps"}
        BY <3>2, EvidenceStep DEF EvidenceInv, TimelineInv, NavInv
      <3> QED BY <3>1, <3>2
    <2>8. TimelineInv' /\ JourneyInv' /\ AppsInv'
      BY <2>4, <2>5, <2>6, <2>7, EvidenceStep, NavigationOfOthers DEF EvidenceInv, OnlyTheReadIsMounted
    <2>9. OnlyTheReadIsMounted'
      BY <2>1, EvidenceStep DEF EvidenceInv, OnlyTheReadIsMounted, timelineOwn, journeyOwn, appsOwn
    <2> QED BY <2>1, <2>2, <2>3, <2>8, <2>9 DEF EvidenceInv
  <1> QED BY <1>1, <1>2, PTL DEF EvidenceSpec

\* Every variable of every part has its type: no snapshot, answer or target leaves a screen
\* in a state its rendering does not know.
THEOREM EvidenceTypes == EvidenceSpec => []EvidenceTypeOK
  <1>1. EvidenceInv => EvidenceTypeOK
    BY StoreHolds, DashboardHolds, KpiHolds, StripHolds, TimelineHolds, JourneyHolds, AppsHolds,
       MonitoringHolds, DiagnosisHolds, DiagnosticsHolds
       DEF EvidenceInv, EvidenceTypeOK
  <1> QED BY <1>1, EvidenceInvariant, PTL

\* A busy probe, a skeleton, a held button or a retry stands only while the query that ends
\* it is under way (the busy flags of the screens and their finally branches).
THEOREM WaitsEnd == EvidenceSpec => []WaitHasCause
  <1>1. EvidenceInv => WaitHasCause
    BY DiagnosticsHolds, JourneyHolds, MonitoringHolds, DashboardHolds, StripHolds
       DEF EvidenceInv, WaitHasCause
  <1> QED BY <1>1, EvidenceInvariant, PTL

\* A journey asked for alone and its session, stage and journey, conduit and numbered process,
\* history and process number, figure and snapshot, result and hop, sample and snapshot are
\* of each other, in any order of answers and steps.
THEOREM WhatIsShownBelongsTogether == EvidenceSpec => []ShownBelongsTogether
  <1>1. EvidenceInv => ShownBelongsTogether
    BY StoreHolds, JourneyHolds, DiagnosticsHolds, AppsHolds, MonitoringHolds, KpiHolds, StripHolds
       DEF EvidenceInv, ShownBelongsTogether
  <1> QED BY <1>1, EvidenceInvariant, PTL

\* Every diagnosis has evidence, nothing severe comes of simulated figures, silent hops are
\* no loss, the advice answers the diagnoses (inference.ts, anomaly.ts), and the summary
\* is of the diagnosis, or of the first finding when there is none (SummaryEngine.ts).
THEOREM ConclusionsHaveEvidence == EvidenceSpec => []ConclusionsAreEvidenced
  <1>1. EvidenceInv => ConclusionsAreEvidenced
    BY DiagnosisHolds, DashboardHolds DEF EvidenceInv, ConclusionsAreEvidenced
  <1> QED BY <1>1, EvidenceInvariant, PTL

\* A chosen event stays shown, a followed one is shown, evidence leads to its card, a refused
\* target is never sent, no card loses detail, every change is heard of, and no attribution
\* grows while its screen stays.
THEOREM TheReaderIsFollowed == EvidenceSpec => ReaderIsFollowed
  <1> DEFINE Leads == dash' # dash /\ board' = board => \A ref \in AllRefs :
                 HandleNavigateToEvidence(ref) \/ (Summary.ref = ref /\ HandleRecommendationClick) =>
                    IF TargetCard(ref) = {} THEN dash'.notice = ref /\ dash'.category = dash.category
                    ELSE \A c \in TargetCard(ref) : IsListed(c, dash'.category, dash'.search)
             Detailed == \A i \in DOMAIN cardFeed \cap DOMAIN cardFeed' :
                            /\ cardFeed'[i].lines >= cardFeed[i].lines
                            /\ cardFeed'[i].evidence >= cardFeed[i].evidence
             Heard == <<cardFeed, shownMonitor, samples, storeError>>' # <<cardFeed, shownMonitor, samples, storeError>>
                        => emissions' # emissions
  <1>1. EvidenceInv /\ EvidenceInv' /\ [EvidenceNext]_evidenceVars => [ChosenStays]_timelineVars
    BY ChosenIsKept DEF EvidenceInv
  <1>2. EvidenceInv /\ EvidenceInv' /\ [EvidenceNext]_evidenceVars => [FollowedShows]_timelineVars
    <2> SUFFICES ASSUME EvidenceInv, EvidenceInv', [EvidenceNext]_evidenceVars PROVE FollowedShows
      OBVIOUS
    <2>1. CASE reading = "timeline"
      BY <2>1, EvidenceStep, FollowedIsSeen DEF EvidenceInv
    <2>2. CASE reading # "timeline"
      <3>1. ~timeline'.mounted
        BY <2>2, EvidenceStep DEF EvidenceInv, OnlyTheReadIsMounted
      <3> QED BY <3>1 DEF FollowedShows
    <2> QED BY <2>1, <2>2
  <1>3. EvidenceInv => [Leads]_dashboardVars
    BY EvidenceLeads DEF EvidenceInv
  <1>4. EvidenceInv /\ [EvidenceNext]_evidenceVars => [RefusalKept]_monitoringVars
    BY EvidenceStep, MonitoringStep DEF EvidenceInv
  <1>5. EvidenceInv /\ [EvidenceNext]_evidenceVars => [Detailed]_storeVars /\ [Heard]_storeVars
    <2> SUFFICES ASSUME EvidenceInv, [EvidenceNext]_evidenceVars, ~UNCHANGED storeVars
                 PROVE  Detailed /\ Heard
      OBVIOUS
    <2>1. StoreStepped
      BY EvidenceStep, StoreStep DEF EvidenceInv
    <2> QED BY <2>1 DEF StoreStepped
  <1>6. EvidenceInv /\ [EvidenceNext]_evidenceVars => [AttributionWeakens]_appsVars
    <2> SUFFICES ASSUME EvidenceInv, [EvidenceNext]_evidenceVars PROVE AttributionWeakens
      OBVIOUS
    <2>1. CASE reading = "apps"
      BY <2>1, EvidenceStep, AppsStep DEF EvidenceInv
    <2>2. CASE reading # "apps"
      BY <2>2 DEF EvidenceInv, OnlyTheReadIsMounted, AttributionWeakens
    <2> QED BY <2>1, <2>2
  <1>7. EvidenceSpec => [][ChosenStays]_timelineVars /\ [][FollowedShows]_timelineVars
    BY <1>1, <1>2, EvidenceInvariant, PTL DEF EvidenceSpec
  <1>8. EvidenceSpec => [][Leads]_dashboardVars /\ [][RefusalKept]_monitoringVars
    BY <1>3, <1>4, EvidenceInvariant, PTL DEF EvidenceSpec
  <1>9. EvidenceSpec => [][Detailed]_storeVars /\ [][Heard]_storeVars
    BY <1>5, EvidenceInvariant, PTL DEF EvidenceSpec
  <1>10. EvidenceSpec => [][AttributionWeakens]_appsVars
    BY <1>6, EvidenceInvariant, PTL DEF EvidenceSpec
  <1> QED BY <1>7, <1>8, <1>9, <1>10
          DEF ReaderIsFollowed, ChosenStaysShown, FollowedIsShown, EvidenceLeadsToItsCard,
              RefusedTargetsStay, DetailNeverStripped, ChangesAreEmitted, AttributionOnlyWeakens,
              ChosenStays, FollowedShows, RefusalKept, AttributionWeakens
=============================================================================
