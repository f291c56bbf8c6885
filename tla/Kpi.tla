------------------------------------ MODULE Kpi ------------------------------------
(***************************************************************************)
(* The headline figures of the dashboard (Dashboard/useDashboardController,*)
(* kpiViewModels and healthViewModel).  A figure is rebuilt on every       *)
(* snapshot and thrown away again when it would look the same, so that the *)
(* card is not drawn anew: the earlier object is shown, with the peak and  *)
(* the average it had, as long as a few compared fields are equal.         *)
(***************************************************************************)
EXTENDS Sequences, Integers, FiniteSets

CONSTANTS
    Counts,       \* the values a figure takes
    MaxPoints,    \* how many points a sparkline shows (8 in the code)
    MaxKept       \* BOUND: how many points the store keeps

ASSUME KpiConstants == Counts \subseteq Nat /\ 0 \in Counts /\ MaxPoints \in Nat \ {0} /\ MaxKept \in Nat \ {0}

VARIABLES
    figures,      \* the store: the value, what else the card shows of it, its history
    memo          \* the objects kept and shown: the figure, the health

kpiVars == <<figures, memo>>

TelemetryStates == {"active", "stale"}
Maximum(S) == CHOOSE x \in S : \A y \in S : y <= x

\* The sum of a series, counted: point i stands for s[i] pairs.
SumOf(s) == Cardinality(UNION {{i} \X (1..s[i]) : i \in DOMAIN s})
Elements(s) == {s[i] : i \in DOMAIN s}
LastPoints(s, n) == SubSeq(s, IF Len(s) > n THEN Len(s) - n + 1 ELSE 1, Len(s))

\* sparklineHosts and its like: nothing until there are two points and one that is not zero.
SparklineOf(history) ==
    IF Len(history) > 1 /\ Elements(history) # {0} THEN LastPoints(history, MaxPoints) ELSE <<>>

\* areSparklinesEquivalent: the same points, or two flat lines at the same height.
AreSparklinesEquivalent(prev, next) ==
    CASE prev = <<>> -> Elements(next) \subseteq {0}
      [] next = <<>> -> Elements(prev) \subseteq {0}
      [] OTHER -> prev = next \/ (Elements(prev) = {prev[1]} /\ Elements(next) = {prev[1]})

\* What the card says: the value, the state, the peak and the average of the line and the value.
Peak(f, spark) == Maximum(Elements(spark) \cup {f.value})
Average(f, spark) == IF spark = <<>> THEN f.value ELSE (SumOf(spark) + Len(spark) \div 2) \div Len(spark)
KpiFor(f, spark) ==
    [value |-> f.value, telemetry |-> f.telemetry, language |-> f.language,
     peak |-> Peak(f, spark), average |-> Average(f, spark), spark |-> spark]

\* Mutant: the state is not among the fields compared.
StateForgotten(m, f) ==
    m.value = f.value /\ m.language = f.language
    /\ AreSparklinesEquivalent(m.spark, SparklineOf(f.history))

\* The fields compared with those of the object kept.
KpiUnchanged(m, f) ==
    /\ m.value = f.value /\ m.telemetry = f.telemetry /\ m.language = f.language
    /\ AreSparklinesEquivalent(m.spark, SparklineOf(f.history))

\* One pass of kpiViewModels: the kept object, or a new one on a line that is kept if it can be.
Shown(kept, f) ==
    LET spark == SparklineOf(f.history)
    IN IF kept # {} /\ KpiUnchanged(CHOOSE m \in kept : TRUE, f) THEN kept
       ELSE {[KpiFor(f, spark) EXCEPT
                !.spark = IF kept # {} /\ AreSparklinesEquivalent((CHOOSE m \in kept : TRUE).spark, spark)
                          THEN (CHOOSE m \in kept : TRUE).spark ELSE spark]}

\* healthViewModel, kept while the drops and every field of the subsystems are equal.
ShownHealth(kept, f) ==
    IF kept # {} /\ \A h \in kept : h.drops = f.drops /\ h.status = f.status THEN kept
    ELSE {[drops |-> f.drops, status |-> f.status]}

KpiInit ==
    /\ figures = [value |-> 0, telemetry |-> "stale", language |-> "en", history |-> <<>>,
                  drops |-> 0, status |-> "healthy"]
    /\ memo = [kpi |-> {}, health |-> {}]

KpisRendered(f) == memo' = [kpi |-> Shown(memo.kpi, f), health |-> ShownHealth(memo.health, f)]

\* A snapshot: the value, its point of the history, the drops and the health of a subsystem.
SnapshotFigures(value, telemetry, drops, status) ==
    LET f == [figures EXCEPT !.value = value, !.telemetry = telemetry, !.drops = drops,
                             !.status = status, !.history = LastPoints(Append(@, value), MaxKept)]
    IN figures' = f /\ KpisRendered(f)

\* The reader changes the language: the labels are made anew.
LanguageChanges ==
    LET f == [figures EXCEPT !.language = IF @ = "en" THEN "es" ELSE "en"]
    IN figures' = f /\ KpisRendered(f)

KpiNext ==
    \/ \E v \in Counts, t \in TelemetryStates, d \in {0, 1}, s \in {"healthy", "degraded"} :
         SnapshotFigures(v, t, d, s)
    \/ LanguageChanges

-----------------------------------------------------------------------------------
KpiTypeOK ==
    /\ figures.value \in Counts /\ figures.telemetry \in TelemetryStates
    /\ Len(figures.history) <= MaxKept
    /\ Cardinality(memo.kpi) <= 1 /\ Cardinality(memo.health) <= 1

\* A card shown from memory reads as one made now would: the same value, state, language, peak and
\* average, and a line that looks the same (Dashboard/useDashboardController.ts, kpiViewModels).
MemoizedKpiIsFresh ==
    \A m \in memo.kpi : LET now == KpiFor(figures, SparklineOf(figures.history)) IN
        /\ [m EXCEPT !.spark = now.spark] = now
        /\ AreSparklinesEquivalent(m.spark, now.spark)

\* The health shown is that of the snapshot: packets the capture dropped are told beside it and
\* never change the state the engine gave a subsystem, nor does memory hold either back
\* (useDashboardController.ts, "capture_drops ... MUST NOT modify ... SubsystemStatus.status").
HealthIsOfTheSnapshot ==
    \A h \in memo.health : h.drops = figures.drops /\ h.status = figures.status
=============================================================================
