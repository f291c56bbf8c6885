------------------------------- MODULE Diagnostics -------------------------------
(***************************************************************************)
(* The diagnostics screen (hooks/useDiagnosticsController.ts,              *)
(* screens/Diagnostics).  Three single probes and the deep analysis, whose *)
(* six queries go one after the other, share one run number: starting,     *)
(* clearing and leaving raise it, and what a query of an earlier run       *)
(* brings is dropped.  Nothing stops the queries themselves.               *)
(***************************************************************************)
EXTENDS Integers, FiniteSets

CONSTANTS
    MaxRuns,      \* bound: how often the run number is raised while the screen is mounted
    Targets       \* what can be typed; those outside ValidTargets are refused
CONSTANT ValidTargets

ASSUME DiagnosticsConstants == 
    MaxRuns \in Nat \ {0} /\ ValidTargets \subseteq Targets /\ ValidTargets # {}

VARIABLES
    diag,         \* what the mounted screen holds
    run,          \* pipelineRunIdRef and cancelRef
    probing,      \* the queries with the engine: of which probe, run and step
    clearedAt     \* history: the run number when the results were last cleared

diagnosticsVars == <<diag, run, probing, clearedAt>>

SingleProbes == {"ping", "traceroute", "bufferbloat"}
LastStep == 6
IdleProbe == [status |-> "idle", run |-> 0]
NoDeepSession == [any |-> FALSE, run |-> 0, status |-> "none", step |-> 0]
DiagFresh == [target |-> CHOOSE t \in ValidTargets : TRUE,
              probes |-> [p \in SingleProbes |-> IdleProbe],
              session |-> NoDeepSession, stage |-> 0, deepBusy |-> FALSE, notice |-> FALSE]

DiagnosticsInit ==
    /\ diag = DiagFresh
    /\ run = [id |-> 0, cancelled |-> FALSE]
    /\ probing = {}
    /\ clearedAt = 0

IsAnyBusy == diag.deepBusy \/ \E p \in SingleProbes : diag.probes[p].status = "running"
HasAnyResults == diag.session.any \/ \E p \in SingleProbes : diag.probes[p].status = "success"

\* DeepDiagnosticCard: a running session shows its stage, a finished one its verdict; the
\* steps before the stage are ticked off.
DeepCard ==
    [banner |-> IF diag.session.status = "running" THEN "analyzing" ELSE "verdict",
     ticked |-> IF diag.session.status = "completed" THEN LastStep
                ELSE IF diag.stage > 0 THEN diag.stage - 1 ELSE 0]

DiagnosticsView ==
    [start |-> ~IsAnyBusy, clear |-> HasAnyResults,
     empty |-> ~HasAnyResults /\ ~IsAnyBusy,
     deep |-> IF diag.session.any THEN "card" ELSE IF diag.deepBusy THEN "skeleton" ELSE "nothing",
     cards |-> {p \in SingleProbes : diag.probes[p].status = "success"}]

TypeTarget(t) ==
    /\ t # diag.target
    /\ diag' = [diag EXCEPT !.target = t]
    /\ UNCHANGED <<run, probing, clearedAt>>

RefuseTarget ==
    /\ DiagnosticsView.start /\ diag.target \notin ValidTargets
    /\ diag' = [diag EXCEPT !.notice = TRUE]
    /\ UNCHANGED <<run, probing, clearedAt>>

StartRun(kind, screen) ==
    /\ DiagnosticsView.start /\ diag.target \in ValidTargets /\ run.id < MaxRuns
    /\ run' = [id |-> run.id + 1, cancelled |-> FALSE]
    /\ probing' = probing \cup {[kind |-> kind, run |-> run.id + 1, step |-> 1]}
    /\ diag' = [screen EXCEPT !.notice = FALSE]
    /\ UNCHANGED clearedAt

\* runPing, runTraceroute, runBufferbloat, up to their await.
RunProbe(p) == StartRun(p, [diag EXCEPT !.probes[p] = [status |-> "running", run |-> run.id + 1]])

\* runDeepDiagnostics, up to the first query of the pipeline: the session before stays in
\* hook until the progress of the new one replaces it, which is at once.
RunDeep ==
    StartRun("deep", [diag EXCEPT !.deepBusy = TRUE, !.stage = 1,
                         !.session = [any |-> TRUE, run |-> run.id + 1, status |-> "running", step |-> 1]])

IsStale(q) == run.cancelled \/ q.run # run.id

\* A single probe ends.
ProbeEnded(q, ok) ==
    /\ q \in probing /\ q.kind # "deep"
    /\ probing' = probing \ {q}
    /\ diag' = IF IsStale(q) THEN diag
               ELSE [diag EXCEPT !.probes[q.kind] = [status |-> IF ok THEN "success" ELSE "error", run |-> q.run],
                                 !.notice = @ \/ ~ok]
    /\ UNCHANGED <<run, clearedAt>>

\* A step of the pipeline ends, however it ended: the next one, unless the run is stale.
StepEnded(q) ==
    /\ q \in probing /\ q.kind = "deep" /\ q.step < LastStep
    /\ IF IsStale(q)
       THEN probing' = probing \ {q} /\ UNCHANGED diag
       ELSE /\ probing' = (probing \ {q}) \cup {[q EXCEPT !.step = @ + 1]}
            /\ diag' = [diag EXCEPT !.stage = q.step + 1, !.session.step = q.step + 1, !.session.run = q.run]
    /\ UNCHANGED <<run, clearedAt>>

\* The last step ends: the verdict, and the end of the busy time.
DeepEnded(q) ==
    /\ q \in probing /\ q.kind = "deep" /\ q.step = LastStep
    /\ probing' = probing \ {q}
    /\ diag' = IF IsStale(q) THEN diag
               ELSE [diag EXCEPT !.session = [any |-> TRUE, run |-> q.run, status |-> "completed", step |-> LastStep],
                                 !.stage = 0, !.deepBusy = FALSE]
    /\ UNCHANGED <<run, clearedAt>>

ClearResults ==
    /\ DiagnosticsView.clear /\ run.id < MaxRuns
    /\ run' = [id |-> run.id + 1, cancelled |-> TRUE]
    /\ diag' = [DiagFresh EXCEPT !.target = diag.target]
    /\ clearedAt' = run.id + 1
    /\ UNCHANGED probing

DismissDiagNotice ==
    /\ diag.notice
    /\ diag' = [diag EXCEPT !.notice = FALSE]
    /\ UNCHANGED <<run, probing, clearedAt>>

\* What the screen left behind finds its references gone.
LeaveDiagnostics == diag' = DiagFresh /\ run' = [id |-> 0, cancelled |-> FALSE] /\ probing' = {} /\ clearedAt' = 0

DiagnosticsNext ==
    \/ \E t \in Targets : TypeTarget(t)
    \/ \E p \in SingleProbes : RunProbe(p)
    \/ \E q \in probing : StepEnded(q) \/ DeepEnded(q) \/ \E ok \in BOOLEAN : ProbeEnded(q, ok)
    \/ RefuseTarget \/ RunDeep \/ ClearResults \/ DismissDiagNotice \/ LeaveDiagnostics

-----------------------------------------------------------------------------
DiagnosticsTypeOK ==
    /\ diag.target \in Targets /\ diag.stage \in 0 .. LastStep
    /\ \A p \in SingleProbes : diag.probes[p].status \in {"idle", "running", "success", "error"}
    /\ diag.session.status \in {"none", "running", "completed"}
    /\ run.id \in 0 .. MaxRuns /\ clearedAt \in 0 .. MaxRuns
    /\ \A q \in probing : q.kind \in SingleProbes \cup {"deep"} /\ q.run \in 1 .. MaxRuns

\* However often the results were cleared and runs started again: the screen is busy
\* exactly while a query of the current run is with the engine, and there is only one.
BusyIsTheCurrentRun ==
    /\ IsAnyBusy <=> \E q \in probing : q.run = run.id
    /\ \A q, r \in probing : q.run = run.id /\ r.run = run.id => q = r

\* Nothing that was asked before the results were cleared ever comes back to the screen.
ClearedStaysCleared ==
    /\ diag.session.any => diag.session.run > clearedAt
    /\ \A p \in SingleProbes : diag.probes[p].status # "idle" => diag.probes[p].run > clearedAt

\* The steps ticked off are the steps that ended: the stage shown is the one its query is at.
StageIsTheQuery ==
    diag.deepBusy =>
        \E q \in probing : /\ q.kind = "deep" /\ q.run = diag.session.run
                           /\ q.step = diag.stage /\ DeepCard.ticked = q.step - 1
=============================================================================
