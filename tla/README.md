# NetPulse: a TLA+ verification project

NetPulse is an observe-only network analyzer: a Rust engine captures frames,
reconstructs flows and sessions, keeps them in a bounded in-memory store with a
write-behind SQLite mirror, and shows them in a Tauri/React desktop shell. This
directory models the parts in which order, concurrency and failure decide
whether the recorded history is right and whether what the user sees is true,
checks the models with TLC, and proves the invariants of the core with TLAPS.

Paths below are relative to the repository (`src/` in `PROJECT.json`).

## 1. Inventory

### 1.1 How the parts interact

```
 capture thread (live_loop)                 callers (Tauri commands, HTTP bridge)
   source -> decode -> FlowEngine             start / stop / depth / query / shutdown
        |   commit tick (~1 s)                     |                 ^
        v                                          v                 |
   LivePipeline ---- under the store's lock ---- AppState: capture, app_handle, store
        |                                          |                 |
        v                                          |                 | ipc.ts: deadlines,
   CaptureStore (bounded, in memory) <-------------+                 | refusals, lost replies
        |  enqueue (never blocks)       flush / shutdown (block)     |
        v                                                            |
   DurableLog channel -> writer thread -> SQLite (WAL)      UI: App.tsx, client store,
                             -> hydrates the next process      data pump, one hook a screen
```

### 1.2 The engine and the shell

| Component | State | Operations | What is hard | What makes it correct |
|---|---|---|---|---|
| Durable mirror (`netpulse-storage/durable.rs`) | bounded channel, atomics, join handle, SQLite file | `open`, `enqueue`, `flush`, `shutdown`, `Drop`; writer thread | interleaving of counters and writer, full queue, crash between apply and checkpoint, late replies | a successful flush is a promise; a clean stop drops nothing; a loss is counted; calls return |
| Capture store (`capture_store.rs`) | flows, sessions, events, findings, hosts, resolutions, cached newest time | inserts, eviction, queries, hydration | eviction in the middle of commits, evidence that disappears, restart with more than the limits | evidence resolves or is marked expired; no orphans; bounds hold; the cache is never behind |
| Repository (`repository.rs`, `migration.rs`) | tables of the database | upserts, transactional session write, snapshot | ids of two captures meet in one table | what is kept can be read back whole |
| Flow table (`netpulse-flow/table.rs`, `state.rs`) | records by (5-tuple, epoch), epochs, id counter | `ingest`, `tick`, `snapshot_dirty_flows`, drain | port reuse, records that end between ticks, events handed over once | ids are fresh; a flow is neither split nor revived; nothing is lost or doubled |
| Sessions (`session.rs`) | lookups, links, groups, dirty groups, session ids | `observe`, snapshot, `finalize` | ids assigned by ticks and by the end | one session per lookup, one link per flow, none lost at the end |
| Live pipeline (`netpulse-engine/pipeline.rs`) | the engine, decode state | `ingest_batch`, `commit_to_store`, `finish`, windows | order of evictions, snapshots and sessions in one commit | the store's view is complete and final when it says so |
| Shell lifecycle (`src-tauri/src/main.rs`) | `AppState` with its mutexes, capture control, thread | start, stop, shutdown, `live_loop` | lock order, time-outs, panics, two callers | stop returns, and Ok means committed; a running capture keeps its control, with one exception; the UI is told the truth |
| Names of addresses (`netpulse-flow/resolution.rs`, hint worker of `main.rs`) | bounded table, cached hints, one flag, a channel, refresh threads, the store's names | `observe`, `prune`, refresh, commit, `finish` | two sources overwrite each other; a worker that panics or outlives its capture | one worker at most and never none for good; no name of either source is lost by a commit |
| Commands and queries (`src-tauri/src/ipc`) | none of their own | `SetDepth`, `MonitorSnapshot`, ... | read, then emit | no snapshot claims life after the end |
| HTTP bridge, capture service, codecs, platform, probes, decoding, attribution, intelligence, narratives, AI | sockets, channels, caches, or none | pure functions and I/O | parsing, back-pressure, text | see section 8 |

### 1.3 The user interface

The UI is one thread. What makes it hard is what it waits for: every query and
command of `ipc.ts` is a promise whose answer may come late, after another
answer, after the screen was left, or never. A hook that keeps a flag, a cache
or a selection across such a promise can be left with a state nobody clears.

| Part | State | What is hard |
|---|---|---|
| Data pump (`useLiveData.ts`, `DisclosureContext.tsx`) | the refresh in flight, `isRefreshing`, `pendingRefresh`, `activeDepth`, listeners | polls, triggers and depth changes that meet a refresh under way; effects that end with a run or a registration pending |
| Client store (`state/store.ts`) | cards, snapshot, samples, error, subscribers | shallow and rich cards in any order, bounded lists |
| Capture control (`App.tsx`, `ipc.ts`) | `capturing`, `captureBusy`, the adapter | time-outs in the client, late execution, a health probe that overtakes, a remount |
| Explorer, replay, recordings, fleet, security, plugins, comparison, assistant, sandbox, export, curriculum | one hook each | answers that overtake each other, optimistic updates and their roll-back, marks in `localStorage`, timers nobody cancels |
| Dashboard, its figures and its strip of hops | filters, memoized figures, probes | a figure kept from memory, two probes under one flag |
| Timeline, journey, applications and the navigation between them | selection, followed evidence, caches | a feed that changes under the reader; a target that outlives its screen |
| Monitoring, diagnostics and the diagnostic engine | histories, paging, run numbers, six probes | an old run's answers, process ids that are used again, conclusions from failed or simulated probes |

`PROJECT.json` lists every component with its sources and status, and every
hazard at its line. A hazard without a property has a note.

## 2. Order of work

Done, in this order: `DurableLog` and its abstraction `WriteBehind`; the flow
engine; the shell; the store; then the UI: the data pump, the twelve places
where the user acts on the engine, the ten parts with which the user reads what
was observed; then the proofs of the flow engine, the sessions, the shell, the
store and the data pump, of what eviction retains and of the shell's locks, and
of the screens; then the names of addresses.

What would come next: the capture service (worker, channel of 128, stream,
client) once the shell uses it; the probe gate; the map (`packages/viz`), whose state is a camera,
a hovered marker and tables of addresses. Proofs: the names of addresses,
and what else section 5 lists as only model-checked and is not liveness.

## 3. Modules and how they correspond to the code

Each definition's lines are in `PROJECT.json` under `map`.

### DurableLog, WriteBehind, DurableLogProofs

`DurableLog` has one action per step a thread can be interrupted after. A
caller's `enqueue` is two: the `try_send`, then the counter (`CountQueued`) or
the second half of `record_failure`; the counter that lags behind the channel
is the reason `CountersReconcile` is stated for quiet states. `flush` sends its
barrier, waits, times out or hears the reply, and clears the error text.
`shutdown` sets the flag, sends Stop, takes the handle if it is still there, and
joins. The writer connects, verifies, runs, drains, makes the last checkpoint
and closes. `Crash` may happen at any time: SQLite keeps a prefix of the applied
records that covers the last synced one.

A record is the number of its acceptance, so "everything accepted before this
call" is a number (`mark`), and order in the channel is order of numbers. The
reply channel belongs to one call: `ticket` tells the calls of a client apart,
so a late reply of a call that timed out is lost, as in the code.

`WriteBehind` is the promise without channel, threads and counters.
`DurableLog` implements it under `stored <- db`, `lossy <- failed > 0`.

### TcpLifecycle, FlowEngine, MCFlowEngine, FlowEngineProofs, FlowSessionProofs

`Ingest` is `FlowEngine::ingest`: `Shard::ingest` (which record, state, event,
dirty flag) and `SessionReconstructor::observe` (lookups, links) in one step.
`Commit` is `LivePipeline::commit_to_store`, all of it: closed flows are
finalized and removed, dirty ones are snapshot and their events taken, dirty
groups become sessions. `Finish` drains the rest. Both hold the store's lock, so
they are one step. `stored` and `stored_sessions` are what the store was told.
`TcpLifecycle` translates `state.rs` over four flags, for all 9 states.

### CaptureShell, MCCaptureShell, CaptureShellProofs

Callers and capture threads with the three mutexes that can make one wait for
another (`capture`, `app_handle`, `store`). A section under one lock is a step;
a section that asks for a second lock is several, and the variable `holder` says
who has what. `start_capture` holds `capture` until its thread has opened the
source; `stop_capture` takes the control out, waits at most three seconds (a
time-out is a step that may happen at any time), puts the control back if the
thread did not end, and makes the last snapshot under `app_handle` and `store`.
A thread opens or fails, reads, commits, emits, may stall anywhere, panic, or
end by itself. `shutdown` is `stop` followed by the end of the mirror
(`durable`), after which a commit answers Ok and keeps nothing.

### CaptureStore, CaptureStoreProofs

`mem` is the in-memory store, `db` the database, and every insert is one step
on both: the mirror is represented by what `WriteBehind` promises. Eviction is
part of every commit, as in the code. A flow carries the capture its row's key
comes from and the capture its counters come from, because the upsert keeps the
first and replaces the second. A restart hydrates `mem` from `db`.

`insert_finding` has no production caller in the repository; it is modelled
because eviction and hydration deal with findings.

### NameHints

A name is a text and the source it was seen at (`HostNames`). `Observe` and
`Record` are the name table of `resolution.rs`, pruned when it is full. `hints` is what one capture's `LiveLoopContext` holds (the cache, whether
a refresh is due, `hint_in_flight`, the channel), `workers` the refresh threads
alive, whichever capture spawned them. A commit is `rebuild_and_commit` in the
code's order, with the threads running in between: `DrainHintChannel`,
`RefreshDnsHints` (spawn, or fail to), `CommitPipeline` (the table's names
replace, then the cache is merged). `Finish` is `LivePipeline::finish`, which
replaces once more. A worker sends and ends, or ends without sending: `HintGuard`
gives the flag back in both cases. What the machine answers is any map.

### LiveData, LiveDataProofs

The effect of `useLiveData` with everything it leaves behind: the refresh in
flight is a record that says whose it is (the current effect's, an ended one's,
or `triggerLiveRefresh`'s, which nothing cancels), at which depth and range, and
which of its two queries has been answered. `Refresh` is `refresh()` with its
early return, `FinishRun` the part after `allSettled` with the `finally` block.
Depth commands are executed by the shell in any order, events carry the depth
the shell is at and no range.

### ToolScreens, ToolScreensProofs: twelve places where the user acts on the engine

`Transport` is `ipc.ts`: deadlines, refusals, and that a command whose client
gave up may still be executed. `CaptureControl`, `Explorer`, `Replay`,
`Recordings`, `Fleet`, `Security`, `Plugins`, `Compare`, `Assistant`, `Sandbox`,
`Export` and `Learn` have one module per controller hook. Each has one variable
for what the mounted hook holds (its `useState` and `useRef` values), one for
what outlives it (cache, `localStorage`), one for the requests under way and one
for the engine. A request is asked, served by the engine and applied by the
client in separate steps, so answers overtake each other and arrive after the
screen has gone; a hook's effect is part of the action that changes what it
depends on. `ToolScreens` composes them: `App.tsx` shows one screen at a time
and these share no state, so `open` says which is in use.

### EvidenceScreens, EvidenceScreensProofs: ten parts with which the user reads what was observed

`ClientStore`, `Dashboard`, `Kpi`, `ProbeStrip`, `Timeline`, `Journey`, `Apps`,
`Monitoring`, `Diagnosis` and `Diagnostics`. `Navigation` is shared by timeline,
journey and applications: a target chosen on one screen outlives it, and the
menu changes the screen without dropping the target. `Diagnosis` has one step
per probe of the pipeline and the rules as operators over the observations.
`EvidenceScreens` composes them under `reading`, as `ToolScreens` does.

A snapshot of `Apps` is one of `EngineSnapshots`: `aggregate_processes` looks a
pid up once for a snapshot, so a process has one name in it, though another one
in the next. The searches' empty texts and the sum of a series are written so
that they can be reasoned about: `AnyApp` and its like, `SumOf` counts.

## 4. Runs

| Run | Shows | Bounds | States |
|---|---|---|---|
| `durable_serial` | all promises, the counters and the liveness of the mirror with one caller at a time, as the shell uses it | channel of 2, 3 records, 2 flushes, 1 refusal | 71 k |
| `flow_table` | ids, epochs, dirty flags, event hand-over and ends, for every order of segments and ticks | 1 TCP and 1 UDP conversation, 2 flows, 1 event per flow, times 0..1 | 26 k |
| `flow_sessions` | sessions and links through ticks and the end | 2 conversations, 2 names, 3 flows, times 0..1 | 306 k |
| `shell_serial` | start, stop and shutdown return, whatever the thread does | 1 caller, 3 captures | 105 k |
| `shell_shared` | one stopper per thread, Ok means committed, the last snapshot is true, a running capture loses its control in one way only | 2 callers, 2 captures | 1.2 M |
| `shell_put_back` | expected violation, section 6: that one way | 2 callers, 2 captures | |
| `shell_deadlock` | expected violation, section 6 | 2 callers, 2 captures | |
| `store_retention` | eviction, findings, hydration, bounds, and that what is lost is the earliest | 2 flows and 1 session retained, 3 flow ids, 2 captures | 234 k |
| `names_hints` | one refresh thread, never none for good; commits keep both sources' names; the table's names are all stored at the end | 3 addresses, a table of 2, one text at 3 sources, 1 hinted address, 2 captures, 2 refresh threads | 290 k |
| `ui_live` | the pump is honest, ended runs are silent, and it settles | 2 depths, 2 ranges, 1 failure, 1 old listener | 461 k |
| `ui_tools` | nothing held without a cause, what is shown is real, no work lost; the capture button comes back and the replay screen settles | two calls per screen, two or three of each thing | 435 k |
| `ui_evidence` | waits have causes, what stands together belongs together, conclusions have evidence, the reader's choices are kept | feeds of 2 cards, 4 events, 2 sessions, 2 hops, 4 probe runs, 2 followed flows | 507 k |

Why the bounds are enough. A channel of two is full, half full and empty, and
three records make it refuse one while a barrier is in it; a second flush of the
same caller meets the late reply of the first. Two flows on one 5-tuple are a
reuse; both a reuse that finds the ended record in the table and one that finds
it evicted occur. Three captures let a put-back control meet a later capture
and that one a further one. Retention of two flows with a watermark of one and
three ids makes evictions, overwrites of evicted ids by the next capture, and
restarts with more rows than the limit. Time has two values because only
"within" and "past" an interval are told apart. Event presence is fixed per flow
(`Eventful`), because whether an earlier flow had any is all that eviction sees.

A name table of two with three addresses prunes, and may prune the hinted
address or one that is above it; a second capture can meet a refresh thread of
the first that has not answered.

On the screens two calls that may overlap are what a flag, a cache or an order
can get wrong; a third (three listings of the fleet, three turns of the
assistant) lets one that was overtaken meet one that was asked anew. Values are
chosen to differ exactly where the code looks: two events share a time and a
headline, two browsers share a name, one host is in two status words, two
findings share kind and evidence, the search `"A "` is the same term as `"a"`
but the box holds another text. Four probe runs let a cleared run's answers
arrive in a later one.

Each property of each passing run has a mutant in `PROJECT.json`: a plausible
bug in a mapped definition under which the run fails.

`CHECK_DEADLOCK FALSE` is set where the system may stop: the mirror is closed or
has crashed, the capture has ended, a screen is at rest with its bounds used up,
the last capture of the bound is over, and `shell_shared` and `shell_put_back`, whose
callers can block each other (section 6).

## 5. Fairness and proofs

### Fairness

* `DurableLog!FairSpec`: a call in progress goes on, a wait with a time-out ends
  (threads are scheduled, and `recv_timeout` has a limit), and the writer takes
  its steps: SQLite answers. No fairness is given to crashes, failures or new calls.
  In particular nothing says that the writer succeeds.
* `FlowEngine!FairSpec`: weak fairness of `Commit`: the live loop commits every
  tick as long as the capture runs. None on ingest or the end.
* `CaptureShell!CallsProgress`: the steps of a call are taken and time-outs
  expire; **no** fairness for the capture threads, so stop and shutdown are
  shown to return even if the thread hangs for ever. `FairSpec` adds that the
  source opens or fails and that a stop flag is seen; it is used only for the
  violation `shell_deadlock`, where it makes the counterexample stronger: two
  callers wait for each other although everything else makes progress.
* `LiveData!LiveFairness`: the poll timer ticks, each query is answered (well or
  badly), settled promises run their `finally`, registrations resolve. None for
  the user, the events and the shell's execution of depth commands; the last is
  why `FeedSettlesOnDepth` assumes that the shell has taken the depth over. A
  native query has no deadline (`invoke` has none), so that it is answered is an
  assumption about the engine: a query that hangs leaves `isRefreshing` set.
* `ToolScreens!ToolFairness`: a command is executed and answered, the replay's
  poll ticks and its calls are served and shown, a debounce ends. In a browser a
  command has a deadline (`Transport`); in the shell that it returns is what
  `CallsReturn` shows of `CaptureShell` with one caller.

### Proved with TLAPS

For all values of the constants that the assumptions of the modules allow. Each
invariant proved is one that TLC checks on a small instance first.

| Module | Theorems | The inductive invariant, and why the property alone is not enough |
|---|---|---|
| `DurableLogProofs` | `TypeCorrect`, `Inductive`, `FlushPromise`, `Implements`, `CountersAlwaysReconcile`, `NothingLostSilently` | `IInv`, below; `LedgerInv` and `LossInv` for the last two |
| `FlowEngineProofs` | `FlowInvariant`, `FlowsKeepTheirIdentity`, `EndStaysFinal`, `DeliveryInvariant`, `EventsReachTheStoreOnce` | `FlowInv` adds the types of the table to the identity of flows: a fresh id is fresh because all ids are within `1 .. next_flow_id`. `DeliveryInv` adds that what the store has of a flow followed by what its record holds counts up to what the flow has produced. |
| `FlowSessionProofs` | `SessionInvariant`, `SessionsStaySound`, `FinishLosesNothing`, `FlowTypes` | `SessionInv` adds that links and groups agree, that no two lookups share a number, that a stored session is under the number of its lookup, and that a stored flow is live or final. It rests on `DeliveryInv` for which flows are stored after a commit. |
| `CaptureShellProofs` | `ShellInvariant`, `ShellTypes`, `StopperIsAlone`, `StopCommits`, `LastSnapshotStaysTrue`, `ControlIsAccounted` | `ShellInv` adds which captures a control may name, in which phases a caller has one, and that a thread past its last commit has nothing left. `LiveHasCause` says who will still correct a live snapshot: a capture that is active or panicked, the one that is registered, or a caller in the middle of a stop. `AccountInv` says where the control of a thread that lives is (registered, with one caller, or under the one a timed-out stop has put over it) and, of two threads that live, which one has been told to stop. |
| `CaptureStoreProofs` | `StoreInvariant`, `EvidenceAlwaysResolves`, `HydrationStaysWhole`, `RetentionInvariant`, `StoreTypes`, `EvictionStaysClean`, `RetentionStaysBounded`, `RetentionStaysFair` | `StoreInv` relates memory and database: memory is within the database, each is sound by itself, and the engine's flows have rows, so what is upserted finds its links. `RetentionInv` adds the types and that memory and engine agree on the first time of a flow both have; that a commit keeps within the limits and loses only the earliest flows follows from the ranks of the flows. |
| `LiveDataProofs` | `LiveInvariant`, `LiveTypes`, `RefreshStaysHonest`, `EndedRunStaysSilent` | the type and `RefreshIsHonest` are inductive together |
| `EvidenceScreensProofs` | `EvidenceInvariant`, `EvidenceTypes`, `WaitsEnd`, `WhatIsShownBelongsTogether`, `ConclusionsHaveEvidence`, `TheReaderIsFollowed` | `EvidenceInv`: one invariant per part, below |
| `ToolScreensProofs` | `ToolInvariant`, `ToolTypes`, `NothingIsHeld`, `WhatIsShownIsReal`, `MarksAndLessonsAreKept` | `ToolInv`: one invariant per screen, below |

`IInv` of the mirror: `PromiseKept` speaks of the database and of past flushes,
and nothing in it says why the *next* flush will be honest. `IInv` adds that (a)
the channel holds exactly the records accepted and not yet attempted, in order;
(b) a barrier stands behind all records accepted before its flush began and,
unless it is an old call's, carries the mark of the call that waits; (c) while
nothing has failed, all attempted records are in the database, and synced ones
always are; (d) an Ok that can still be heard is for a synced mark. When a
barrier reaches the head, (a) and (b) give that all it covers was attempted
(`BarrierAtFront`), (c) that it is in the database if the checkpoint may say Ok,
and the checkpoint makes it synced; a crash removes only what lies after the
synced record.

The counters need a ledger: `CountersReconcile` speaks of an empty channel and
idle callers, so `LedgerInv` says at every moment that records counted as queued
and callers that have not counted theirs yet are within the accepted ones, and
that what was attempted was applied or has failed. `LossInv`, for
`NothingLostSilently`, adds that nothing follows a Stop in the channel, that the
drain leaves nothing unattempted, and that the barrier a flush waits for is the
last command, so nothing can fail between its Ok and the moment the flush clears
the last error. The last part, and with it the theorem, holds for one caller
(`OneCaller`), which the shell's store mutex provides: with two, a second thread
can have its record accepted behind the first one's drain, and a flush can clear
the error of a record that failed after its barrier.

Eviction keeps the newest flows down to a watermark. A flow's rank is the number
of flows not older than it; that two flows have different ranks, and that a
finite set has a flow of every rank up to its size, is shown without induction
over sets: a least counterexample among the naturals exists because `<` on them
is well founded (`WFMin`), and taking it away gives a smaller one.
`SurplusIsEarliest` says that what eviction takes comes before what it leaves, which is
at least the watermark: the flows taken have different ranks below the surplus, so
there are no more of them than that.

`ToolInv` has one invariant per screen, because what a screen shows at rest says
nothing of the answers still to come. Where the property alone is not inductive,
what is added is what each answer will bring: `IndicatorFollows` and
`AdapterFollows` say that the capture indicator lags the shell by the one answer
on its way, as long as none of the causes in `blurred` has occurred;
`SwitchesFollow` says how the switches of the plugins differ from the engine's
at each stage of a command, so that the roll-back of a refused one restores
them; `OneCommandListing` and the last conjunct of `RecordingsInv` say the same
of the recordings; `ExplorerInv` says that an answer not overtaken is for the
term in the box; `CompareInv` ties every verdict given to the pair it is of, and
`FasterEitherWay` makes two verdicts of one pair agree. `OnlyTool` gives that a step of the application
is a step of one screen and none of the others (`ToolStep`), so the invariants
hold together.

`EvidenceInv` is built the same way, from one invariant per part, and was checked
by TLC on the states of `ui_evidence` before it was proved. What is added to the
properties: `KpiInv` says that a remembered figure differs from one made now at
most in a line that `areSparklinesEquivalent` takes for the same, and that such
lines have one peak and one average (a flat line of n points of height v has the
sum nv, so the average is v, rounded or not); `DiagnosisInv` that each probe is
observed once and by an earlier step of the pipeline, so that a rule finds what
it looks for; `DiagnosticsInv` that a run has one query at most, a cancelled one
none, and that what is busy is the current run; `MonitorWaits` that a probe's
answer is told from an earlier visit's by the number of the visit; `JourneyInv`
that no query without a session is on its way; `AppsInv` that the target of the
screen has been handled, or is not listed yet (`TargetHandled`).

Three of them need a fact about data that is proved without induction over it: a
finite set of events has a first and a last one in the order of the list, the
diagnoses found have a place each in the order of their confidences (`InOrder`),
and the sum of a flat line is a product. The first two take a least number as
above, the third counts a set of pairs.

Timeline, journey and applications share `nav`. A step of one of them may change
it under the other two, and their invariants speak of it; they hold because a
screen that is not looked at is not mounted (`OnlyTheReadIsMounted`,
`NavigationOfOthers`), and what an unmounted screen keeps does not depend on the
target.

`TheReaderIsFollowed` is about steps: each of its seven parts follows from the
invariant before and after a step of the part it speaks of, and from the absence
of a step of it otherwise.

The proofs have one lemma per action, and one per operator several actions use:
`DeliveredFact` says what a commit writes, `NumberingFact` and `ToldFact` what a
numbering of sessions gives, `RecordOfPacket` which record a packet belongs to.
Assumptions: the `ASSUME`s of the modules, which TLC evaluates in their runs.
`FlowEngine` assumes finitely many names, so that a set of them has a size;
`CaptureControl` that no adapter is called as the absence of one; `Compare` that
0, the empty field of the form, is among the session ids; `Sandbox` that a stack
has room for a layer; `Navigation` that the four screens evidence leads to are
among the screens; `Timeline` that ids and times are numbers. `NothingLostSilently` is about one caller
(`OneCaller`), which the store's mutex makes of all.

### Only model-checked

* Liveness and everything under fairness, out of the prover's reach:
  `EverythingEnds`, `ClosedIsRecorded`, `CallsReturn`, `LiveSettles` and
  `ToolsSettle`. Every other property of a passing run but those of `names_hints` is stated
  by a theorem.
* The names of addresses (`names_hints`).
* What a recursive definition or a fold computes for every input: induction over
  data has no prover here. Where a model counts by the size of a set instead
  (`HexDigits` of `Sandbox`), the proof counts with it.
* That the previews under way stay within their bound (`MaxPreviews`): their
  number is a sum over the choices. Their type is proved.
* What no model says cannot be proved either: sections 7 and 8.

## 6. Disagreements between the code and what it says

Two have a run.

* **Lock order** (`shell_deadlock`, `StopReturns`). A stop asks for `capture` at
  `main.rs:713` while it holds `app_handle` and `store`; a start holds `capture`
  when it asks for `app_handle` at `main.rs:371`. With two callers both wait for
  ever, and with the store's lock held every query does too.
* **A lost control** (`shell_put_back`, `ControlKept`). A stop that timed out puts
  its control back over the control of a capture that was started meanwhile
  (`main.rs:700`). The newer thread runs on and no command can stop it, although
  `main.rs:99` calls the slot the "handle to the running live capture, if any".
  `ControlAccounted` shows, and `ControlIsAccounted` proves for any number of
  callers, that a control is lost in no other way.

The others were met while modelling; the models follow the code.

1. Names at the end of a capture: `LiveLoopContext::finish` commits, which merges
   the machine's names, and then `LivePipeline::finish` replaces the names of
   every address in the table (`pipeline.rs:376`), so those of the hosts file and
   of the resolver cache are lost in memory and in the mirror. `names.rs:18` says
   that the shell applies them "after each rebuild".
2. An unanswered SYN is never abandoned: nothing reads `SYN_ABANDON_NANOS`
   (`table.rs:23`) and no step enters `TcpState::Abandoned`, although
   `state.rs:49` counts that state among the ends.
3. The mirror does not keep the full observed history that
   `capture_store.rs:429` promises: each capture numbers its flows from 1, and
   the upsert overwrites the rows of the one before (`repository.rs:703`).
4. `evict_oldest_flows` orders flows by the clock of their own capture. After a
   restart or in a second capture the flow just committed has the least time and
   is the first to be evicted (`capture_store.rs:436`), although `:430` speaks of
   a "recent window". `LosesEarliest` states what does hold.
5. `ResolutionTable::prune` is to remove the "oldest entries" (`resolution.rs:76`);
   it removes the lowest addresses (`resolution.rs:79`).
6. The default window can hide the running capture: captures' clocks start at
   zero, the cached newest time does not (`pipeline.rs:417`, `pipeline.rs:455`).

## 7. Known gaps of the code that no property covers

The code does not have these properties; a model of them would only restate
that. Those a caller is most likely to meet are in the hazard list as well.

Engine and shell:

* Mirror: the time-out of a flush does not limit its wait for room
  (`durable.rs:276`). A second thread may enqueue into a mirror that is past its
  drain (`durable.rs:422`), and may have its failure's text erased by a flush
  (`durable.rs:282`). Every tick queues the whole name table again
  (`pipeline.rs:310`).
* Flows: a 5-tuple reused without a captured end continues the old record
  (`table.rs:120`). An epoch is used again after an eviction (`table.rs:125`). A
  connection may be linked to a lookup that came after it (`session.rs:87`).
* Shell: a capture whose source closed still counts as running (`main.rs:1339`).
  A commit after shutdown answers Ok without a mirror (`capture_store.rs:186`).
  `MonitorSnapshot` says Active before the first packet (`query.rs:71`), and
  `received` and `dropped` never fall between captures (`main.rs:1174`). A start
  holds `capture` while the source opens (`main.rs:400`), and a poisoned store
  lock skips commits in silence (`main.rs:1149`).
* Store: the event cap is per call (`capture_store.rs:328`). A limit of one has
  a watermark of zero. Names are replaced without a transaction
  (`repository.rs:828`).
* Capture daemon: it cannot end while its channel is full (`daemon.rs:150`), and
  looks at its stop flag between batches only (`daemon.rs:115`).
* `SessionDiffEngine::compare` answers constant figures for every pair, and the
  shell refuses to record and never has a replay (`main.rs:753`): the screens
  for both are modelled over the libraries they are written for.

User interface:

* Data pump: snapshot events carry no time range and replace the chosen one's
  every second; the map's rejection of stale sequences has no effect, because
  the number is given at ingestion. A native query that hangs stops the polls.
* Capture control: a silent running capture is reported as not running by the
  native health check. A start that is refused or times out writes "not running"
  over whatever the probe has said meanwhile (`App.tsx:146`), also when it was
  refused because one runs. After a stop that failed although it had taken the
  control (a panicked thread, `main.rs:692`) the indicator stays at "running", and
  each further stop is refused until the shell mounts anew.
* Explorer: a late answer replaces the results of a newer search until that one
  answers; the cache keeps each under its own term. Recordings: that a recording
  is under way is forgotten on leaving. Export: a success notice becomes an error
  when a later preview fails, and a late preview of another choice is shown, so
  that under `full_payload` it may say that no payloads leave.
* Fleet: `"inactive"` contains `"active"`, and `"error, ready"` contains
  `"ready"`; both are shown as online, and listed below the failed. Plugins: the
  list fetched after a command resets unsaved drafts but not the error of the text
  they held, so that Save stays disabled without a cause (`PluginConfigForm.tsx:22`),
  and `null` as raw JSON breaks the form. Sandbox:
  `resetStack` is offered nowhere.
* Curriculum: a late text lands on another lesson, and the step index is kept
  across lessons. Diagnosis: `validateAndNormalizeTarget` strips the scheme, so
  `isExplicitUrl` is never true.
* Timeline: two events with one time and headline share a key, so "next" sticks;
  a followed target overrides the reader's choice whenever the feed changes and
  survives the menu. Journey: journeys asked for while another is on its way are
  not told apart, so the last to land is shown whichever was wanted
  (`useJourneyController.ts:136`); a refetch asks for the session of its closure, an error stays
  beside a good journey.
* Applications: a flow followed a second time stays closed: after following 2,
  closing it, following 3 that is not listed and then 2 again, the handled
  target is still 2 (`Apps.tsx:33`), so `FollowedFlowIsOpen` speaks of the time
  until the reader opens or closes something. The bucket of nobody
  lists, besides its own, the conduits of a process named like it or inside it
  (`useAppsController.ts:156`); the comment that `captureSessionId` changes on a
  restart is not kept by any caller, so the effect that waits for it never runs;
  the cache is never shown, `resolveFlowDetails` invents ports and round-trip
  times. Monitoring: histories are kept by process number alone, so a number given
  to another process between two snapshots keeps the old points
  (`useMonitoringController.ts:133`); a drawer keeps an old status, a custom target survives
  snapshots, and the retry of an old range overwrites the newer one's.
* Dashboard: beside a diagnosis the summary passes over the findings of the feed,
  whatever they are (`SummaryEngine.ts:53`); a recommendation without evidence does not clear the search; the
  card explanation calls a TLS finding "encrypted and private. No action
  needed." Probe strip: another hop's answer releases the button, a late failure
  is shown under the inspected hop, and each snapshot replaces a typed target.

## 8. Not modelled, and why

Parsing, rendering, scores, text, configuration and message types have no order
to get wrong; they are covered by the repository's unit, property and fuzz
tests. Metrics are left out of `FlowEngine` because nothing else depends on
them. Hosts and resolutions are left out of `CaptureStore`: eviction does not
touch them and hydration takes them one by one (`NameHints` has the resolutions). Inside one commit the store's lock is held, so
its parts are not interleaved; between commits everything is. `stats`, `depth`
and `correlator` are taken alone or under the store's lock and cannot add a wait
to those modelled. The clock is monotonic within a capture. Sharding is left
out: a key always selects the same shard. The relation of two writers to one
database file (a second process) is not considered: the shell opens one.

The capture service is not used by the shell yet; the shedding controller is
consulted by no running code; the HTTP bridge's requests are the callers of
`CaptureShell`. Of the UI, the map and the charts (`packages/viz`) draw what
they are given and classify addresses from tables, the right rail shows what
other parts hold, and `packages/components`, `contract` and `i18n` are widgets,
generated types and texts.

## 9. Running

```
tlc -workers 2 -config MCFlowEngine_table.cfg MCFlowEngine
tlapm FlowSessionProofs.tla
```

The configuration of a run is named after its module. Any run needs less than
five minutes with two workers. The proofs need about a quarter of
an hour together, half of it for `EvidenceScreensProofs`.
