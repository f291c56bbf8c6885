------------------------------ MODULE Recordings ------------------------------
(***************************************************************************)
(* The recordings screen (hooks/useRecordingsController.ts and             *)
(* screens/Recordings): it lists what the engine has saved and starts and  *)
(* stops a recording.  The hook learns what the engine does only from the  *)
(* replies to its own commands, and forgets it whenever the user leaves.   *)
(***************************************************************************)
EXTENDS Integers, FiniteSets

CONSTANTS
    Saved,         \* what can be recorded: [level, payloads] records
    MaxListings    \* bound: list queries in flight for the mounted screen

PrivacyLevels == {"metadata_only", "headers", "full_payload"}

ASSUME RecordingsConstants ==
    /\ Saved # {} /\ Saved \subseteq [level : PrivacyLevels, payloads : BOOLEAN]
    /\ MaxListings \in Nat \ {0}

VARIABLES
    recs,         \* what the mounted screen holds
    listings,     \* its list queries: for what, whether answered, and the list answered
    recCommand,   \* the command of the mounted screen: its verb and its stage
    strayCommand, \* a command of a screen that was left and is not served yet
    recEngine     \* external: is the engine recording, and what has it saved

recordingsVars == <<recs, listings, recCommand, strayCommand, recEngine>>

Asked(for) == [for |-> for, stage |-> "asked", list |-> {}]
Idle == [verb |-> "none", stage |-> "none"]
RecFresh == [list |-> {}, recording |-> FALSE, filter |-> "all",
             loaded |-> FALSE, busy |-> FALSE, notice |-> FALSE]

\* fetchRecordings, up to its await.
RecFetch(screen) ==
    /\ Cardinality(listings) < MaxListings
    /\ recs' = [screen EXCEPT !.notice = FALSE]

RecordingsInit ==
    /\ recs = RecFresh
    /\ listings = {Asked("mount")}
    /\ recCommand = Idle /\ strayCommand = Idle
    /\ recEngine \in [recording : {FALSE}, saved : SUBSET Saved]

\* One card: the privacy badge, the payload warning.
RecordingCard(r) == [badge |-> r.level, warns |-> r.payloads]

\* The summary above the list.
RecSummary ==
    [total |-> Cardinality(recs.list),
     payload |-> Cardinality({r \in recs.list : r.payloads}),
     safe |-> Cardinality({r \in recs.list : ~r.payloads})]

FilteredRecordings == {r \in recs.list : recs.filter \in {"all", r.level}}

\* What is on the screen: three buttons and the body below them.
RecordingsView ==
    [start |-> ~recs.busy /\ ~recs.recording,
     stop |-> ~recs.busy /\ recs.recording,
     emptyStart |-> recs.loaded /\ RecSummary.total = 0 /\ ~recs.busy,
     cards |-> IF recs.loaded THEN {RecordingCard(r) : r \in FilteredRecordings} ELSE {}]

SetPrivacyFilter(level) ==
    /\ recs.loaded /\ RecSummary.total > 0
    /\ recs' = [recs EXCEPT !.filter = level]
    /\ UNCHANGED <<listings, recCommand, strayCommand, recEngine>>

DismissRecNotice ==
    /\ recs.notice
    /\ recs' = [recs EXCEPT !.notice = FALSE]
    /\ UNCHANGED <<listings, recCommand, strayCommand, recEngine>>

\* startRecording and stopRecording, up to the await of the command.
PressRecord(verb) ==
    /\ \/ verb = "start" /\ (RecordingsView.start \/ RecordingsView.emptyStart)
       \/ verb = "stop" /\ RecordingsView.stop
    /\ recs' = [recs EXCEPT !.notice = FALSE, !.busy = TRUE]
    /\ recCommand' = [verb |-> verb, stage |-> "asked"]
    /\ UNCHANGED <<listings, strayCommand, recEngine>>

\* The engine does what a command says, or refuses it: a second start, a stop without
\* a recording, or anything at all in a build whose engine cannot record.
Obeys(verb) ==
    /\ recEngine.recording = (verb = "stop")
    /\ \/ verb = "start" /\ recEngine' = [recEngine EXCEPT !.recording = TRUE]
       \/ /\ verb = "stop"
          /\ \E r \in Saved : recEngine' = [recording |-> FALSE, saved |-> recEngine.saved \cup {r}]

EngineRecords ==
    /\ recCommand.stage = "asked"
    /\ \/ Obeys(recCommand.verb) /\ recCommand' = [recCommand EXCEPT !.stage = "ok"]
       \/ UNCHANGED recEngine /\ recCommand' = [recCommand EXCEPT !.stage = "refused"]
    /\ UNCHANGED <<recs, listings, strayCommand>>

EngineServesStray ==
    /\ strayCommand.stage = "asked"
    /\ Obeys(strayCommand.verb) \/ UNCHANGED recEngine
    /\ strayCommand' = [strayCommand EXCEPT !.stage = "served"]
    /\ UNCHANGED <<recs, listings, recCommand>>

\* The command was done: the flag turns and the list is fetched again, still busy.
RecordDone ==
    /\ recCommand.stage = "ok"
    /\ RecFetch([recs EXCEPT !.recording = (recCommand.verb = "start")])
    /\ listings' = listings \cup {Asked("command")}
    /\ recCommand' = [recCommand EXCEPT !.stage = "listing"]
    /\ UNCHANGED <<strayCommand, recEngine>>

RecordRefused ==
    /\ recCommand.stage = "refused"
    /\ recs' = [recs EXCEPT !.notice = TRUE, !.busy = FALSE]
    /\ recCommand' = Idle
    /\ UNCHANGED <<listings, strayCommand, recEngine>>

EngineLists ==
    /\ \E q \in listings :
          /\ q.stage = "asked"
          /\ \/ listings' = (listings \ {q}) \cup {[q EXCEPT !.stage = "ok", !.list = recEngine.saved]}
             \/ \E s \in {"other", "failed"} :
                   listings' = (listings \ {q}) \cup {[q EXCEPT !.stage = s]}
    /\ UNCHANGED <<recs, recCommand, strayCommand, recEngine>>

\* fetchRecordings, after its await; the command that awaits it ends its busy time.
RecListed(q) ==
    /\ q \in listings /\ q.stage # "asked"
    /\ listings' = listings \ {q}
    /\ recs' = [recs EXCEPT !.list = q.list,
                            !.notice = @ \/ q.stage = "failed",
                            !.loaded = TRUE,
                            !.busy = @ /\ q.for = "mount"]
    /\ recCommand' = IF q.for = "command" THEN Idle ELSE recCommand
    /\ UNCHANGED <<strayCommand, recEngine>>

\* The user goes to another screen and comes back: the hook starts afresh.
LeaveRecordings ==
    /\ strayCommand.stage # "asked" \/ recCommand.stage # "asked"
    /\ recs' = RecFresh
    /\ listings' = {Asked("mount")}
    /\ strayCommand' = IF recCommand.stage = "asked" THEN recCommand ELSE strayCommand
    /\ recCommand' = Idle
    /\ UNCHANGED recEngine

RecordingsSystem ==
    \/ EngineRecords \/ EngineServesStray \/ RecordDone \/ RecordRefused
    \/ EngineLists \/ \E q \in listings : RecListed(q)

RecordingsNext ==
    \/ \E level \in {"all"} \cup PrivacyLevels : SetPrivacyFilter(level)
    \/ DismissRecNotice \/ LeaveRecordings
    \/ \E verb \in {"start", "stop"} : PressRecord(verb)
    \/ RecordingsSystem

-----------------------------------------------------------------------------
RecordingsTypeOK ==
    /\ recs \in [list : SUBSET Saved, recording : BOOLEAN, filter : {"all"} \cup PrivacyLevels,
                 loaded : BOOLEAN, busy : BOOLEAN, notice : BOOLEAN]
    /\ \A q \in listings : q.list \subseteq Saved /\ q.stage \in {"asked", "ok", "other", "failed"}
    /\ recCommand.stage \in {"none", "asked", "ok", "refused", "listing"}
    /\ strayCommand.stage \in {"none", "asked", "served"}
    /\ recEngine \in [recording : BOOLEAN, saved : SUBSET Saved]

\* "Recording" is shown only while the engine records, through every order of commands,
\* refusals and answers, as long as no command of a screen that was left came between.
ShownRecordingIsReal ==
    recs.recording /\ recCommand.stage \in {"none", "listing"} /\ strayCommand = Idle
    => recEngine.recording

\* The buttons are held exactly while a command or the list it waits for is under way:
\* no refusal or failure leaves them held, and none releases them early.
BusyIsOneCommand == recs.busy <=> recCommand # Idle
=============================================================================
