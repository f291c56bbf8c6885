----------------------------- MODULE ToolScreens -----------------------------
(***************************************************************************)
(* The screens from which the user acts on the engine: the capture control *)
(* of the header, the explorer, the replay, the recordings, the fleet, the *)
(* findings, the plugins, the comparison, the assistant, the sandbox, the  *)
(* export and the curriculum.                                              *)
(*                                                                         *)
(* App.tsx renders one screen at a time, by the activeScreen of its state, *)
(* and no two of these share state: what one does while it is open is      *)
(* independent of the others.  The variable "open" says which one is used; *)
(* the others stay as they were at first.                                  *)
(***************************************************************************)
EXTENDS CaptureControl, Explorer, Replay, Recordings, Fleet, Security, Plugins,
        Compare, Assistant, Sandbox, Export, Learn

CONSTANT UsedScreens   \* the screens looked at

VARIABLE open   \* the screen in use

ToolScreenNames == {"control", "explorer", "replay", "recordings", "fleet", "security",
                    "plugins", "compare", "assistant", "sandbox", "export", "learn"}

ASSUME UsedAreTools == UsedScreens \subseteq ToolScreenNames

toolVars == <<open, controlVars, explorerVars, replayVars, recordingsVars, fleetVars,
              securityVars, pluginsVars, compareVars, assistantVars, sandboxVars,
              exportVars, learnVars>>

\* Which of its first states a screen that is not used is in makes no difference.
Unused ==
    /\ open # "control" => native /\ engine = NoAdapter
    /\ open # "replay" => replayEngine = NoState
    /\ open # "recordings" => recEngine.saved = {}
    /\ open # "plugins" => pluginEngine.enabled = NothingListed.enabled
                            /\ pluginEngine.config = NothingListed.config
    /\ open # "security" => expectedStored.readable

ToolInit ==
    /\ open \in UsedScreens
    /\ ControlInit /\ ExplorerInit /\ ReplayInit /\ RecordingsInit /\ FleetInit
    /\ SecurityInit /\ PluginsInit /\ CompareInit /\ AssistantInit /\ SandboxInit
    /\ ExportInit /\ LearnInit
    /\ Unused

\* Only the variables of this screen change.
OnlyTool(name) ==
    /\ open = name /\ UNCHANGED open
    /\ IF name = "control" THEN TRUE ELSE UNCHANGED controlVars
    /\ IF name = "explorer" THEN TRUE ELSE UNCHANGED explorerVars
    /\ IF name = "replay" THEN TRUE ELSE UNCHANGED replayVars
    /\ IF name = "recordings" THEN TRUE ELSE UNCHANGED recordingsVars
    /\ IF name = "fleet" THEN TRUE ELSE UNCHANGED fleetVars
    /\ IF name = "security" THEN TRUE ELSE UNCHANGED securityVars
    /\ IF name = "plugins" THEN TRUE ELSE UNCHANGED pluginsVars
    /\ IF name = "compare" THEN TRUE ELSE UNCHANGED compareVars
    /\ IF name = "assistant" THEN TRUE ELSE UNCHANGED assistantVars
    /\ IF name = "sandbox" THEN TRUE ELSE UNCHANGED sandboxVars
    /\ IF name = "export" THEN TRUE ELSE UNCHANGED exportVars
    /\ IF name = "learn" THEN TRUE ELSE UNCHANGED learnVars

ToolNext ==
    \/ open = "control" /\ ControlNext /\ OnlyTool("control")
    \/ open = "explorer" /\ ExplorerNext /\ OnlyTool("explorer")
    \/ open = "replay" /\ ReplayNext /\ OnlyTool("replay")
    \/ open = "recordings" /\ RecordingsNext /\ OnlyTool("recordings")
    \/ open = "fleet" /\ FleetNext /\ OnlyTool("fleet")
    \/ open = "security" /\ SecurityNext /\ OnlyTool("security")
    \/ open = "plugins" /\ PluginsNext /\ OnlyTool("plugins")
    \/ open = "compare" /\ CompareNext /\ OnlyTool("compare")
    \/ open = "assistant" /\ AssistantNext /\ OnlyTool("assistant")
    \/ open = "sandbox" /\ SandboxNext /\ OnlyTool("sandbox")
    \/ open = "export" /\ ExportNext /\ OnlyTool("export")
    \/ open = "learn" /\ LearnNext /\ OnlyTool("learn")

\* Commands are executed and answered, the poll timer ticks and a debounce ends.
ToolFairness ==
    /\ WF_controlVars(open = "control" /\ ExecuteCommand)
    /\ WF_controlVars(open = "control" /\ CommandReturns)
    /\ WF_replayVars(open = "replay" /\ PollReplay)
    /\ WF_replayVars(open = "replay" /\ SendSeek)
    /\ WF_replayVars(open = "replay" /\ \E c \in replayCalls : ExecuteControl(c))
    /\ WF_replayVars(open = "replay" /\ \E c \in replayCalls : ServeState(c))
    /\ WF_replayVars(open = "replay" /\ \E c \in replayCalls : ShowState(c))

ToolSpec == ToolInit /\ [][ToolNext]_toolVars /\ ToolFairness

-----------------------------------------------------------------------------
ToolTypeOK ==
    /\ open \in ToolScreenNames
    /\ ControlTypeOK /\ ExplorerTypeOK /\ ReplayTypeOK /\ RecordingsTypeOK /\ FleetTypeOK
    /\ SecurityTypeOK /\ PluginsTypeOK /\ CompareTypeOK /\ AssistantTypeOK
    /\ SandboxTypeOK /\ ExportTypeOK /\ LearnTypeOK

\* Nothing is held for ever: a disabled button, a spinner, a skeleton, a thinking turn
\* or a toast stands only while the command, query or timer that ends it is under way,
\* through every order of answers, failures, retries and visits.
BusyHasCause ==
    /\ OneCommandAtATime /\ LoadingHasCause /\ BusyHasControl /\ BusyIsOneCommand
    /\ FleetWaitHasCause /\ BusyIsOneCall /\ ThinkingIsAsked /\ BusyHasQuestion
    /\ ToastWillGo /\ ExportWaitHasCause /\ HeldWhileJudged

\* What a screen shows is what it says it is: the capture that runs, the entries of the
\* term in the box, the recording under way, the engine's switches, the draft that would
\* be saved, the report of one pair, the packet of the stack, the choice being written.
ShownIsReal ==
    /\ TracksCapture /\ CacheIsOwn /\ EntriesMatchTerm /\ ShownRecordingIsReal
    /\ SwitchesAreReal /\ DraftIsWhatIsShown /\ OneFasterSession /\ ReportIsCoherent
    /\ BuildsWhatIsShown /\ DumpIsComplete /\ WritesWhatIsChosen

\* What the user marked stays marked until taken back, and a lesson is completed only by
\* an answer to its own exercise, however late texts and answers come.
WorkIsKept == MarksAreKept /\ CompletedByOwnExercise

\* The capture button always comes back, and a replay at rest is shown as it is.
ToolsSettle == ButtonComesBack /\ ReplayConverges
=============================================================================
