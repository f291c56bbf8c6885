-------------------------------- MODULE Replay --------------------------------
(***************************************************************************)
(* The replay screen (hooks/useReplayController.ts, screens/Replay.tsx):   *)
(* optimistic transport controls over a replay the shell owns, polled all  *)
(* the while, with a debounced scrub bar.  The shell's controller          *)
(* (crates/netpulse-capture/src/replay.rs) is reduced to its state.        *)
(***************************************************************************)
EXTENDS Integers, FiniteSets

CONSTANTS
    Total,        \* position of the last frame
    Speeds,       \* playback speeds, in percent
    MaxCalls,     \* bound: requests of the screen in flight
    MaxRefused    \* bound: requests that fail

ASSUME ReplayConstants ==
    /\ Total \in Nat \ {0} /\ Speeds \subseteq Nat /\ Speeds # {}
    /\ MaxCalls \in Nat \ {0} /\ MaxRefused \in Nat

VARIABLES
    replay,        \* what the screen holds
    replayCalls,   \* its requests in flight
    replayEngine,  \* the shell's replay state
    refused        \* requests that failed

replayVars == <<replay, replayCalls, replayEngine, refused>>

States == [playing : BOOLEAN, position : 0 .. Total, speed : Speeds]
NoSeek == -1
NoState == [playing |-> FALSE, position |-> 0, speed |-> CHOOSE s \in Speeds : TRUE]

\* A request: a command first ("sent") and then the state ("asked"), or a poll, which
\* asks for the state alone; "served" holds the answer on its way back.
Call(kind, arg, stage) == [kind |-> kind, arg |-> arg, stage |-> stage, answer |-> NoState]
Poll0 == Call("poll", 0, "asked")

ReplayStatus ==
    IF ~replay.loaded THEN "loading"
    ELSE IF ~replay.known THEN "idle"
    ELSE IF replay.state.position >= Total THEN "completed"
    ELSE IF replay.state.playing THEN "playing" ELSE "paused"

\* viewModel: what the transport offers.
HasRecording == replay.known
CanPlay == HasRecording /\ ReplayStatus # "playing"
CanPause == HasRecording /\ ReplayStatus = "playing"

ReplayInit ==
    /\ replay = [loaded |-> FALSE, known |-> FALSE, state |-> NoState, busy |-> FALSE,
                 notice |-> FALSE, seekTo |-> NoSeek]
    /\ replayCalls = {Poll0}
    /\ replayEngine \in {s \in States : s.position = 0 /\ ~s.playing}
    /\ refused = 0

\* The interval, and the effect that runs when `playing` changes.
PollReplay ==
    /\ Cardinality(replayCalls) < MaxCalls
    /\ replay' = [replay EXCEPT !.notice = FALSE]
    /\ replayCalls' = replayCalls \cup {Poll0}
    /\ UNCHANGED <<replayEngine, refused>>

\* A transport control: the optimistic update, then the command.
Control(kind, arg, updated) ==
    /\ Cardinality(replayCalls) < MaxCalls
    /\ replay' = [replay EXCEPT !.notice = FALSE, !.busy = TRUE,
                                !.state = IF replay.known THEN updated ELSE @]
    /\ replayCalls' = replayCalls \cup {Call(kind, arg, "sent")}
    /\ UNCHANGED <<replayEngine, refused>>

\* The buttons wait for `busy`; the space bar and the right arrow do not.
Play == CanPlay /\ Control("play", 0, [replay.state EXCEPT !.playing = TRUE])
Pause == CanPause /\ Control("pause", 0, [replay.state EXCEPT !.playing = FALSE])
Step == Control("step", 0, replay.state)
SetSpeed(s) ==
    /\ HasRecording /\ ~replay.busy
    /\ Control("speed", s, [replay.state EXCEPT !.speed = s])

\* seek: the position moves at once; the command waits until the bar is at rest, and
\* only the last position is sent.
Seek(p) ==
    /\ HasRecording
    /\ replay' = [replay EXCEPT !.notice = FALSE, !.state.position = p, !.seekTo = p]
    /\ UNCHANGED <<replayCalls, replayEngine, refused>>

SendSeek ==
    /\ replay.seekTo # NoSeek
    /\ Cardinality(replayCalls) < MaxCalls
    /\ replay' = [replay EXCEPT !.seekTo = NoSeek]
    /\ replayCalls' = replayCalls \cup {Call("seek", replay.seekTo, "sent")}
    /\ UNCHANGED <<replayEngine, refused>>

\* The shell executes a command of the screen, which then asks for the state.
Executed(c) ==
    CASE c.kind = "play" -> [replayEngine EXCEPT !.playing = TRUE]
      [] c.kind = "pause" -> [replayEngine EXCEPT !.playing = FALSE]
      [] c.kind = "step" -> [replayEngine EXCEPT !.position = IF @ < Total THEN @ + 1 ELSE @]
      [] c.kind = "speed" -> [replayEngine EXCEPT !.speed = c.arg]
      [] c.kind = "seek" -> [replayEngine EXCEPT !.position = c.arg]

ExecuteControl(c) ==
    /\ c \in replayCalls /\ c.stage = "sent"
    /\ replayEngine' = Executed(c)
    /\ replayCalls' = (replayCalls \ {c}) \cup {[c EXCEPT !.stage = "asked"]}
    /\ replay' = [replay EXCEPT !.notice = FALSE]
    /\ UNCHANGED refused

ServeState(c) ==
    /\ c \in replayCalls /\ c.stage = "asked"
    /\ replayCalls' = (replayCalls \ {c})
                        \cup {[c EXCEPT !.stage = "served", !.answer = replayEngine]}
    /\ UNCHANGED <<replay, replayEngine, refused>>

\* fetchReplayState ends: the state is shown as it was served, and a control that
\* waited for it lets the buttons go.
Holds(kind) == kind \in {"play", "pause", "step", "speed"}
ShowState(c) ==
    /\ c \in replayCalls /\ c.stage = "served"
    /\ replayCalls' = replayCalls \ {c}
    /\ replay' = [replay EXCEPT !.loaded = TRUE, !.known = TRUE, !.state = c.answer,
                                !.busy = @ /\ ~Holds(c.kind)]
    /\ UNCHANGED <<replayEngine, refused>>

\* A request fails: a command leaves a notice (and takes `playing` back), the state
\* query also forgets the state.
FailCall(c) ==
    /\ c \in replayCalls /\ c.stage # "served" /\ refused < MaxRefused
    /\ refused' = refused + 1
    /\ replayCalls' = replayCalls \ {c}
    /\ replay' =
         IF c.stage = "sent"
         THEN [replay EXCEPT !.notice = TRUE, !.busy = @ /\ ~Holds(c.kind),
                             !.state.playing = @ /\ c.kind # "play"]
         ELSE [replay EXCEPT !.notice = TRUE, !.loaded = TRUE, !.known = FALSE,
                             !.state = NoState, !.busy = @ /\ ~Holds(c.kind)]
    /\ UNCHANGED replayEngine

ReplayNext ==
    \/ PollReplay \/ Play \/ Pause \/ Step \/ SendSeek
    \/ \E s \in Speeds : SetSpeed(s)
    \/ \E p \in 0 .. Total : Seek(p)
    \/ \E c \in replayCalls : ExecuteControl(c) \/ ServeState(c) \/ ShowState(c) \/ FailCall(c)

\* The timer ticks, the debounce ends, and what was asked is answered.
ReplayFairness ==
    /\ WF_replayVars(PollReplay)
    /\ WF_replayVars(SendSeek)
    /\ WF_replayVars(\E c \in replayCalls : ExecuteControl(c))
    /\ WF_replayVars(\E c \in replayCalls : ServeState(c))
    /\ WF_replayVars(\E c \in replayCalls : ShowState(c))

-----------------------------------------------------------------------------
ReplayTypeOK ==
    /\ replay \in [loaded : BOOLEAN, known : BOOLEAN, state : States, busy : BOOLEAN,
                   notice : BOOLEAN, seekTo : {NoSeek} \cup 0 .. Total]
    /\ \A c \in replayCalls :
          /\ c.kind \in {"poll", "play", "pause", "step", "speed", "seek"}
          /\ c.stage \in {"sent", "asked", "served"} /\ c.answer \in States
    /\ replayEngine \in States

\* The buttons are never left disabled: while `busy` is set, a control that will clear
\* it is in flight, however controls, polls, seeks and failures overlap.
BusyHasControl == replay.busy => \E c \in replayCalls : Holds(c.kind)

\* The optimistic updates never survive on their own: once the user and the replay are
\* at rest, the screen settles on the replay's state, whatever was answered late.
AtRest == replay.seekTo = NoSeek /\ \A c \in replayCalls : c.kind = "poll"
ReplayConverges ==
    <>[][UNCHANGED replayEngine /\ AtRest']_replayVars
        => <>[](replay.known => replay.state = replayEngine)
=============================================================================
