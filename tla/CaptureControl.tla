---------------------------- MODULE CaptureControl ----------------------------
(***************************************************************************)
(* The capture control of the header (App.tsx) over the typed transport    *)
(* (ipc.ts): the button that starts and stops the capture, and the         *)
(* indicator that says whether one is running.                             *)
(*                                                                         *)
(* The shell (src-tauri/src/main.rs, module CaptureShell) is reduced to    *)
(* whether a capture is registered, on which adapter, and whether          *)
(* anything was heard.  It refuses to start a running capture and to stop  *)
(* one that is not running; opening an adapter may fail, and a stop may    *)
(* time out or fail although it has taken the capture out.                 *)
(***************************************************************************)
EXTENDS Transport

CONSTANTS
    Adapters,     \* adapters; the default one included
    DefaultAdapter,
    MaxReloads    \* bound: the page is reloaded (or the shell remounted)

NoAdapter == "none"

ASSUME ControlConstants ==
    DefaultAdapter \in Adapters /\ NoAdapter \notin Adapters /\ MaxReloads \in Nat

VARIABLES
    native,   \* inTauri()
    shown,    \* running: what the button and the indicator say
    busy,     \* busyRef.current
    failure,  \* the code of the error shown, or "none"
    adapter,  \* ifaceId: the adapter selected
    health,   \* the capture-status probe: "asked", "served", "applied"
    probed,   \* its answer, from served to applied
    cmd,      \* the command the UI waits for
    late,     \* commands the UI gave up on and the shell still executes
    engine,   \* the adapter being captured, or NoAdapter
    heard,    \* frames were received, or an earlier capture left sessions
    blurred,  \* history: what made the indicator lose track, if anything
    reloads

controlVars == <<native, shown, busy, failure, adapter, health, probed, cmd, late, engine,
                 heard, blurred, reloads>>

NoCommand == [kind |-> "none", adapter |-> NoAdapter, reply |-> "none"]

ControlInit ==
    /\ native \in BOOLEAN
    /\ shown = FALSE /\ busy = FALSE /\ failure = "none"
    /\ adapter = DefaultAdapter
    /\ health = "asked" /\ probed = FALSE
    /\ cmd = NoCommand /\ late = {}
    /\ engine \in {NoAdapter, DefaultAdapter}
    /\ heard = FALSE
    /\ blurred = IF engine # NoAdapter THEN {"mounted_anew"} ELSE {}
    /\ reloads = 0

uiUnchanged == UNCHANGED <<native, shown, busy, failure, adapter, reloads>>
engineUnchanged == UNCHANGED <<engine, heard>>
probeUnchanged == UNCHANGED <<health, probed>>

\* checkBackendHealth(): over HTTP the bridge says whether a capture is registered; in
\* the desktop the UI asks for a snapshot, whose state is active only when something
\* was heard.  A stop that waits for its thread has taken the capture out meanwhile.
StopUnderWay == \E c \in late \cup {cmd} : c.kind = "stop" /\ c.reply = "none"

ServeHealth ==
    /\ health = "asked"
    /\ health' = "served"
    /\ \/ probed' = (engine # NoAdapter /\ (native => heard))
       \/ StopUnderWay /\ probed' = FALSE
    /\ blurred' = IF probed' = (engine # NoAdapter) THEN blurred
                  ELSE blurred \cup {IF native /\ ~heard THEN "standby" ELSE "raced"}
    /\ UNCHANGED <<cmd, late>> /\ uiUnchanged /\ engineUnchanged

ApplyHealth ==
    /\ health = "served"
    /\ health' = "applied"
    /\ shown' = probed /\ probed' = FALSE
    /\ UNCHANGED <<native, busy, failure, adapter, cmd, late, blurred, reloads>>
    /\ engineUnchanged

\* The backend cannot be reached: null, and the indicator stays as it is.
LoseHealth ==
    /\ health = "asked"
    /\ health' = "applied"
    /\ blurred' = IF engine # NoAdapter THEN blurred \cup {"lost"} ELSE blurred
    /\ UNCHANGED <<probed, cmd, late>> /\ uiUnchanged /\ engineUnchanged

\* The select is disabled while a capture is shown or a command is on its way.
SelectAdapter(a) ==
    /\ ~shown /\ ~busy
    /\ adapter' = a
    /\ UNCHANGED <<native, shown, busy, failure, cmd, late, blurred, reloads>>
    /\ probeUnchanged /\ engineUnchanged

Toggle ==
    /\ ~busy
    /\ busy' = TRUE
    /\ failure' = "none"
    /\ cmd' = IF shown THEN [kind |-> "stop", adapter |-> NoAdapter, reply |-> "none"]
                       ELSE [kind |-> "start", adapter |-> adapter, reply |-> "none"]
    /\ UNCHANGED <<native, shown, adapter, late, blurred, reloads>>
    /\ probeUnchanged /\ engineUnchanged

\* The shell executes a command: what the capture becomes, and the reply.  A stop is
\* refused with the capture left where it was (none runs, or the thread does not end in
\* time) or with the capture gone (its thread had panicked).
Execute(c, reply, after) ==
    \/ /\ c.kind = "start" /\ engine = NoAdapter
       /\ reply = "ok" /\ after = c.adapter
    \/ /\ c.kind = "start" /\ reply = "refused" /\ after = engine
    \/ /\ c.kind = "stop" /\ engine # NoAdapter
       /\ reply = "ok" /\ after = NoAdapter
    \/ /\ c.kind = "stop" /\ reply = "refused" /\ after \in {engine, NoAdapter}

\* What that means for the indicator: the probe's answer was about the moment before, or
\* the capture is over although its stop has failed.
Blurs(c, reply) ==
    (IF health = "served" /\ engine' # engine THEN {"raced"} ELSE {})
    \cup (IF c.kind = "stop" /\ reply = "refused" /\ engine' # engine THEN {"stop_failed"} ELSE {})

ExecuteCommand ==
    /\ cmd.kind # "none" /\ cmd.reply = "none"
    /\ \E reply \in {"ok", "refused"} :
          /\ Execute(cmd, reply, engine')
          /\ cmd' = [cmd EXCEPT !.reply = reply]
          /\ blurred' = blurred \cup Blurs(cmd, reply)
    /\ UNCHANGED <<late, heard>> /\ uiUnchanged /\ probeUnchanged

ExecuteLate(c) ==
    /\ c \in late
    /\ late' = late \ {c}
    /\ \E reply \in {"ok", "refused"} :
          Execute(c, reply, engine') /\ blurred' = blurred \cup Blurs(c, reply)
    /\ UNCHANGED <<heard, cmd>> /\ uiUnchanged /\ probeUnchanged

\* What the answer to a command makes of the indicator: a start that fails turns it off,
\* whatever the probe has said meanwhile, and a stop that fails leaves it.
Answered(reply) == IF reply = "ok" THEN cmd.kind = "start" ELSE shown /\ cmd.kind = "stop"
Overrules(reply) == IF reply # "ok" /\ cmd.kind = "start" /\ shown THEN {"overruled"} ELSE {}

\* Mutant: a refusal leaves the button held.
RefusalHolds ==
    /\ cmd.reply # "none"
    /\ cmd' = NoCommand
    /\ busy' = (cmd.reply # "ok")
    /\ shown' = Answered(cmd.reply)
    /\ failure' = IF cmd.reply = "ok" THEN "none" ELSE IpcErrorCode(cmd.reply)
    /\ blurred' = blurred \cup Overrules(cmd.reply)
    /\ UNCHANGED <<native, adapter, late, reloads>> /\ probeUnchanged /\ engineUnchanged

CommandReturns ==
    /\ cmd.reply # "none"
    /\ cmd' = NoCommand
    /\ busy' = FALSE
    /\ shown' = Answered(cmd.reply)
    /\ failure' = IF cmd.reply = "ok" THEN "none" ELSE IpcErrorCode(cmd.reply)
    /\ blurred' = blurred \cup Overrules(cmd.reply)
    /\ UNCHANGED <<native, adapter, late, reloads>> /\ probeUnchanged /\ engineUnchanged

\* Over HTTP the client gives up after COMMAND_TIMEOUT_MS, or the request does not
\* arrive; the shell may execute it all the same.
GiveUp ==
    /\ cmd.kind # "none"
    /\ \E reply \in Replies(native) \ {"ok", "refused"} :
          /\ failure' = IpcErrorCode(reply)
          /\ late' = IF reply = "aborted" /\ cmd.reply = "none" THEN late \cup {cmd} ELSE late
          /\ shown' = Answered(reply)
          /\ blurred' = blurred \cup Overrules(reply)
                           \cup (IF reply = "aborted" \/ cmd.reply # "none" THEN {"given_up"} ELSE {})
    /\ cmd' = NoCommand
    /\ busy' = FALSE
    /\ UNCHANGED <<native, adapter, reloads>> /\ probeUnchanged /\ engineUnchanged

Hear ==
    /\ engine # NoAdapter /\ ~heard
    /\ heard' = TRUE
    /\ UNCHANGED <<engine, cmd, late, blurred>> /\ uiUnchanged /\ probeUnchanged

\* The shell component mounts anew: everything it held is gone, the probe runs again.
\* The answers it waited for are ignored, the commands are still executed.
Remount ==
    /\ reloads < MaxReloads
    /\ reloads' = reloads + 1
    /\ shown' = FALSE /\ busy' = FALSE /\ failure' = "none"
    /\ adapter' = DefaultAdapter
    /\ health' = "asked" /\ probed' = FALSE
    /\ cmd' = NoCommand
    /\ late' = IF cmd.kind # "none" /\ cmd.reply = "none" THEN late \cup {cmd} ELSE late
    /\ blurred' = blurred \cup {"mounted_anew"}
                    \cup (IF cmd.kind # "none" THEN {"given_up"} ELSE {})
    /\ UNCHANGED native /\ engineUnchanged

ControlNext ==
    \/ ServeHealth \/ ApplyHealth \/ LoseHealth
    \/ \E a \in Adapters : SelectAdapter(a)
    \/ Toggle \/ ExecuteCommand \/ CommandReturns \/ GiveUp
    \/ \E c \in late : ExecuteLate(c)
    \/ Hear \/ Remount

ControlSpec == ControlInit /\ [][ControlNext]_controlVars
               /\ WF_controlVars(ExecuteCommand) /\ WF_controlVars(CommandReturns)
               /\ WF_controlVars(ServeHealth) /\ WF_controlVars(ApplyHealth)

-----------------------------------------------------------------------------
Progress == {"none", "ok", "refused"}
Commands == [kind : {"start"}, adapter : Adapters, reply : Progress]
            \cup [kind : {"stop"}, adapter : {NoAdapter}, reply : Progress]
Codes == {"BACKEND_ERROR", "TIMEOUT", "BACKEND_UNAVAILABLE", "INVALID_REQUEST"}

\* Why the indicator may be wrong.
Causes == {"standby", "raced", "lost", "given_up", "mounted_anew", "overruled", "stop_failed"}

ControlTypeOK ==
    /\ native \in BOOLEAN /\ shown \in BOOLEAN /\ busy \in BOOLEAN
    /\ failure \in Codes \cup {"none"}
    /\ adapter \in Adapters
    /\ health \in {"asked", "served", "applied"} /\ probed \in BOOLEAN
    /\ cmd \in Commands \cup {NoCommand} /\ late \subseteq Commands
    /\ engine \in Adapters \cup {NoAdapter} /\ heard \in BOOLEAN
    /\ blurred \subseteq Causes
    /\ reloads \in 0 .. MaxReloads

ControlAtRest == ~busy /\ health = "applied" /\ late = {}

\* The indicator loses track of the capture only in these ways: the status probe takes
\* a silent capture for none, is lost, or is answered before or during a command that it
\* then overrules; the UI gives up on a command; a start fails after the probe has turned the
\* indicator on, and turns it off again (App.tsx:146); or a stop fails although the capture
\* is over.  Without them, whenever nothing is under way, what it shows is what the shell
\* does, and (unless mounted while a capture ran) on the adapter it shows.
TracksCapture ==
    ControlAtRest =>
        /\ blurred \subseteq {"mounted_anew"} => shown = (engine # NoAdapter)
        /\ blurred = {} /\ shown => adapter = engine

\* Two commands of one control are never on their way at the same time, however fast
\* the button is pressed: the shell sees them one by one unless the UI gave one up.
OneCommandAtATime ==
    /\ busy = (cmd.kind # "none")
    /\ native /\ reloads = 0 => late = {}

\* The button always comes back, whatever happens to the command.
ButtonComesBack == busy ~> ~busy
=============================================================================
