-------------------------------- MODULE Plugins --------------------------------
(***************************************************************************)
(* The plugins screen (hooks/usePluginsController.ts and screens/Plugins): *)
(* a switch turns at once and turns back when the engine refuses, one      *)
(* command is under way at a time, and every completed command lists the   *)
(* plugins again.  The configuration form of one card is modelled; the     *)
(* forms of the others are like it.                                        *)
(***************************************************************************)
EXTENDS Integers

CONSTANTS
    PluginNames,
    Incompatible,  \* plugins built for another contract
    FormPlugin,    \* the card whose form is open
    Configs,       \* configurations that are JSON objects
    BadTexts,      \* texts that are no JSON
    InBrowser      \* over HTTP an answer may come too late; the desktop waits

ASSUME PluginsConstants ==
    /\ Incompatible \subseteq PluginNames /\ FormPlugin \in PluginNames
    /\ "null" \notin Configs \cup BadTexts /\ Configs \cap BadTexts = {}
    /\ InBrowser \in BOOLEAN

VARIABLES
    plugins,       \* what the mounted screen holds
    form,          \* the draft of the open form
    pluginCall,    \* the command under way: verb, plugin, argument, memory, stage
    pluginList,    \* the list query under way and its answer
    pluginEngine,  \* external: what is enabled, and the configuration
    strayCall,     \* a command of a screen that was left, not served yet
    doubt          \* history: something the screen cannot know of happened

pluginsVars == <<plugins, form, pluginCall, pluginList, pluginEngine, strayCall, doubt>>

Switch == {"on", "off"}
Other(switch) == IF switch = "on" THEN "off" ELSE "on"
NoPluginCall == [verb |-> "none", name |-> FormPlugin, arg |-> "none", before |-> "off", stage |-> "none"]
\* No plugin listed: the figures of the record mean nothing then.
NothingListed == [any |-> FALSE, enabled |-> [n \in PluginNames |-> "off"], config |-> CHOOSE c \in Configs : TRUE]
NoList == [for |-> "none", stage |-> "none", list |-> NothingListed]
AskedFor(for) == [for |-> for, stage |-> "asked", list |-> NothingListed]
PluginsFresh == [list |-> NothingListed, loaded |-> FALSE, busy |-> FALSE, notice |-> FALSE]
\* A form, just mounted, that shows the configuration c.
FormOf(c) == [data |-> c, text |-> c, error |-> FALSE, crashed |-> FALSE]

PluginsInit ==
    /\ pluginEngine \in [enabled : [PluginNames -> Switch], config : Configs]
    /\ plugins = PluginsFresh
    /\ form = FormOf(pluginEngine.config)
    /\ pluginCall = NoPluginCall /\ strayCall = NoPluginCall
    /\ pluginList = AskedFor("mount")
    /\ doubt = FALSE

HasCards == plugins.loaded /\ plugins.list.any

\* The buttons of a card and of its form.
PluginCard(n) ==
    LET busy == plugins.busy /\ pluginCall.name = n
    IN [toggle |-> ~busy /\ (n \notin Incompatible \/ plugins.list.enabled[n] = "on"),
        reset |-> ~busy,
        save |-> ~busy /\ ~form.error]

PluginsView ==
    IF ~plugins.loaded THEN "skeletons" ELSE IF HasCards THEN "cards" ELSE "empty"

\* togglePlugin, configurePlugin, resetPlugin: nothing while another is under way; a
\* switch turns before the engine is asked.
StartCall(verb, n, arg) ==
    /\ HasCards /\ ~form.crashed /\ ~plugins.busy
    /\ plugins' = [plugins EXCEPT !.notice = FALSE, !.busy = TRUE,
                                  !.list.enabled = IF verb = "toggle" THEN [@ EXCEPT ![n] = arg] ELSE @]
    /\ pluginCall' = [verb |-> verb, name |-> n, arg |-> arg,
                      before |-> plugins.list.enabled[n], stage |-> "asked"]
    /\ UNCHANGED <<form, pluginList, pluginEngine, strayCall, doubt>>

TogglePlugin(n) ==
    /\ HasCards /\ PluginCard(n).toggle
    /\ StartCall("toggle", n, Other(plugins.list.enabled[n]))

SavePlugin ==
    /\ HasCards /\ PluginCard(FormPlugin).save
    /\ StartCall("configure", FormPlugin, form.data)

ResetPlugin(default) ==
    /\ HasCards /\ PluginCard(FormPlugin).reset
    /\ StartCall("configure", FormPlugin, default)

\* The draft: a field, or the raw text, which is parsed on every key.
EditField(c) ==
    /\ HasCards /\ ~form.crashed
    /\ form' = FormOf(c)
    /\ UNCHANGED <<plugins, pluginCall, pluginList, pluginEngine, strayCall, doubt>>

\* "null" parses, and the next rendering asks it for its keys.
EditText(text) ==
    /\ HasCards /\ ~form.crashed
    /\ form' = IF text \in BadTexts THEN [form EXCEPT !.text = text, !.error = TRUE]
               ELSE [data |-> text, text |-> text, error |-> FALSE, crashed |-> text = "null"]
    /\ UNCHANGED <<plugins, pluginCall, pluginList, pluginEngine, strayCall, doubt>>

\* A file that is chosen: taken as it parses, or reported.
ImportFile(text) ==
    /\ HasCards /\ ~form.crashed
    /\ form' = IF text \in BadTexts THEN [form EXCEPT !.error = TRUE]
               ELSE [data |-> text, text |-> text, error |-> FALSE, crashed |-> text = "null"]
    /\ UNCHANGED <<plugins, pluginCall, pluginList, pluginEngine, strayCall, doubt>>

Served(call) ==
    IF call.verb = "toggle" THEN [pluginEngine EXCEPT !.enabled[call.name] = call.arg]
    ELSE IF call.arg \in Configs THEN [pluginEngine EXCEPT !.config = call.arg] ELSE pluginEngine

\* The engine does it or refuses; over HTTP the client may give up on what was done.
EngineServesPlugin ==
    /\ pluginCall.stage = "asked"
    /\ \/ /\ pluginEngine' = Served(pluginCall)
          /\ \/ pluginCall' = [pluginCall EXCEPT !.stage = "done"] /\ UNCHANGED doubt
             \/ InBrowser /\ pluginCall' = [pluginCall EXCEPT !.stage = "failed"] /\ doubt' = TRUE
       \/ pluginCall' = [pluginCall EXCEPT !.stage = "failed"] /\ UNCHANGED <<pluginEngine, doubt>>
    /\ UNCHANGED <<plugins, form, pluginList, strayCall>>

EngineServesStrayCall ==
    /\ strayCall.stage = "asked"
    /\ pluginEngine' \in {Served(strayCall), pluginEngine}
    /\ strayCall' = NoPluginCall
    /\ doubt' = TRUE
    /\ UNCHANGED <<plugins, form, pluginCall, pluginList>>

CallDone ==
    /\ pluginCall.stage = "done"
    /\ plugins' = [plugins EXCEPT !.notice = FALSE]
    /\ pluginList' = AskedFor("call")
    /\ pluginCall' = [pluginCall EXCEPT !.stage = "listing"]
    /\ UNCHANGED <<form, pluginEngine, strayCall, doubt>>

\* The rollback.
CallFailed ==
    /\ pluginCall.stage = "failed"
    /\ plugins' = [plugins EXCEPT !.notice = TRUE, !.busy = FALSE,
                     !.list.enabled = IF pluginCall.verb = "toggle"
                                      THEN [@ EXCEPT ![pluginCall.name] = pluginCall.before] ELSE @]
    /\ pluginCall' = NoPluginCall
    /\ UNCHANGED <<form, pluginList, pluginEngine, strayCall, doubt>>

EngineListsPlugins ==
    /\ pluginList.stage = "asked"
    /\ \/ /\ pluginList' = [pluginList EXCEPT !.stage = "ok", !.list =
              [any |-> TRUE, enabled |-> pluginEngine.enabled, config |-> pluginEngine.config]]
          /\ doubt' = FALSE
       \/ pluginList' = [pluginList EXCEPT !.stage = "failed"] /\ UNCHANGED doubt
    /\ UNCHANGED <<plugins, form, pluginCall, pluginEngine, strayCall>>

\* The effect on plugin.config: a list is new objects throughout, so every form shows the
\* listed configuration again, edits or not.  A form that stayed on the screen keeps the
\* error of a text that is no longer there.
FormShows(c) ==
    IF form.crashed THEN form ELSE [FormOf(c) EXCEPT !.error = plugins.list.any /\ form.error]

\* fetchPlugins, after its await.
PluginsListed ==
    LET ok == pluginList.stage = "ok"
    IN /\ pluginList.stage \in {"ok", "failed"}
       /\ plugins' = [plugins EXCEPT !.loaded = TRUE, !.notice = @ \/ ~ok,
                                     !.busy = @ /\ pluginList.for = "mount",
                                     !.list = pluginList.list]
       /\ form' = IF ok THEN FormShows(pluginList.list.config) ELSE form
       /\ pluginCall' = IF pluginList.for = "call" THEN NoPluginCall ELSE pluginCall
       /\ pluginList' = NoList
       /\ UNCHANGED <<pluginEngine, strayCall, doubt>>

DismissPluginNotice ==
    /\ plugins.notice
    /\ plugins' = [plugins EXCEPT !.notice = FALSE]
    /\ UNCHANGED <<form, pluginCall, pluginList, pluginEngine, strayCall, doubt>>

\* Another screen and back; also the way out of a crashed form.
LeavePlugins ==
    /\ pluginCall.stage # "asked" \/ strayCall.stage # "asked"
    /\ strayCall' = IF pluginCall.stage = "asked" THEN pluginCall ELSE strayCall
    /\ plugins' = PluginsFresh
    /\ form' = FormOf(pluginEngine.config)
    /\ pluginCall' = NoPluginCall
    /\ pluginList' = AskedFor("mount")
    /\ UNCHANGED <<pluginEngine, doubt>>

PluginsNext ==
    \/ \E n \in PluginNames : TogglePlugin(n)
    \/ SavePlugin \/ \E c \in Configs : ResetPlugin(c) \/ EditField(c)
    \/ \E text \in Configs \cup BadTexts \cup {"null"} : EditText(text) \/ ImportFile(text)
    \/ EngineServesPlugin \/ EngineServesStrayCall \/ CallDone \/ CallFailed
    \/ EngineListsPlugins \/ PluginsListed \/ DismissPluginNotice \/ LeavePlugins

-----------------------------------------------------------------------------
PluginsTypeOK ==
    /\ plugins.list \in [any : BOOLEAN, enabled : [PluginNames -> Switch], config : Configs]
    /\ <<plugins.loaded, plugins.busy, plugins.notice>> \in BOOLEAN \X BOOLEAN \X BOOLEAN
    /\ form.data \in Configs \cup {"null"} /\ form.text \in Configs \cup BadTexts \cup {"null"}
    /\ pluginCall.stage \in {"none", "asked", "done", "failed", "listing"}
    /\ pluginEngine \in [enabled : [PluginNames -> Switch], config : Configs]

\* Once nothing is under way, every switch stands as the engine has it, after any mix of
\* commands done and refused; except when an answer was lost, or a command of a screen
\* that was left was served after the list.
SwitchesAreReal ==
    HasCards /\ ~plugins.busy /\ pluginList = NoList /\ ~doubt
    => plugins.list.enabled = pluginEngine.enabled

\* The cards are held exactly while one command and the list it asks for are under way.
BusyIsOneCall == plugins.busy <=> pluginCall # NoPluginCall

\* What would be saved is what the text shows whenever saving is offered.
DraftIsWhatIsShown == ~form.error => form.text = form.data
=============================================================================
