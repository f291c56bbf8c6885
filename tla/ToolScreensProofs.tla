--------------------------- MODULE ToolScreensProofs ---------------------------
(***************************************************************************)
(* What holds of the screens the user acts from, for every adapter, term,  *)
(* recording, host, finding, plugin, session, layer, format and lesson,    *)
(* and any number of searches, calls, synchronisations and visits.         *)
(*                                                                         *)
(* Each screen has an invariant of its own, <Screen>Inv, that relates what *)
(* it shows to what it waits for and to what the engine does.  A screen in *)
(* use takes its own steps and leaves the variables of the others alone    *)
(* (OnlyTool), so the invariants hold together: ToolInv.                   *)
(***************************************************************************)
EXTENDS ToolScreens, TLAPS, FiniteSetTheorems, SequenceTheorems

-----------------------------------------------------------------------------
\* The capture control (App.tsx).

\* The button, the command and the capture: what is given up is marked as such, and
\* while nothing blurs the indicator it lags the capture by one answer at most.
CommandIsHeld ==
    /\ cmd.kind = "none" => cmd = NoCommand
    /\ cmd.kind # "none" => cmd \in Commands
    /\ cmd.kind = "start" => cmd.adapter = adapter
    /\ late # {} => "given_up" \in blurred

\* While nothing blurs the indicator it says what the capture was before the answer that
\* is on its way.
IndicatorFollows ==
    blurred \subseteq {"mounted_anew"} =>
        /\ cmd.reply = "ok" => (cmd.kind = "start" <=> engine # NoAdapter)
        /\ shown /\ cmd.reply # "ok" => engine # NoAdapter
        /\ health = "applied" /\ cmd.reply # "ok" => shown = (engine # NoAdapter)
        /\ health = "served" => probed = (engine # NoAdapter)

\* A capture the control started runs on the adapter selected.
AdapterFollows ==
    blurred = {} /\ engine # NoAdapter =>
        /\ adapter = engine
        /\ shown \/ (cmd.kind = "start" /\ cmd.reply = "ok")

\* What the control shows, what it waits for and what the shell does, together.
ControlInv ==
    ControlTypeOK /\ OneCommandAtATime /\ CommandIsHeld /\ IndicatorFollows /\ AdapterFollows

\* Every reply is reported by a code, and a command is never the absence of one.
LEMMA ControlTypes ==
    /\ NoCommand.kind = "none" /\ NoCommand.reply = "none"
    /\ \A reply \in {"ok", "refused", "aborted", "unreachable"} : IpcErrorCode(reply) \in Codes
    /\ \A c \in Commands : c.kind \in {"start", "stop"} /\ c # NoCommand
  <1>1. HttpErrorCode("none", 500) = "BACKEND_ERROR"
    BY DEF HttpErrorCode
  <1>2. \A reply \in {"ok", "refused", "aborted", "unreachable"} : IpcErrorCode(reply) \in Codes
    BY <1>1 DEF IpcErrorCode, Codes
  <1> QED BY <1>2 DEF NoCommand, Commands

\* A control that was just mounted.
LEMMA ControlStarts == ASSUME ControlInit PROVE ControlInv
  <1>1. /\ native \in BOOLEAN /\ shown = FALSE /\ busy = FALSE /\ failure = "none"
        /\ adapter = DefaultAdapter /\ health = "asked" /\ probed = FALSE
        /\ cmd = NoCommand /\ cmd.kind = "none" /\ cmd.reply = "none" /\ late = {}
        /\ engine \in {NoAdapter, DefaultAdapter} /\ heard = FALSE /\ reloads = 0
    BY ControlTypes DEF ControlInit
  <1>2. /\ blurred \subseteq {"mounted_anew"}
        /\ blurred = {} => engine = NoAdapter
    BY DEF ControlInit
  <1>3. ControlTypeOK
    <2>1. blurred \subseteq Causes
      BY <1>2 DEF Causes
    <2>2. cmd \in Commands \cup {NoCommand} /\ late \subseteq Commands /\ reloads \in 0 .. MaxReloads
      BY <1>1, ControlConstants
    <2>3. adapter \in Adapters /\ engine \in Adapters \cup {NoAdapter} /\ failure \in Codes \cup {"none"}
      BY <1>1, ControlConstants
    <2> QED BY <1>1, <2>1, <2>2, <2>3 DEF ControlTypeOK
  <1>4. OneCommandAtATime /\ CommandIsHeld
    BY <1>1 DEF OneCommandAtATime, CommandIsHeld
  <1>5. IndicatorFollows /\ AdapterFollows
    BY <1>1, <1>2 DEF IndicatorFollows, AdapterFollows
  <1> QED BY <1>3, <1>4, <1>5 DEF ControlInv

\* What a command executed by the shell makes of the capture.
LEMMA ExecuteFact ==
    ASSUME NEW c \in Commands, NEW reply \in {"ok", "refused"}, engine \in Adapters \cup {NoAdapter},
           Execute(c, reply, engine')
    PROVE  /\ engine' \in Adapters \cup {NoAdapter}
           /\ reply = "refused" => engine' = engine \/ (c.kind = "stop" /\ engine' = NoAdapter)
           /\ reply = "ok" /\ c.kind = "start" => engine' = c.adapter /\ engine' # NoAdapter
           /\ reply = "ok" /\ c.kind # "start" => engine' = NoAdapter
  BY ControlConstants DEF Execute, Commands

\* What an answer makes of the indicator, and what it overrules.
LEMMA AnsweredFact ==
    ASSUME shown \in BOOLEAN, NEW reply \in {"ok", "refused", "aborted", "unreachable"}
    PROVE  /\ Answered(reply) \in BOOLEAN /\ Overrules(reply) \subseteq Causes
           /\ reply = "ok" => Answered(reply) = (cmd.kind = "start") /\ Overrules(reply) = {}
           /\ reply # "ok" => Answered(reply) = (shown /\ cmd.kind = "stop")
           /\ reply # "ok" /\ cmd.kind = "start" /\ shown => "overruled" \in Overrules(reply)
  BY DEF Answered, Overrules, Causes

\* Every step of the control, the shell and the probe keeps what relates them.
LEMMA ControlStep == ASSUME ControlInv, [ControlNext]_controlVars PROVE ControlInv'
  <1> USE ControlTypes, ControlConstants
      DEF ControlInv, ControlTypeOK, OneCommandAtATime, CommandIsHeld, IndicatorFollows, AdapterFollows
  <1>1. CASE UNCHANGED controlVars
    <2>1. UNCHANGED <<native, shown, busy, failure, adapter, health, probed, cmd, late, engine,
                      heard, blurred, reloads>>
      BY <1>1 DEF controlVars
    <2> QED BY <2>1
  <1>2. CASE ServeHealth
    <2>1. /\ health' = "served" /\ probed' \in BOOLEAN
          /\ UNCHANGED <<native, shown, busy, failure, adapter, cmd, late, engine, heard, reloads>>
      BY <1>2 DEF ServeHealth, uiUnchanged, engineUnchanged
    <2>2. /\ blurred \subseteq blurred' /\ blurred' \subseteq Causes
          /\ blurred' \subseteq {"mounted_anew"} => probed' = (engine # NoAdapter)
      <3> HIDE DEF ControlInv
      <3>0. blurred \subseteq Causes
        BY DEF ControlInv
      <3>1. CASE probed' = (engine # NoAdapter)
        <4>1. blurred' = blurred
          BY <1>2, <3>1 DEF ServeHealth
        <4>2. blurred \subseteq blurred' /\ blurred' \subseteq Causes
          BY <3>0, <4>1
        <4> QED BY ONLY <3>1, <4>2, Zenon
      <3>2. CASE probed' # (engine # NoAdapter) /\ native /\ ~heard
        <4>1. blurred' = blurred \cup {"standby"}
          BY <1>2, <3>2 DEF ServeHealth
        <4> QED BY <3>0, <4>1 DEF Causes
      <3>3. CASE probed' # (engine # NoAdapter) /\ ~(native /\ ~heard)
        <4>1. blurred' = blurred \cup {"raced"}
          BY <1>2, <3>3 DEF ServeHealth
        <4> QED BY <3>0, <4>1 DEF Causes
      <3> QED BY <3>1, <3>2, <3>3
    <2> QED BY <2>1, <2>2
  <1>3. CASE ApplyHealth
    <2>1. /\ health = "served" /\ health' = "applied" /\ shown' = probed /\ probed' = FALSE
          /\ UNCHANGED <<native, busy, failure, adapter, cmd, late, engine, heard, blurred, reloads>>
      BY <1>3 DEF ApplyHealth, engineUnchanged
    <2>2. ControlTypeOK' /\ OneCommandAtATime' /\ CommandIsHeld'
      BY <2>1
    <2>3. IndicatorFollows' /\ AdapterFollows'
      BY <2>1
    <2> QED BY <2>2, <2>3
  <1>4. CASE LoseHealth
    BY <1>4 DEF LoseHealth, uiUnchanged, engineUnchanged, Causes
  <1>5. ASSUME NEW a \in Adapters, SelectAdapter(a) PROVE ControlInv'
    BY <1>5 DEF SelectAdapter, probeUnchanged, engineUnchanged
  <1>6. CASE Toggle
    <2> DEFINE c == IF shown THEN [kind |-> "stop", adapter |-> NoAdapter, reply |-> "none"]
                             ELSE [kind |-> "start", adapter |-> adapter, reply |-> "none"]
    <2>1. /\ c \in Commands /\ (c.kind = "start" => c.adapter = adapter) /\ c.reply = "none"
          /\ c.kind = (IF shown THEN "stop" ELSE "start")
      BY DEF Commands, Progress
    <2> HIDE DEF c
    <2>2. /\ ~busy /\ busy' = TRUE /\ failure' = "none"
          /\ cmd' \in Commands /\ cmd'.reply = "none"
          /\ cmd'.kind = (IF shown THEN "stop" ELSE "start")
          /\ (cmd'.kind = "start" => cmd'.adapter = adapter)
          /\ UNCHANGED <<native, shown, adapter, late, engine, heard, health, probed, blurred, reloads>>
      BY <1>6, <2>1 DEF Toggle, probeUnchanged, engineUnchanged, c
    <2>3. cmd.kind = "none" /\ cmd.reply = "none" /\ cmd'.kind # "none"
      BY <2>2
    <2>4. ControlTypeOK' /\ OneCommandAtATime' /\ CommandIsHeld'
      BY <2>2, <2>3
    <2>5. IndicatorFollows' /\ AdapterFollows'
      BY <2>2, <2>3
    <2> QED BY <2>4, <2>5
  <1>7. CASE ExecuteCommand
    <2>1. PICK reply \in {"ok", "refused"} :
             /\ Execute(cmd, reply, engine') /\ cmd' = [cmd EXCEPT !.reply = reply]
             /\ blurred' = blurred \cup Blurs(cmd, reply)
      BY <1>7 DEF ExecuteCommand
    <2>2. /\ cmd.kind # "none" /\ cmd.reply = "none" /\ cmd \in Commands
          /\ cmd.kind = "start" => cmd.adapter = adapter
          /\ blurred' = blurred \cup Blurs(cmd, reply)
          /\ UNCHANGED <<native, shown, busy, failure, adapter, health, probed, late, heard, reloads>>
      BY <1>7, <2>1 DEF ExecuteCommand, uiUnchanged, probeUnchanged
    <2>3. cmd' \in Commands /\ cmd'.kind = cmd.kind /\ cmd'.adapter = cmd.adapter /\ cmd'.reply = reply
      BY <2>1, <2>2 DEF Commands, Progress
    <2>4. cmd.kind = "start" \/ cmd.kind = "stop"
      BY <2>2 DEF Commands
    <2> HIDE DEF ControlInv
    <2>5. /\ engine' \in Adapters \cup {NoAdapter}
          /\ reply = "refused" => engine' = engine \/ (cmd.kind = "stop" /\ engine' = NoAdapter)
          /\ reply = "ok" /\ cmd.kind = "start" => engine' = adapter /\ engine' # NoAdapter
          /\ reply = "ok" /\ cmd.kind # "start" => engine' = NoAdapter
      BY <2>1, <2>2, ExecuteFact DEF ControlInv
    <2>6. /\ blurred \subseteq blurred' /\ blurred' \subseteq Causes
          /\ blurred' \subseteq {"mounted_anew"} =>
                /\ health = "served" => engine' = engine
                /\ reply = "refused" => engine' = engine
      BY <2>2, <2>4, <2>5 DEF Blurs, Causes, ControlInv
    <2>7. ControlTypeOK' /\ OneCommandAtATime' /\ CommandIsHeld'
      BY <2>2, <2>3, <2>5, <2>6 DEF ControlInv
    <2>8. IndicatorFollows'
      <3>1. SUFFICES ASSUME blurred' \subseteq {"mounted_anew"} PROVE IndicatorFollows'
        OBVIOUS
      <3>2. blurred \subseteq {"mounted_anew"}
        BY <2>6, <3>1
      <3> QED BY <2>2, <2>3, <2>4, <2>5, <2>6, <3>1, <3>2 DEF ControlInv
    <2>9. AdapterFollows'
      <3>1. SUFFICES ASSUME blurred' = {} PROVE AdapterFollows'
        OBVIOUS
      <3>2. blurred = {}
        BY <2>6, <3>1
      <3> QED BY <2>2, <2>3, <2>4, <2>5, <2>6, <3>1, <3>2 DEF ControlInv
    <2> QED BY <2>7, <2>8, <2>9 DEF ControlInv
  <1>8. CASE CommandReturns
    <2>1. cmd \in Commands /\ cmd.kind \in {"start", "stop"} /\ cmd.reply \in {"ok", "refused"}
          /\ cmd.kind # "none"
      BY <1>8 DEF CommandReturns, Commands, Progress
    <2>2. failure' \in Codes \cup {"none"}
      BY <1>8, <2>1 DEF CommandReturns
    <2>3. /\ busy' = FALSE /\ cmd' = NoCommand /\ cmd'.kind = "none" /\ cmd'.reply = "none"
          /\ shown' = Answered(cmd.reply) /\ blurred' = blurred \cup Overrules(cmd.reply)
          /\ UNCHANGED <<native, adapter, late, reloads, health, probed, engine, heard>>
      BY <1>8 DEF CommandReturns, probeUnchanged, engineUnchanged
    <2>4. /\ shown' \in BOOLEAN /\ blurred' \subseteq Causes /\ blurred \subseteq blurred'
          /\ cmd.reply = "ok" => shown' = (cmd.kind = "start")
          /\ cmd.reply # "ok" => shown' = (shown /\ cmd.kind = "stop")
          /\ cmd.reply # "ok" /\ cmd.kind = "start" /\ shown => "overruled" \in blurred'
      BY <2>1, <2>3, AnsweredFact
    <2>5. ControlTypeOK' /\ OneCommandAtATime' /\ CommandIsHeld'
      BY <2>1, <2>2, <2>3, <2>4
    <2>6. IndicatorFollows'
      BY <2>1, <2>3, <2>4
    <2>7. AdapterFollows'
      BY <2>1, <2>3, <2>4
    <2> QED BY <2>5, <2>6, <2>7
  <1>9. CASE GiveUp
    <2>1. ~native /\ cmd.kind # "none" /\ cmd \in Commands
      BY <1>9 DEF GiveUp, Replies
    <2>2. PICK reply \in {"aborted", "unreachable"} :
             /\ failure' = IpcErrorCode(reply)
             /\ late' = (IF reply = "aborted" /\ cmd.reply = "none" THEN late \cup {cmd} ELSE late)
             /\ shown' = Answered(reply)
             /\ blurred' = blurred \cup Overrules(reply)
                              \cup (IF reply = "aborted" \/ cmd.reply # "none" THEN {"given_up"} ELSE {})
      BY <1>9, <2>1 DEF GiveUp, Replies
    <2>3. failure' \in Codes
      BY <2>2
    <2>4. /\ busy' = FALSE /\ cmd' = NoCommand /\ cmd'.kind = "none" /\ cmd'.reply = "none"
          /\ UNCHANGED <<native, adapter, reloads, health, probed, engine, heard>>
      BY <1>9 DEF GiveUp, probeUnchanged, engineUnchanged
    <2>5. /\ late' \subseteq Commands /\ (late' # {} => "given_up" \in blurred')
          /\ shown' \in BOOLEAN /\ blurred' \subseteq Causes /\ blurred \subseteq blurred'
          /\ "given_up" \notin blurred' => cmd.reply = "none"
          /\ cmd.kind = "start" /\ shown => "overruled" \in blurred'
          /\ shown' = (shown /\ cmd.kind = "stop")
      BY <2>1, <2>2, AnsweredFact DEF Causes
    <2>6. ControlTypeOK' /\ OneCommandAtATime' /\ CommandIsHeld'
      BY <2>1, <2>3, <2>4, <2>5
    <2>7. IndicatorFollows' /\ AdapterFollows'
      BY <2>1, <2>4, <2>5 DEF Commands
    <2> QED BY <2>6, <2>7
  <1>10. ASSUME NEW c \in late, ExecuteLate(c) PROVE ControlInv'
    <2>1. PICK reply \in {"ok", "refused"} :
             Execute(c, reply, engine') /\ blurred' = blurred \cup Blurs(c, reply)
      BY <1>10 DEF ExecuteLate
    <2>2. engine' \in Adapters \cup {NoAdapter}
      BY <2>1, ExecuteFact
    <2>3. "given_up" \in blurred' /\ blurred' \subseteq Causes
      BY <2>1 DEF Blurs, Causes
    <2> QED BY <1>10, <2>2, <2>3 DEF ExecuteLate, uiUnchanged, probeUnchanged
  <1>11. CASE Hear
    BY <1>11 DEF Hear, uiUnchanged, probeUnchanged
  <1>12. CASE Remount
    <2>1. /\ reloads' = reloads + 1 /\ reloads' \in 1 .. MaxReloads
          /\ shown' = FALSE /\ busy' = FALSE /\ failure' = "none" /\ adapter' = DefaultAdapter
          /\ health' = "asked" /\ probed' = FALSE /\ UNCHANGED <<native, engine, heard>>
          /\ cmd' = NoCommand /\ cmd'.kind = "none" /\ cmd'.reply = "none"
      BY <1>12 DEF Remount, engineUnchanged
    <2>2. late' \subseteq Commands /\ (late' # {} => "given_up" \in blurred')
      <3>1. CASE cmd.kind # "none"
        BY <1>12, <3>1 DEF Remount
      <3>2. CASE cmd.kind = "none"
        BY <1>12, <3>2 DEF Remount
      <3> QED BY <3>1, <3>2
    <2>3. "mounted_anew" \in blurred'
          /\ blurred' \subseteq Causes
      BY <1>12 DEF Remount, Causes
    <2>4. blurred' # {}
      BY <2>3
    <2> HIDE DEF ControlInv
    <2>5. ControlTypeOK'
      <3>1. cmd' \in Commands \cup {NoCommand} /\ reloads' \in 0 .. MaxReloads
        BY <2>1
      <3>2. /\ adapter' \in Adapters /\ failure' \in Codes \cup {"none"}
            /\ native' \in BOOLEAN /\ engine' \in Adapters \cup {NoAdapter} /\ heard' \in BOOLEAN
        BY <2>1 DEF ControlInv
      <3> QED BY <2>1, <2>2, <2>3, <3>1, <3>2
    <2>6. OneCommandAtATime' /\ CommandIsHeld'
      <3>1. reloads \in Nat /\ reloads' # 0
        BY <2>1 DEF ControlInv
      <3> QED BY <2>1, <2>2, <3>1
    <2>7. IndicatorFollows' /\ AdapterFollows'
      BY <2>1, <2>4
    <2> QED BY <2>5, <2>6, <2>7 DEF ControlInv
  <1> QED BY <1>1, <1>2, <1>3, <1>4, <1>5, <1>6, <1>7, <1>8, <1>9, <1>10, <1>11, <1>12 DEF ControlNext

\* At rest nothing is under way, so the indicator has caught up.
LEMMA ControlTracks == ASSUME ControlInv PROVE TracksCapture
  <1>1. ~busy => cmd.kind = "none" /\ cmd = NoCommand /\ cmd.reply = "none"
    BY ControlTypes DEF ControlInv, OneCommandAtATime, CommandIsHeld
  <1> QED BY <1>1 DEF ControlInv, IndicatorFollows, AdapterFollows, TracksCapture, ControlAtRest,
                      ControlTypeOK

-----------------------------------------------------------------------------
\* The explorer (Explorer.tsx).

\* The history is a Boolean, and the answers to come decide what the entries are of.
ExplorerInv ==
    /\ ExplorerTypeOK /\ overtaken \in BOOLEAN
    /\ CacheIsOwn
    /\ ~explorer.loaded => searches # None
    /\ searches = None /\ ~overtaken => explorer.entries \in {Norm[explorer.debounced], "failed"}

\* A search of a term that is not cached, or its answer, and what is counted meanwhile.
LEMMA SearchesCount ==
    ASSUME ExplorerInv, NEW t \in Terms, searches[t] < MaxSearches
    PROVE  /\ [searches EXCEPT ![t] = @ + 1] \in [Terms -> 0 .. MaxSearches]
           /\ [searches EXCEPT ![t] = @ + 1] # None
  <1>1. searches \in [Terms -> 0 .. MaxSearches] /\ MaxSearches \in Nat
    BY ExplorerConstants DEF ExplorerInv, ExplorerTypeOK
  <1>2. [searches EXCEPT ![t] = @ + 1][t] = searches[t] + 1 /\ searches[t] + 1 \in 1 .. MaxSearches
    BY <1>1
  <1>3. None[t] = 0
    BY DEF None
  <1> QED BY <1>1, <1>2, <1>3

\* The search the explorer starts with is under way.
LEMMA FirstSearch ==
    /\ "" \in RawTerms /\ "" \in Terms
    /\ [None EXCEPT ![""] = 1] \in [Terms -> 0 .. MaxSearches]
    /\ [None EXCEPT ![""] = 1] # None
    /\ None \in [Terms -> 0 .. MaxSearches] /\ None \in [Terms -> 0 .. 2 * MaxSearches]
  <1>1. "" \in RawTerms /\ "" \in Terms
    BY ExplorerConstants DEF Terms
  <1>2. None \in [Terms -> {0}] /\ MaxSearches \in Nat \ {0}
    BY ExplorerConstants DEF None
  <1> DEFINE one == [None EXCEPT ![""] = 1]
  <1>3. one[""] = 1 /\ None[""] = 0
    BY <1>1, <1>2
  <1>4. 0 \in 0 .. MaxSearches /\ 1 \in 0 .. MaxSearches /\ 0 \in 0 .. 2 * MaxSearches
    BY <1>2
  <1>5. one \in [Terms -> 0 .. MaxSearches]
    BY <1>2, <1>4
  <1>6. None \in [Terms -> 0 .. MaxSearches] /\ None \in [Terms -> 0 .. 2 * MaxSearches]
    BY <1>2, <1>4
  <1>7. one # None
    <2>1. 1 # 0
      OBVIOUS
    <2> HIDE DEF one
    <2> QED BY <1>3, <2>1, Zenon
  <1> QED BY <1>1, <1>5, <1>6, <1>7

\* The explorer when it is opened.
LEMMA ExplorerStarts == ASSUME ExplorerInit PROVE ExplorerInv
  <1> USE ExplorerConstants DEF ExplorerInit, Fresh
  <1>1. ExplorerTypeOK
    BY FirstSearch DEF ExplorerTypeOK
  <1>2. CacheIsOwn /\ overtaken \in BOOLEAN /\ searches # None
    BY FirstSearch DEF CacheIsOwn
  <1> QED BY <1>1, <1>2 DEF ExplorerInv

\* A term is answered from the cache or searched for.
LEMMA FetchKeeps ==
    ASSUME ExplorerInv, NEW raw \in RawTerms, FetchEntries([explorer EXCEPT !.debounced = raw], raw),
           UNCHANGED <<orphaned, ipcCache>>
    PROVE  ExplorerInv'
  <1> DEFINE t == Norm[raw]
  <1>1. t \in Terms
    BY DEF Terms
  <1>2. /\ explorer \in [term : RawTerms, debounced : RawTerms, category : Categories,
                     entries : Terms \cup {"nothing", "failed"}, loaded : BOOLEAN, notice : BOOLEAN]
        /\ searches \in [Terms -> 0 .. MaxSearches] /\ overtaken \in BOOLEAN
        /\ ipcCache[t] \in {"nothing", t}
    BY <1>1 DEF ExplorerInv, ExplorerTypeOK, CacheIsOwn
  <1>3. CASE ipcCache[t] # "nothing"
    <2>1. explorer' = [explorer EXCEPT !.debounced = raw, !.notice = FALSE, !.loaded = TRUE, !.entries = t]
          /\ overtaken' = FALSE /\ searches' = searches
      BY <1>2, <1>3 DEF FetchEntries
    <2>2. ExplorerTypeOK'
      BY <1>1, <1>2, <2>1 DEF ExplorerInv, ExplorerTypeOK
    <2> QED BY <1>1, <1>2, <2>1, <2>2 DEF ExplorerInv, CacheIsOwn
  <1>4. CASE ipcCache[t] = "nothing"
    <2>1. /\ explorer' = [explorer EXCEPT !.debounced = raw, !.notice = FALSE] /\ overtaken' = overtaken
          /\ searches' = [searches EXCEPT ![t] = @ + 1] /\ searches[t] < MaxSearches
      BY <1>2, <1>4 DEF FetchEntries
    <2>2. searches' \in [Terms -> 0 .. MaxSearches] /\ searches' # None
      BY <1>1, <2>1, SearchesCount
    <2>3. ExplorerTypeOK'
      BY <1>2, <2>1, <2>2 DEF ExplorerInv, ExplorerTypeOK
    <2>4. searches' # None'
      BY <2>2 DEF None
    <2> QED BY <1>2, <2>1, <2>3, <2>4 DEF ExplorerInv, CacheIsOwn
  <1> QED BY <1>3, <1>4

\* Every step of the explorer, through any order of answers.
LEMMA ExplorerStep == ASSUME ExplorerInv, [ExplorerNext]_explorerVars PROVE ExplorerInv'
  <1>1. CASE UNCHANGED explorerVars
    BY <1>1 DEF explorerVars, ExplorerInv, ExplorerTypeOK, CacheIsOwn, None
  <1>2. ASSUME NEW raw \in RawTerms, SetTerm(raw) PROVE ExplorerInv'
    BY <1>2 DEF SetTerm, ExplorerInv, ExplorerTypeOK, CacheIsOwn, None
  <1>3. ASSUME NEW c \in Categories, SetCategory(c) PROVE ExplorerInv'
    BY <1>3 DEF SetCategory, ExplorerInv, ExplorerTypeOK, CacheIsOwn, None
  <1>4. CASE DismissNotice
    BY <1>4 DEF DismissNotice, ExplorerInv, ExplorerTypeOK, CacheIsOwn, None
  <1>5. CASE Debounce
    <2>1. explorer.term \in RawTerms
      BY DEF ExplorerInv, ExplorerTypeOK
    <2> QED BY <1>5, <2>1, FetchKeeps DEF Debounce
  <1>6. CASE ClearSearch
    <2> DEFINE e == [explorer EXCEPT !.term = "", !.debounced = "", !.category = "all"]
    <2>1. "" \in RawTerms /\ "all" \in Categories /\ Norm[""] = "" /\ "" \in Terms
      BY ExplorerConstants DEF Terms
    <2>2. CASE explorer.debounced = ""
      <3>1. explorer' = e /\ UNCHANGED <<searches, overtaken, orphaned, ipcCache>>
        BY <1>6, <2>2 DEF ClearSearch
      <3>2. ExplorerTypeOK'
        BY <2>1, <3>1 DEF ExplorerInv, ExplorerTypeOK
      <3> QED BY <2>1, <2>2, <3>1, <3>2 DEF ExplorerInv, ExplorerTypeOK, CacheIsOwn, None
    <2>3. CASE explorer.debounced # ""
      <3>1. FetchEntries(e, "") /\ UNCHANGED <<orphaned, ipcCache>>
        BY <1>6, <2>3 DEF ClearSearch
      <3>2. e \in [term : RawTerms, debounced : RawTerms, category : Categories,
                   entries : Terms \cup {"nothing", "failed"}, loaded : BOOLEAN, notice : BOOLEAN]
            /\ e.loaded = explorer.loaded /\ e.debounced = ""
        BY <2>1 DEF ExplorerInv, ExplorerTypeOK
      <3>3. CASE ipcCache[""] # "nothing"
        <4>1. explorer' = [e EXCEPT !.notice = FALSE, !.loaded = TRUE, !.entries = ""]
              /\ overtaken' = FALSE /\ searches' = searches
          BY <2>1, <3>1, <3>3 DEF FetchEntries, ExplorerInv, CacheIsOwn
        <4>2. ExplorerTypeOK'
          BY <2>1, <3>1, <3>2, <4>1 DEF ExplorerInv, ExplorerTypeOK
        <4> QED BY <2>1, <3>1, <3>2, <4>1, <4>2 DEF ExplorerInv, CacheIsOwn
      <3>4. CASE ipcCache[""] = "nothing"
        <4>1. /\ explorer' = [e EXCEPT !.notice = FALSE] /\ overtaken' = overtaken
              /\ searches' = [searches EXCEPT ![""] = @ + 1] /\ searches[""] < MaxSearches
          BY <2>1, <3>1, <3>4 DEF FetchEntries
        <4>2. searches' \in [Terms -> 0 .. MaxSearches] /\ searches' # None
          BY <2>1, <4>1, SearchesCount
        <4>3. ExplorerTypeOK' /\ searches' # None'
          BY <3>1, <3>2, <4>1, <4>2 DEF ExplorerInv, ExplorerTypeOK, None
        <4> QED BY <3>1, <4>1, <4>3 DEF ExplorerInv, CacheIsOwn
      <3> QED BY <3>3, <3>4
    <2> QED BY <2>2, <2>3
  <1>7. CASE LeaveAndReturn
    <2>1. orphaned' \in [Terms -> 0 .. 2 * MaxSearches]
      <3>1. searches \in [Terms -> 0 .. MaxSearches] /\ orphaned \in [Terms -> 0 .. 2 * MaxSearches]
            /\ MaxSearches \in Nat
        BY ExplorerConstants DEF ExplorerInv, ExplorerTypeOK
      <3>2. \A t \in Terms : orphaned[t] + searches[t] \in 0 .. 2 * MaxSearches
        <4>1. \A t \in Terms : searches[t] + orphaned[t] <= MaxSearches
          BY <1>7 DEF LeaveAndReturn
        <4>2. TAKE t \in Terms
        <4>3. searches[t] \in Nat /\ orphaned[t] \in Nat
          BY <3>1
        <4> QED BY <3>1, <4>1, <4>3
      <3>3. orphaned' = [t \in Terms |-> orphaned[t] + searches[t]]
        BY <1>7 DEF LeaveAndReturn
      <3> QED BY <3>2, <3>3
    <2>2. UNCHANGED ipcCache /\ overtaken' = FALSE /\ "" \in Terms /\ Norm[""] = "" /\ ipcCache[""] \in {"nothing", ""}
      BY <1>7, ExplorerConstants DEF LeaveAndReturn, ExplorerInv, CacheIsOwn, Terms
    <2>3. CASE ipcCache[""] # "nothing"
      <3>1. explorer' = [Fresh EXCEPT !.loaded = TRUE, !.entries = ""] /\ searches' = None
        BY <1>7, <2>2, <2>3 DEF LeaveAndReturn
      <3>2. ExplorerTypeOK'
        BY <2>1, <2>2, <3>1, FirstSearch, ExplorerConstants DEF ExplorerInv, ExplorerTypeOK, Fresh
      <3> QED BY <2>2, <3>1, <3>2 DEF ExplorerInv, CacheIsOwn, Fresh
    <2>4. CASE ipcCache[""] = "nothing"
      <3>1. explorer' = Fresh /\ searches' = [None EXCEPT ![""] = 1]
        BY <1>7, <2>4 DEF LeaveAndReturn
      <3>2. ExplorerTypeOK' /\ searches' # None'
        BY <2>1, <2>2, <3>1, FirstSearch, ExplorerConstants DEF ExplorerInv, ExplorerTypeOK, Fresh, None
      <3> QED BY <2>2, <3>1, <3>2 DEF ExplorerInv, CacheIsOwn, Fresh
    <2> QED BY <2>3, <2>4
  <1>8. ASSUME NEW t \in Terms, NEW ok \in BOOLEAN, SearchAnswered(t, ok) PROVE ExplorerInv'
    <2>1. explorer' = [explorer EXCEPT !.entries = IF ok THEN t ELSE "failed",
                                       !.notice = @ \/ ~ok, !.loaded = TRUE]
          /\ overtaken' = (t # Norm[explorer.debounced]) /\ orphaned' = orphaned
          /\ searches' = [searches EXCEPT ![t] = @ - 1] /\ searches[t] > 0
          /\ ipcCache' = IF ok THEN [ipcCache EXCEPT ![t] = t] ELSE ipcCache
      BY <1>8 DEF SearchAnswered
    <2>2. ExplorerTypeOK'
      <3>1. searches \in [Terms -> 0 .. MaxSearches] /\ MaxSearches \in Nat
        BY ExplorerConstants DEF ExplorerInv, ExplorerTypeOK
      <3>2. searches[t] - 1 \in 0 .. MaxSearches
        BY <2>1, <3>1
      <3>3. searches' \in [Terms -> 0 .. MaxSearches]
        BY <2>1, <3>1, <3>2
      <3>4. ipcCache' \in [Terms -> Terms \cup {"nothing"}]
        BY <2>1 DEF ExplorerInv, ExplorerTypeOK
      <3>5. explorer' \in [term : RawTerms, debounced : RawTerms, category : Categories,
                           entries : Terms \cup {"nothing", "failed"}, loaded : BOOLEAN, notice : BOOLEAN]
        BY <2>1 DEF ExplorerInv, ExplorerTypeOK
      <3> QED BY <2>1, <3>3, <3>4, <3>5 DEF ExplorerInv, ExplorerTypeOK
    <2>3. CacheIsOwn' /\ overtaken' \in BOOLEAN
      BY <2>1 DEF CacheIsOwn, ExplorerInv, ExplorerTypeOK
    <2>4. explorer'.loaded /\ explorer'.debounced = explorer.debounced /\ explorer'.entries \in {t, "failed"}
      BY <2>1 DEF ExplorerInv, ExplorerTypeOK
    <2> QED BY <2>1, <2>2, <2>3, <2>4 DEF ExplorerInv
  <1>9. ASSUME NEW t \in Terms, NEW ok \in BOOLEAN, OrphanAnswered(t, ok) PROVE ExplorerInv'
    <2>1. ExplorerTypeOK'
      <3>1. orphaned \in [Terms -> 0 .. 2 * MaxSearches] /\ MaxSearches \in Nat /\ orphaned[t] > 0
        BY <1>9, ExplorerConstants DEF OrphanAnswered, ExplorerInv, ExplorerTypeOK
      <3>2. orphaned[t] - 1 \in 0 .. 2 * MaxSearches
        BY <3>1
      <3>3. orphaned' \in [Terms -> 0 .. 2 * MaxSearches]
        BY <1>9, <3>1, <3>2 DEF OrphanAnswered
      <3>4. ipcCache' \in [Terms -> Terms \cup {"nothing"}] /\ UNCHANGED <<explorer, searches>>
        BY <1>9 DEF OrphanAnswered, ExplorerInv, ExplorerTypeOK
      <3> QED BY <3>3, <3>4 DEF ExplorerInv, ExplorerTypeOK
    <2>2. CacheIsOwn'
      BY <1>9 DEF OrphanAnswered, CacheIsOwn, ExplorerInv, ExplorerTypeOK
    <2> QED BY <1>9, <2>1, <2>2 DEF OrphanAnswered, ExplorerInv, None
  <1> QED BY <1>1, <1>2, <1>3, <1>4, <1>5, <1>6, <1>7, <1>8, <1>9 DEF ExplorerNext

\* A skeleton has a search to wait for, and the entries are those of the term.
LEMMA ExplorerHolds == ASSUME ExplorerInv PROVE LoadingHasCause /\ EntriesMatchTerm
  <1>1. LoadingHasCause
    BY DEF ExplorerInv, LoadingHasCause, ExplorerView
  <1>2. EntriesMatchTerm
    BY DEF ExplorerInv, EntriesMatchTerm
  <1> QED BY <1>1, <1>2

-----------------------------------------------------------------------------
\* The replay (Replay.tsx).

\* What the screen may ask for: a speed that is offered, a place in the recording.
ReplayCallsOf ==
    {c \in [kind : {"poll", "play", "pause", "step", "speed", "seek"}, arg : Int,
            stage : {"sent", "asked", "served"}, answer : States] :
        /\ c.kind = "speed" => c.arg \in Speeds
        /\ c.kind = "seek" => c.arg \in 0 .. Total
        /\ c.kind = "poll" => c.stage # "sent"}

\* What the replay waits for is something it can ask.
ReplayInv ==
    /\ ReplayTypeOK /\ BusyHasControl
    /\ replayCalls \subseteq ReplayCallsOf

\* The state before any recording is loaded, and the first poll.
LEMMA NoStateIsOne == NoState \in States /\ 0 \in 0 .. Total /\ Poll0 \in ReplayCallsOf
  <1>1. (CHOOSE s \in Speeds : TRUE) \in Speeds /\ 0 \in 0 .. Total
    BY ReplayConstants
  <1>2. NoState \in States
    BY <1>1 DEF NoState, States
  <1> QED BY <1>1, <1>2 DEF Poll0, Call, ReplayCallsOf

\* The replay when it is opened.
LEMMA ReplayStarts == ASSUME ReplayInit PROVE ReplayInv
  <1>1. replayCalls \subseteq ReplayCallsOf /\ \A c \in replayCalls : c = Poll0
    BY NoStateIsOne DEF ReplayInit
  <1>2. Poll0.kind = "poll" /\ Poll0.stage = "asked" /\ Poll0.answer = NoState
    BY DEF Poll0, Call
  <1> QED BY <1>1, <1>2, NoStateIsOne DEF ReplayInit, ReplayInv, ReplayTypeOK, BusyHasControl

\* The calls have their types whenever they are calls.
LEMMA CallsAreTyped ==
    ASSUME NEW set, set \subseteq ReplayCallsOf
    PROVE  \A c \in set : /\ c.kind \in {"poll", "play", "pause", "step", "speed", "seek"}
                          /\ c.stage \in {"sent", "asked", "served"} /\ c.answer \in States
  BY DEF ReplayCallsOf

\* A control adds a call that will let the buttons go.
LEMMA ControlKeeps ==
    ASSUME ReplayInv, NEW kind \in {"play", "pause", "step", "speed"}, NEW arg \in Int,
           kind = "speed" => arg \in Speeds, NEW updated \in States, Control(kind, arg, updated)
    PROVE  ReplayInv'
  <1> DEFINE c == Call(kind, arg, "sent")
  <1>1. c \in ReplayCallsOf /\ Holds(c.kind)
    BY NoStateIsOne DEF Call, ReplayCallsOf, Holds
  <1>2. replayCalls' = replayCalls \cup {c} /\ UNCHANGED replayEngine
    BY DEF Control
  <1>3. replayCalls' \subseteq ReplayCallsOf
    BY <1>1, <1>2 DEF ReplayInv
  <1>4. replay' \in [loaded : BOOLEAN, known : BOOLEAN, state : States, busy : BOOLEAN,
                     notice : BOOLEAN, seekTo : {NoSeek} \cup 0 .. Total]
    BY DEF Control, ReplayInv, ReplayTypeOK
  <1>5. BusyHasControl'
    BY <1>1, <1>2 DEF BusyHasControl
  <1> QED BY <1>2, <1>3, <1>4, <1>5, CallsAreTyped DEF ReplayInv, ReplayTypeOK

\* Every step of the replay and of its engine.
LEMMA ReplayStep == ASSUME ReplayInv, [ReplayNext]_replayVars PROVE ReplayInv'
  <1> DEFINE Screen == [loaded : BOOLEAN, known : BOOLEAN, state : States, busy : BOOLEAN,
                        notice : BOOLEAN, seekTo : {NoSeek} \cup 0 .. Total]
  <1>0. /\ replay \in Screen /\ replayEngine \in States /\ replayCalls \subseteq ReplayCallsOf
        /\ replay.busy => \E c \in replayCalls : Holds(c.kind)
    BY DEF ReplayInv, ReplayTypeOK, BusyHasControl
  <1>1. ASSUME replay' \in Screen, replayEngine' \in States, replayCalls' \subseteq ReplayCallsOf,
               replay'.busy => \E c \in replayCalls' : Holds(c.kind)
        PROVE  ReplayInv'
    BY <1>1, CallsAreTyped DEF ReplayInv, ReplayTypeOK, BusyHasControl
  <1>2. CASE UNCHANGED replayVars
    BY <1>0, <1>1, <1>2 DEF replayVars
  <1>3. CASE PollReplay
    BY <1>0, <1>1, <1>3, NoStateIsOne DEF PollReplay
  <1>4. CASE Play
    <2>1. [replay.state EXCEPT !.playing = TRUE] \in States
      BY <1>0 DEF States
    <2> QED BY <1>4, <2>1, ControlKeeps DEF Play
  <1>5. CASE Pause
    <2>1. [replay.state EXCEPT !.playing = FALSE] \in States
      BY <1>0 DEF States
    <2> QED BY <1>5, <2>1, ControlKeeps DEF Pause
  <1>6. CASE Step
    BY <1>0, <1>6, ControlKeeps DEF Step
  <1>7. ASSUME NEW s \in Speeds, SetSpeed(s) PROVE ReplayInv'
    <2>1. [replay.state EXCEPT !.speed = s] \in States /\ s \in Int
      BY <1>0, ReplayConstants DEF States
    <2> QED BY <1>7, <2>1, ControlKeeps DEF SetSpeed
  <1>8. ASSUME NEW p \in 0 .. Total, Seek(p) PROVE ReplayInv'
    <2>1. replay' \in Screen
      <3>1. [replay.state EXCEPT !.position = p] \in States
        BY <1>0 DEF States
      <3>2. replay' = [replay EXCEPT !.notice = FALSE, !.state = [replay.state EXCEPT !.position = p],
                                     !.seekTo = p]
        BY <1>0, <1>8 DEF Seek
      <3> QED BY <1>0, <3>1, <3>2
    <2>2. replay'.busy = replay.busy
      BY <1>0, <1>8 DEF Seek
    <2> QED BY <1>0, <1>1, <1>8, <2>1, <2>2 DEF Seek
  <1>9. CASE SendSeek
    <2>1. replay.seekTo \in 0 .. Total /\ Total \in Nat
      BY <1>0, <1>9, ReplayConstants DEF SendSeek
    <2>2. Call("seek", replay.seekTo, "sent") \in ReplayCallsOf
      BY <2>1, NoStateIsOne DEF Call, ReplayCallsOf
    <2> QED BY <1>0, <1>1, <1>9, <2>2 DEF SendSeek
  <1>10. ASSUME NEW c \in replayCalls, ExecuteControl(c) PROVE ReplayInv'
    <2> DEFINE d == [c EXCEPT !.stage = "asked"]
    <2>1. c \in ReplayCallsOf /\ c.kind \in {"play", "pause", "step", "speed", "seek"}
      BY <1>0, <1>10 DEF ExecuteControl, ReplayCallsOf
    <2>2. d \in ReplayCallsOf /\ d.kind = c.kind
      BY <2>1 DEF ReplayCallsOf
    <2>3. replayEngine' = Executed(c)
      BY <1>10 DEF ExecuteControl
    <2>4. Executed(c) \in States
      <3>0. replayEngine \in States /\ Total \in Nat
        BY <1>0, ReplayConstants
      <3>1. CASE c.kind = "play" BY <3>0, <3>1 DEF Executed, States
      <3>2. CASE c.kind = "pause" BY <3>0, <3>2 DEF Executed, States
      <3>3. CASE c.kind = "step" BY <3>0, <3>3 DEF Executed, States
      <3>4. CASE c.kind = "speed" BY <2>1, <3>0, <3>4 DEF Executed, States, ReplayCallsOf
      <3>5. CASE c.kind = "seek" BY <2>1, <3>0, <3>5 DEF Executed, States, ReplayCallsOf
      <3> QED BY <2>1, <3>1, <3>2, <3>3, <3>4, <3>5
    <2>5. replayCalls' = (replayCalls \ {c}) \cup {d} /\ replay' = [replay EXCEPT !.notice = FALSE]
      BY <1>10 DEF ExecuteControl
    <2> HIDE DEF d
    <2>6. replay' \in Screen /\ replay'.busy = replay.busy
      BY <1>0, <2>5
    <2>7. replay.busy => \E x \in replayCalls' : Holds(x.kind)
      BY <1>0, <2>2, <2>5
    <2> QED BY <1>0, <1>1, <2>2, <2>3, <2>4, <2>5, <2>6, <2>7
  <1>11. ASSUME NEW c \in replayCalls, ServeState(c) PROVE ReplayInv'
    <2> DEFINE d == [c EXCEPT !.stage = "served", !.answer = replayEngine]
    <2>1. c \in ReplayCallsOf
      BY <1>0
    <2>2. d \in ReplayCallsOf /\ d.kind = c.kind
      BY <1>0, <2>1 DEF ReplayCallsOf
    <2>3. replayCalls' = (replayCalls \ {c}) \cup {d} /\ UNCHANGED <<replay, replayEngine>>
      BY <1>11 DEF ServeState
    <2> HIDE DEF d
    <2>4. replay.busy => \E x \in replayCalls' : Holds(x.kind)
      BY <1>0, <2>2, <2>3
    <2> QED BY <1>0, <1>1, <2>2, <2>3, <2>4
  <1>12. ASSUME NEW c \in replayCalls, ShowState(c) PROVE ReplayInv'
    <2>1. c.answer \in States
      BY <1>0 DEF ReplayCallsOf
    <2>2. replay' = [replay EXCEPT !.loaded = TRUE, !.known = TRUE, !.state = c.answer,
                                   !.busy = @ /\ ~Holds(c.kind)]
          /\ replayCalls' = replayCalls \ {c} /\ UNCHANGED replayEngine
      BY <1>12 DEF ShowState
    <2>3. replay' \in Screen /\ replay'.busy = (replay.busy /\ ~Holds(c.kind))
      BY <1>0, <2>1, <2>2
    <2>4. replay'.busy => \E x \in replayCalls' : Holds(x.kind)
      BY <1>0, <2>2, <2>3
    <2> QED BY <1>0, <1>1, <2>2, <2>3, <2>4
  <1>13. ASSUME NEW c \in replayCalls, FailCall(c) PROVE ReplayInv'
    <2>1. replayCalls' = replayCalls \ {c} /\ UNCHANGED replayEngine
      BY <1>13 DEF FailCall
    <2>2. replay' \in Screen /\ replay'.busy = (replay.busy /\ ~Holds(c.kind))
      <3>1. CASE c.stage = "sent"
        <4> DEFINE s == [replay.state EXCEPT !.playing = @ /\ c.kind # "play"]
        <4>1. s \in States
          BY <1>0 DEF States
        <4>2. replay' = [replay EXCEPT !.notice = TRUE, !.busy = @ /\ ~Holds(c.kind), !.state = s]
          BY <1>0, <1>13, <3>1 DEF FailCall
        <4> HIDE DEF s
        <4> QED BY <1>0, <4>1, <4>2
      <3>2. CASE c.stage # "sent"
        <4>1. replay' = [replay EXCEPT !.notice = TRUE, !.loaded = TRUE, !.known = FALSE,
                                       !.state = NoState, !.busy = @ /\ ~Holds(c.kind)]
          BY <1>13, <3>2 DEF FailCall
        <4> QED BY <1>0, <4>1, NoStateIsOne
      <3> QED BY <3>1, <3>2
    <2>3. replay'.busy => \E x \in replayCalls' : Holds(x.kind)
      BY <1>0, <2>1, <2>2
    <2> QED BY <1>0, <1>1, <2>1, <2>2, <2>3
  <1> QED BY <1>2, <1>3, <1>4, <1>5, <1>6, <1>7, <1>8, <1>9, <1>10, <1>11, <1>12, <1>13
          DEF ReplayNext

-----------------------------------------------------------------------------
\* The recordings (Recordings.tsx).

\* The list a command waits for is the only one of its kind.
OneCommandListing ==
    \A q, r \in listings :
        q.for = "command" => recCommand.stage = "listing" /\ (r.for = "command" => r = q)

\* Without a stray command the flag follows the engine through every stage of a command.
RecordingsInv ==
    /\ RecordingsTypeOK /\ BusyIsOneCommand
    /\ \A q \in listings : q \in [for : {"mount", "command"}, list : SUBSET Saved,
                                  stage : {"asked", "ok", "other", "failed"}]
    /\ OneCommandListing
    /\ recCommand \in [verb : {"none", "start", "stop"},
                       stage : {"none", "asked", "ok", "refused", "listing"}]
    /\ recCommand.verb = "none" <=> recCommand = Idle
    /\ strayCommand \in [verb : {"none", "start", "stop"}, stage : {"none", "asked", "served"}]
    /\ strayCommand = Idle =>
          /\ recCommand.stage # "ok" /\ recs.recording => recEngine.recording
          /\ recCommand = [verb |-> "start", stage |-> "ok"] => recEngine.recording

\* The recordings when they are opened.
LEMMA RecordingsStart == ASSUME RecordingsInit PROVE RecordingsInv
  <1> USE DEF RecordingsInit, RecFresh, Asked, Idle
  <1>1. RecordingsTypeOK
    <2>1. recEngine \in [recording : BOOLEAN, saved : SUBSET Saved]
      OBVIOUS
    <2>2. recs \in [list : SUBSET Saved, recording : BOOLEAN, filter : {"all"} \cup PrivacyLevels,
                    loaded : BOOLEAN, busy : BOOLEAN, notice : BOOLEAN]
      OBVIOUS
    <2>3. \A q \in listings : q.list \subseteq Saved /\ q.stage = "asked"
      OBVIOUS
    <2> QED BY <2>1, <2>2, <2>3 DEF RecordingsTypeOK
  <1>2. BusyIsOneCommand /\ OneCommandListing
    BY DEF BusyIsOneCommand, OneCommandListing
  <1> QED BY <1>1, <1>2 DEF RecordingsInv

\* What a command makes of the engine.
LEMMA EngineObeys ==
    ASSUME recEngine \in [recording : BOOLEAN, saved : SUBSET Saved], NEW verb, Obeys(verb)
    PROVE  /\ recEngine' \in [recording : BOOLEAN, saved : SUBSET Saved]
           /\ verb = "start" => recEngine'.recording
  <1>1. CASE verb = "start" /\ recEngine' = [recEngine EXCEPT !.recording = TRUE]
    BY <1>1
  <1>2. CASE verb = "stop" /\ \E r \in Saved :
                recEngine' = [recording |-> FALSE, saved |-> recEngine.saved \cup {r}]
    BY <1>2
  <1> QED BY <1>1, <1>2 DEF Obeys

\* Every step of the recordings and of their engine.
LEMMA RecordingsStep == ASSUME RecordingsInv, [RecordingsNext]_recordingsVars PROVE RecordingsInv'
  <1> USE DEF RecordingsInv, RecordingsTypeOK, BusyIsOneCommand, OneCommandListing, Idle
  <1>1. CASE UNCHANGED recordingsVars
    BY <1>1 DEF recordingsVars
  <1>2. ASSUME NEW level \in {"all"} \cup PrivacyLevels, SetPrivacyFilter(level) PROVE RecordingsInv'
    <2>1. /\ recs' = [recs EXCEPT !.filter = level]
          /\ UNCHANGED <<listings, recCommand, strayCommand, recEngine>>
      BY <1>2 DEF SetPrivacyFilter
    <2>2. /\ recs' \in [list : SUBSET Saved, recording : BOOLEAN, filter : {"all"} \cup PrivacyLevels,
                       loaded : BOOLEAN, busy : BOOLEAN, notice : BOOLEAN]
          /\ recs'.busy = recs.busy /\ recs'.recording = recs.recording
      BY <1>2, <2>1
    <2> QED BY <2>1, <2>2
  <1>3. CASE DismissRecNotice
    <2>1. /\ recs' = [recs EXCEPT !.notice = FALSE]
          /\ UNCHANGED <<listings, recCommand, strayCommand, recEngine>>
      BY <1>3 DEF DismissRecNotice
    <2>2. /\ recs' \in [list : SUBSET Saved, recording : BOOLEAN, filter : {"all"} \cup PrivacyLevels,
                       loaded : BOOLEAN, busy : BOOLEAN, notice : BOOLEAN]
          /\ recs'.busy = recs.busy /\ recs'.recording = recs.recording
      BY <2>1
    <2> QED BY <2>1, <2>2
  <1>4. CASE LeaveRecordings
    <2>1. /\ recs' = RecFresh /\ listings' = {Asked("mount")} /\ recCommand' = Idle
          /\ UNCHANGED recEngine
      BY <1>4 DEF LeaveRecordings
    <2>2. /\ strayCommand' \in [verb : {"none", "start", "stop"}, stage : {"none", "asked", "served"}]
      <3>1. CASE recCommand.stage = "asked"
        BY <1>4, <3>1 DEF LeaveRecordings
      <3>2. CASE recCommand.stage # "asked"
        BY <1>4, <3>2 DEF LeaveRecordings
      <3> QED BY <3>1, <3>2
    <2>3. ~recs'.busy /\ ~recs'.recording /\ recs'.filter = "all"
          /\ recs' \in [list : SUBSET Saved, recording : BOOLEAN, filter : {"all"} \cup PrivacyLevels,
                       loaded : BOOLEAN, busy : BOOLEAN, notice : BOOLEAN]
      BY <2>1 DEF RecFresh
    <2>4. RecordingsTypeOK' /\ BusyIsOneCommand'
      BY <2>1, <2>2, <2>3 DEF Asked
    <2>5. OneCommandListing'
      BY <2>1 DEF Asked
    <2> QED BY <2>1, <2>2, <2>3, <2>4, <2>5 DEF Asked
  <1>5. ASSUME NEW verb \in {"start", "stop"}, PressRecord(verb) PROVE RecordingsInv'
    <2>1. ~recs.busy
      BY <1>5 DEF PressRecord, RecordingsView
    <2>2. /\ recs' = [recs EXCEPT !.notice = FALSE, !.busy = TRUE]
          /\ recCommand' = [verb |-> verb, stage |-> "asked"]
          /\ UNCHANGED <<listings, strayCommand, recEngine>>
      BY <1>5 DEF PressRecord
    <2>3. \A q \in listings : q.for # "command"
      BY <2>1
    <2>4. OneCommandListing'
      BY <2>2, <2>3
    <2>5. recs'.busy /\ recCommand'.verb # "none" /\ recs'.recording = recs.recording
      BY <2>2
    <2>6. RecordingsTypeOK'
      BY <2>2
    <2> HIDE DEF OneCommandListing, RecordingsTypeOK
    <2> QED BY <2>1, <2>2, <2>4, <2>5, <2>6
  <1>6. CASE EngineRecords
    <2>1. recCommand.stage = "asked" /\ recCommand.verb \in {"start", "stop"}
          /\ UNCHANGED <<recs, listings, strayCommand>>
      BY <1>6 DEF EngineRecords
    <2>2. CASE Obeys(recCommand.verb) /\ recCommand' = [recCommand EXCEPT !.stage = "ok"]
      <3>1. recEngine' \in [recording : BOOLEAN, saved : SUBSET Saved]
            /\ (recCommand.verb = "start" => recEngine'.recording)
        BY <2>2, EngineObeys
      <3> QED BY <2>1, <2>2, <3>1
    <2>3. CASE UNCHANGED recEngine /\ recCommand' = [recCommand EXCEPT !.stage = "refused"]
      BY <2>1, <2>3
    <2> QED BY <1>6, <2>2, <2>3 DEF EngineRecords
  <1>7. CASE EngineServesStray
    <2>1. strayCommand.stage = "asked" /\ strayCommand' = [strayCommand EXCEPT !.stage = "served"]
          /\ UNCHANGED <<recs, listings, recCommand>>
      BY <1>7 DEF EngineServesStray
    <2>2. recEngine' \in [recording : BOOLEAN, saved : SUBSET Saved]
      BY <1>7, EngineObeys DEF EngineServesStray
    <2>3. strayCommand' # Idle /\ strayCommand' \in [verb : {"none", "start", "stop"}, stage : {"none", "asked", "served"}]
      BY <2>1
    <2> QED BY <2>1, <2>2, <2>3
  <1>8. CASE RecordDone
    <2>1. /\ recCommand.stage = "ok" /\ recCommand.verb \in {"start", "stop"}
          /\ recs' = [recs EXCEPT !.recording = (recCommand.verb = "start"), !.notice = FALSE]
          /\ listings' = listings \cup {Asked("command")}
          /\ recCommand' = [recCommand EXCEPT !.stage = "listing"]
          /\ UNCHANGED <<strayCommand, recEngine>>
      BY <1>8 DEF RecordDone, RecFetch
    <2>2. recCommand.verb = "start" => recCommand = [verb |-> "start", stage |-> "ok"]
      BY <2>1
    <2>3. Asked("command") \in [for : {"mount", "command"}, list : SUBSET Saved,
                                stage : {"asked", "ok", "other", "failed"}]
      BY DEF Asked
    <2> QED BY <2>1, <2>2, <2>3
  <1>9. CASE RecordRefused
    BY <1>9 DEF RecordRefused
  <1>10. CASE EngineLists
    <2>1. PICK q \in listings, r \in [for : {"mount", "command"}, list : SUBSET Saved,
                                      stage : {"asked", "ok", "other", "failed"}] :
             q.for = r.for /\ listings' = (listings \ {q}) \cup {r}
      <3>1. PICK q \in listings :
               \/ listings' = (listings \ {q}) \cup {[q EXCEPT !.stage = "ok", !.list = recEngine.saved]}
               \/ \E s \in {"other", "failed"} :
                     listings' = (listings \ {q}) \cup {[q EXCEPT !.stage = s]}
        BY <1>10 DEF EngineLists
      <3> QED BY <3>1
    <2> QED BY <1>10, <2>1 DEF EngineLists
  <1>11. ASSUME NEW q \in listings, RecListed(q) PROVE RecordingsInv'
    <2>1. /\ listings' = listings \ {q}
          /\ recs' = [recs EXCEPT !.list = q.list, !.notice = @ \/ q.stage = "failed",
                                  !.loaded = TRUE, !.busy = @ /\ q.for = "mount"]
          /\ recCommand' = (IF q.for = "command" THEN Idle ELSE recCommand)
          /\ UNCHANGED <<strayCommand, recEngine>>
      BY <1>11 DEF RecListed
    <2>2. q.for \in {"mount", "command"} /\ q.list \in SUBSET Saved
      OBVIOUS
    <2>3. CASE q.for = "mount"
      <3>1. recs'.busy = recs.busy /\ recCommand' = recCommand
        BY <2>1, <2>3
      <3>2. OneCommandListing'
        BY <2>1, <3>1
      <3>3. recs'.recording = recs.recording
        BY <2>1
      <3>4. RecordingsTypeOK'
        BY <2>1, <2>2
      <3> HIDE DEF OneCommandListing, RecordingsTypeOK
      <3> QED BY <2>1, <3>1, <3>2, <3>3, <3>4
    <2>4. CASE q.for = "command"
      <3>1. recs'.busy = FALSE /\ recCommand' = Idle /\ recCommand.stage = "listing"
        BY <2>1, <2>4
      <3>2. \A r \in listings' : r.for # "command"
        BY <2>1, <2>4
      <3>3. OneCommandListing' /\ recs'.recording = recs.recording
        BY <2>1, <3>2
      <3>4. RecordingsTypeOK'
        <4>1. recs' \in [list : SUBSET Saved, recording : BOOLEAN, filter : {"all"} \cup PrivacyLevels,
                         loaded : BOOLEAN, busy : BOOLEAN, notice : BOOLEAN]
          BY <2>1, <2>2
        <4> QED BY <2>1, <3>1, <4>1
      <3> HIDE DEF OneCommandListing, RecordingsTypeOK
      <3> QED BY <2>1, <3>1, <3>3, <3>4
    <2> QED BY <2>2, <2>3, <2>4
  <1> QED BY <1>1, <1>2, <1>3, <1>4, <1>5, <1>6, <1>7, <1>8, <1>9, <1>10, <1>11
          DEF RecordingsNext, RecordingsSystem

\* The recording shown as running is one.
LEMMA RecordingIsReal == ASSUME RecordingsInv PROVE ShownRecordingIsReal
  BY DEF RecordingsInv, ShownRecordingIsReal

-----------------------------------------------------------------------------
\* The fleet (Fleet.tsx).

\* The fleet is typed and waits only for an answer that comes.
FleetInv == FleetTypeOK /\ FleetWaitHasCause

\* The fleet when it is opened.
LEMMA FleetStarts == ASSUME FleetInit PROVE FleetInv
  BY FleetConstants DEF FleetInit, FleetFresh, FleetInv, FleetTypeOK, FleetWaitHasCause

\* Every step of the fleet, several synchronisations under way.
LEMMA FleetStep == ASSUME FleetInv, [FleetNext]_fleetVars PROVE FleetInv'
  <1> USE FleetConstants DEF FleetInv, FleetTypeOK, FleetWaitHasCause
  <1>1. CASE UNCHANGED fleetVars
    BY <1>1 DEF fleetVars
  <1>2. ASSUME NEW s \in {"all", "online", "degraded", "offline"}, SetStatusFilter(s) PROVE FleetInv'
    BY <1>2 DEF SetStatusFilter
  <1>3. CASE ResetFleetFilters
    BY <1>3 DEF ResetFleetFilters
  <1>8. ASSUME NEW found \in SUBSET Hosts, SetFleetSearch(found) PROVE FleetInv'
    BY <1>8 DEF SetFleetSearch
  <1>4. CASE DismissFleetNotice
    BY <1>4 DEF DismissFleetNotice
  <1>5. CASE RefreshFleet
    <2>1. syncs < MaxSyncs /\ syncs' = syncs + 1
          /\ fleet' = [fleet EXCEPT !.refreshing = TRUE, !.notice = FALSE]
      BY <1>5 DEF RefreshFleet
    <2>2. syncs' \in 0 .. MaxSyncs /\ syncs' > 0
      BY <2>1
    <2> QED BY <2>1, <2>2
  <1>6. CASE LeaveFleet
    BY <1>6 DEF LeaveFleet, FleetFresh
  <1>7. ASSUME NEW kind, NEW hosts \in SUBSET Hosts, FleetAnswered(kind, hosts) PROVE FleetInv'
    <2>1. fleet' = [fleet EXCEPT !.hosts = IF kind = "ok" THEN hosts ELSE {},
                                 !.synced = @ \/ kind = "ok", !.notice = @ \/ kind # "ok",
                                 !.loaded = TRUE, !.refreshing = FALSE]
          /\ syncs' = syncs - 1 /\ syncs > 0
      BY <1>7 DEF FleetAnswered
    <2>2. syncs' \in 0 .. MaxSyncs
      BY <2>1
    <2> QED BY <2>1, <2>2
  <1> QED BY <1>1, <1>2, <1>3, <1>4, <1>5, <1>6, <1>7, <1>8 DEF FleetNext

-----------------------------------------------------------------------------
\* The findings (Security.tsx).

\* The findings, the marks among their keys, and what the screen hides.
SecurityInv ==
    /\ SecurityTypeOK
    /\ security \in [findings : SUBSET Findings, loaded : BOOLEAN, notice : BOOLEAN,
                     category : {"all"} \cup FindingCategories, showExpected : BOOLEAN,
                     expected : SUBSET Keys]

\* The findings when they are opened, whatever the browser stored.
LEMMA SecurityStarts == ASSUME SecurityInit PROVE SecurityInv
  <1> USE DEF SecurityInit, SecurityFresh, LoadExpectedSet
  <1>1. expectedStored \in [readable : BOOLEAN, marks : SUBSET Keys]
    OBVIOUS
  <1> QED BY <1>1 DEF SecurityInv, SecurityTypeOK

\* Every step of the findings, saved or not.
LEMMA SecurityStep == ASSUME SecurityInv, [SecurityNext]_securityVars PROVE SecurityInv'
  <1> USE DEF SecurityInv, SecurityTypeOK
  <1>1. CASE UNCHANGED securityVars
    BY <1>1 DEF securityVars
  <1>2. ASSUME NEW f \in Findings, ToggleExpected(f) PROVE SecurityInv'
    <2> DEFINE key == FindingKey(f)
               next == IF key \in security.expected THEN security.expected \ {key}
                                                    ELSE security.expected \cup {key}
    <2>1. key \in Keys
      BY DEF Keys
    <2>2. next \in SUBSET Keys
      BY <2>1
    <2>3. security' = [security EXCEPT !.expected = next] /\ secQuery' = secQuery
          /\ expectedStored' \in {[readable |-> TRUE, marks |-> next], expectedStored}
      BY <1>2 DEF ToggleExpected, Save
    <2> HIDE DEF next, key
    <2>4. expectedStored' \in [readable : BOOLEAN, marks : SUBSET Keys]
      <3>1. CASE expectedStored' = [readable |-> TRUE, marks |-> next]
        <4>1. TRUE \in BOOLEAN
          OBVIOUS
        <4> QED BY <2>2, <3>1, <4>1
      <3>2. CASE expectedStored' = expectedStored
        BY <3>2
      <3> QED BY <2>3, <3>1, <3>2
    <2> QED BY <2>2, <2>3, <2>4
  <1>3. CASE ToggleShowExpected
    BY <1>3 DEF ToggleShowExpected
  <1>4. CASE DismissSecurityNotice
    BY <1>4 DEF DismissSecurityNotice
  <1>5. CASE LeaveSecurity
    BY <1>5 DEF LeaveSecurity, SecurityFresh, LoadExpectedSet
  <1>6. ASSUME NEW c \in {"all"} \cup FindingCategories, SetFindingCategory(c) PROVE SecurityInv'
    BY <1>6 DEF SetFindingCategory
  <1>7. ASSUME NEW kind, NEW fs \in SUBSET Findings, FindingsAnswered(kind, fs) PROVE SecurityInv'
    BY <1>7 DEF FindingsAnswered
  <1> QED BY <1>1, <1>2, <1>3, <1>4, <1>5, <1>6, <1>7 DEF SecurityNext

\* The steps that change the marks are those of a card, and the return to the screen.
LEMMA MarksChange ==
    ASSUME SecurityInv, [SecurityNext]_securityVars,
           NEW key \in security.expected \ security'.expected
    PROVE  \/ \E f \in FilteredFindings : ToggleExpected(f) /\ FindingKey(f) = key
           \/ LeaveSecurity /\ key \notin LoadExpectedSet(expectedStored)
  <1>0. security \in [findings : SUBSET Findings, loaded : BOOLEAN, notice : BOOLEAN,
                     category : {"all"} \cup FindingCategories, showExpected : BOOLEAN,
                     expected : SUBSET Keys]
    BY DEF SecurityInv
  <1>1. ASSUME NEW f \in Findings, ToggleExpected(f) PROVE f \in FilteredFindings /\ FindingKey(f) = key
    BY <1>0, <1>1 DEF ToggleExpected
  <1>2. CASE LeaveSecurity
    BY <1>2 DEF LeaveSecurity, SecurityFresh
  <1>3. ASSUME security'.expected = security.expected PROVE FALSE
    BY <1>3
  <1>4. CASE UNCHANGED securityVars
    BY <1>3, <1>4 DEF securityVars
  <1>5. CASE ToggleShowExpected \/ DismissSecurityNotice \/ \E c : SetFindingCategory(c)
    BY <1>0, <1>3, <1>5 DEF ToggleShowExpected, DismissSecurityNotice, SetFindingCategory
  <1>6. CASE \E kind, fs : FindingsAnswered(kind, fs)
    BY <1>0, <1>3, <1>6 DEF FindingsAnswered
  <1> QED BY <1>1, <1>2, <1>4, <1>5, <1>6 DEF SecurityNext

-----------------------------------------------------------------------------
\* The plugins (Plugins.tsx).

\* What a configuration command may carry.
CallTexts == Configs \cup {"null"}
\* The commands, at each stage.
PluginCalls ==
    {c \in [verb : {"none", "toggle", "configure"}, name : PluginNames,
            arg : {"none"} \cup Switch \cup CallTexts, before : Switch,
            stage : {"none", "asked", "done", "failed", "listing"}] :
        c.verb = "toggle" => c.arg \in Switch}
\* The lists the engine answers with.
PluginLists == [any : BOOLEAN, enabled : [PluginNames -> Switch], config : Configs]

\* A list is asked for before there are cards, or by the command that waits for it, and
\* there is nothing in it until it is served.
ListIsFor ==
    /\ pluginList.stage # "ok" => ~pluginList.list.any
    /\ pluginList.stage # "none" /\ pluginList.for = "mount" => ~plugins.loaded /\ ~plugins.busy
    /\ pluginList.stage # "none" /\ pluginList.for # "mount" => pluginCall.stage = "listing"
    /\ pluginCall.stage = "listing" => pluginList.stage # "none" /\ pluginList.for = "call"

\* What the switches show of the engine, as a function of the command under way.
SwitchesFollow ==
    ~doubt =>
        /\ pluginList.stage = "ok" => pluginList.list.enabled = pluginEngine.enabled
        /\ HasCards /\ pluginCall.stage = "none" /\ pluginList.stage = "none" =>
              plugins.list.enabled = pluginEngine.enabled
        /\ HasCards /\ pluginCall.stage \in {"asked", "failed"} =>
              /\ pluginCall.verb = "toggle" =>
                    /\ plugins.list.enabled
                         = [pluginEngine.enabled EXCEPT ![pluginCall.name] = pluginCall.arg]
                    /\ pluginCall.before = pluginEngine.enabled[pluginCall.name]
              /\ pluginCall.verb # "toggle" => plugins.list.enabled = pluginEngine.enabled

\* The list, the draft, the command and the engine, together.
PluginsInv ==
    /\ PluginsTypeOK /\ BusyIsOneCall /\ DraftIsWhatIsShown
    /\ plugins \in [list : PluginLists, loaded : BOOLEAN, busy : BOOLEAN, notice : BOOLEAN]
    /\ form \in [data : CallTexts, text : CallTexts \cup BadTexts, error : BOOLEAN, crashed : BOOLEAN]
    /\ pluginCall \in PluginCalls /\ strayCall \in PluginCalls
    /\ pluginCall.verb = "none" <=> pluginCall = NoPluginCall
    /\ pluginCall.stage = "none" <=> pluginCall = NoPluginCall
    /\ pluginList \in [for : {"none", "mount", "call"}, stage : {"none", "asked", "ok", "failed"},
                       list : PluginLists]
    /\ pluginList.stage = "none" <=> pluginList = NoList
    /\ doubt \in BOOLEAN
    /\ ListIsFor /\ SwitchesFollow

\* The absence of a list and of a command are such values.
LEMMA PluginFacts ==
    ASSUME Configs # {}
    PROVE  /\ NothingListed \in PluginLists /\ ~NothingListed.any
           /\ NoPluginCall \in PluginCalls
           /\ NoPluginCall.verb = "none" /\ NoPluginCall.stage = "none"
           /\ NoList \in [for : {"none", "mount", "call"}, stage : {"none", "asked", "ok", "failed"},
                          list : PluginLists]
           /\ NoList.stage = "none"
  <1>1. (CHOOSE c \in Configs : TRUE) \in Configs
    OBVIOUS
  <1>2. NothingListed \in PluginLists /\ ~NothingListed.any
    BY <1>1 DEF NothingListed, PluginLists, Switch
  <1>3. NoPluginCall \in PluginCalls /\ NoPluginCall.verb = "none" /\ NoPluginCall.stage = "none"
    BY PluginsConstants DEF NoPluginCall, PluginCalls, Switch
  <1> QED BY <1>2, <1>3 DEF NoList

\* A form that shows a configuration of the engine.
LEMMA FormFacts ==
    ASSUME NEW c \in Configs
    PROVE  FormOf(c) \in [data : CallTexts, text : CallTexts \cup BadTexts, error : BOOLEAN,
                          crashed : BOOLEAN] /\ FormOf(c).text = FormOf(c).data
  BY DEF FormOf, CallTexts

\* A freshly mounted screen, whatever the engine and a stray command are.
LEMMA MountedKeeps ==
    ASSUME plugins' = PluginsFresh, form' = FormOf(pluginEngine'.config),
           pluginCall' = NoPluginCall, pluginList' = AskedFor("mount"),
           pluginEngine' \in [enabled : [PluginNames -> Switch], config : Configs],
           strayCall' \in PluginCalls, doubt' \in BOOLEAN
    PROVE  PluginsInv'
  <1>1. pluginEngine'.config \in Configs
    OBVIOUS
  <1> USE PluginFacts, FormFacts, <1>1
  <1>2. plugins' \in [list : PluginLists, loaded : BOOLEAN, busy : BOOLEAN, notice : BOOLEAN]
        /\ plugins'.list \in PluginLists /\ ~plugins'.loaded /\ ~plugins'.busy /\ plugins'.notice = FALSE
    BY DEF PluginsFresh
  <1>3. pluginList' \in [for : {"none", "mount", "call"}, stage : {"none", "asked", "ok", "failed"},
                         list : PluginLists] /\ pluginList'.stage = "asked" /\ pluginList'.for = "mount"
        /\ ~pluginList'.list.any
    BY DEF AskedFor
  <1>4. form' \in [data : CallTexts, text : CallTexts \cup BadTexts, error : BOOLEAN, crashed : BOOLEAN]
        /\ form'.text = form'.data
    OBVIOUS
  <1>5. pluginCall'.stage = "none" /\ pluginCall'.verb = "none" /\ pluginCall' \in PluginCalls
    OBVIOUS
  <1>6. PluginsTypeOK'
    BY <1>2, <1>4, <1>5 DEF PluginsTypeOK, PluginLists, CallTexts
  <1>7. ListIsFor' /\ SwitchesFollow'
    BY <1>2, <1>3, <1>5 DEF ListIsFor, SwitchesFollow, HasCards
  <1>8. BusyIsOneCall' /\ DraftIsWhatIsShown'
    BY <1>2, <1>4 DEF BusyIsOneCall, DraftIsWhatIsShown
  <1>9. (pluginList'.stage = "none" <=> pluginList' = NoList')
    BY <1>3
  <1> QED BY <1>2, <1>3, <1>4, <1>5, <1>6, <1>7, <1>8, <1>9 DEF PluginsInv

\* The plugins when they are opened.
LEMMA PluginsStart == ASSUME PluginsInit PROVE PluginsInv
  <1>1. pluginEngine.config \in Configs
    BY DEF PluginsInit
  <1> USE PluginFacts, FormFacts, <1>1 DEF PluginsInit
  <1>2. plugins \in [list : PluginLists, loaded : BOOLEAN, busy : BOOLEAN, notice : BOOLEAN]
        /\ plugins.list \in PluginLists /\ ~plugins.loaded /\ ~plugins.busy /\ plugins.notice = FALSE
    BY DEF PluginsFresh
  <1>3. pluginList \in [for : {"none", "mount", "call"}, stage : {"none", "asked", "ok", "failed"},
                        list : PluginLists] /\ pluginList.stage = "asked" /\ pluginList.for = "mount"
        /\ ~pluginList.list.any
    BY DEF AskedFor
  <1>4. form \in [data : CallTexts, text : CallTexts \cup BadTexts, error : BOOLEAN, crashed : BOOLEAN]
        /\ form.text = form.data
    OBVIOUS
  <1>6. PluginsTypeOK
    BY <1>2, <1>4 DEF PluginsTypeOK, PluginLists, CallTexts
  <1>7. ListIsFor /\ SwitchesFollow
    BY <1>2, <1>3 DEF ListIsFor, SwitchesFollow, HasCards
  <1>8. BusyIsOneCall /\ DraftIsWhatIsShown
    BY <1>2, <1>4 DEF BusyIsOneCall, DraftIsWhatIsShown
  <1> QED BY <1>2, <1>3, <1>4, <1>6, <1>7, <1>8 DEF PluginsInv

\* The steps that only touch the draft.
LEMMA DraftKeeps ==
    ASSUME PluginsInv,
           form' \in [data : CallTexts, text : CallTexts \cup BadTexts, error : BOOLEAN, crashed : BOOLEAN],
           ~form'.error => form'.text = form'.data,
           UNCHANGED <<plugins, pluginCall, pluginList, pluginEngine, strayCall, doubt>>
    PROVE  PluginsInv'
  <1>1. PluginsTypeOK'
    BY DEF PluginsInv, PluginsTypeOK, CallTexts
  <1>2. ListIsFor' /\ SwitchesFollow'
    BY DEF PluginsInv, ListIsFor, SwitchesFollow, HasCards
  <1>3. BusyIsOneCall' /\ DraftIsWhatIsShown'
    BY DEF PluginsInv, BusyIsOneCall, DraftIsWhatIsShown
  <1> QED BY <1>1, <1>2, <1>3 DEF PluginsInv

\* A command starts when none is under way, and a switch turns before the engine is asked.
LEMMA StartKeeps ==
    ASSUME PluginsInv, NEW verb \in {"toggle", "configure"}, NEW n \in PluginNames, NEW arg \in Switch \cup CallTexts,
           verb = "toggle" => arg \in Switch, StartCall(verb, n, arg)
    PROVE  PluginsInv'
  <1> DEFINE on == IF verb = "toggle" THEN [plugins.list.enabled EXCEPT ![n] = arg]
                                      ELSE plugins.list.enabled
             call == [verb |-> verb, name |-> n, arg |-> arg,
                      before |-> plugins.list.enabled[n], stage |-> "asked"]
  <1>0. /\ plugins \in [list : PluginLists, loaded : BOOLEAN, busy : BOOLEAN, notice : BOOLEAN]
        /\ plugins.list \in PluginLists /\ plugins.list.enabled \in [PluginNames -> Switch]
    BY DEF PluginsInv, PluginLists
  <1>1. /\ HasCards /\ ~plugins.busy /\ pluginCall' = call
        /\ plugins' = [plugins EXCEPT !.notice = FALSE, !.busy = TRUE,
                                      !.list = [plugins.list EXCEPT !.enabled = on]]
        /\ UNCHANGED <<form, pluginList, pluginEngine, strayCall, doubt>>
    BY <1>0 DEF StartCall
  <1>2. pluginCall = NoPluginCall /\ pluginCall.stage = "none" /\ pluginList.stage = "none"
    BY <1>1 DEF PluginsInv, BusyIsOneCall, ListIsFor, HasCards
  <1>3. call \in PluginCalls /\ call.verb = verb /\ call.name = n /\ call.arg = arg
        /\ call.before = plugins.list.enabled[n] /\ call.stage = "asked"
    BY <1>0 DEF PluginCalls
  <1>4. on \in [PluginNames -> Switch]
    BY <1>0
  <1>5. ~doubt => plugins.list.enabled = pluginEngine.enabled
    BY <1>1, <1>2 DEF PluginsInv, SwitchesFollow
  <1>6. ~doubt => /\ verb = "toggle" => on = [pluginEngine.enabled EXCEPT ![n] = arg]
                  /\ verb # "toggle" => on = pluginEngine.enabled
    BY <1>5
  <1> HIDE DEF on, call
  <1>7. /\ plugins' \in [list : PluginLists, loaded : BOOLEAN, busy : BOOLEAN, notice : BOOLEAN]
        /\ plugins'.list \in PluginLists /\ plugins'.busy /\ plugins'.loaded = plugins.loaded
        /\ plugins'.list.enabled = on /\ plugins'.list.any = plugins.list.any
        /\ plugins'.notice = FALSE
    BY <1>0, <1>1, <1>4 DEF PluginLists
  <1>8. PluginsTypeOK'
    BY <1>1, <1>3, <1>7 DEF PluginsInv, PluginsTypeOK, PluginLists
  <1>9. BusyIsOneCall' /\ DraftIsWhatIsShown' /\ call # NoPluginCall
    BY <1>1, <1>3, <1>7 DEF PluginsInv, BusyIsOneCall, DraftIsWhatIsShown, NoPluginCall
  <1>10. ListIsFor'
    BY <1>1, <1>2, <1>3 DEF PluginsInv, ListIsFor
  <1>11. SwitchesFollow'
    BY <1>1, <1>2, <1>3, <1>5, <1>6, <1>7 DEF SwitchesFollow
  <1> QED BY <1>1, <1>3, <1>7, <1>8, <1>9, <1>10, <1>11 DEF PluginsInv

\* What the engine makes of a command.
LEMMA ServedFact ==
    ASSUME pluginEngine \in [enabled : [PluginNames -> Switch], config : Configs], NEW c \in PluginCalls
    PROVE  /\ Served(c) \in [enabled : [PluginNames -> Switch], config : Configs]
           /\ c.verb = "toggle" => Served(c).enabled = [pluginEngine.enabled EXCEPT ![c.name] = c.arg]
           /\ c.verb # "toggle" => Served(c).enabled = pluginEngine.enabled
  <1>1. CASE c.verb = "toggle"
    <2>1. c.arg \in Switch /\ c.name \in PluginNames
      BY <1>1 DEF PluginCalls
    <2>2. Served(c) = [pluginEngine EXCEPT !.enabled = [pluginEngine.enabled EXCEPT ![c.name] = c.arg]]
      BY <1>1 DEF Served
    <2> QED BY <1>1, <2>1, <2>2
  <1>2. CASE c.verb # "toggle"
    BY <1>2 DEF Served
  <1> QED BY <1>1, <1>2

\* What the command, served or refused, makes of the engine.
LEMMA EngineServesKeeps == ASSUME PluginsInv, EngineServesPlugin PROVE PluginsInv'
  <1> DEFINE done == [pluginCall EXCEPT !.stage = "done"]
             failed == [pluginCall EXCEPT !.stage = "failed"]
  <1>0. /\ pluginCall \in PluginCalls /\ pluginCall.stage = "asked" /\ pluginCall.verb # "none"
        /\ pluginEngine \in [enabled : [PluginNames -> Switch], config : Configs]
        /\ UNCHANGED <<plugins, form, pluginList, strayCall>>
    BY DEF PluginsInv, PluginsTypeOK, EngineServesPlugin, NoPluginCall
  <1>1. /\ done \in PluginCalls /\ failed \in PluginCalls
        /\ done.verb = pluginCall.verb /\ failed.verb = pluginCall.verb
        /\ failed.name = pluginCall.name /\ failed.arg = pluginCall.arg
        /\ failed.before = pluginCall.before
        /\ done.stage = "done" /\ failed.stage = "failed"
        /\ done # NoPluginCall /\ failed # NoPluginCall
    BY <1>0 DEF PluginCalls, NoPluginCall
  <1>2. /\ pluginEngine' = Served(pluginCall) \/ pluginEngine' = pluginEngine
        /\ pluginEngine' \in [enabled : [PluginNames -> Switch], config : Configs]
        /\ \/ pluginCall' = done
           \/ pluginCall' = failed /\ ((pluginEngine' = pluginEngine /\ doubt' = doubt) \/ doubt' = TRUE)
        /\ doubt' \in BOOLEAN
    <2>1. doubt \in BOOLEAN
      BY DEF PluginsInv
    <2> QED BY <1>0, <2>1, ServedFact DEF EngineServesPlugin
  <1> HIDE DEF done, failed
  <1>3. pluginCall' \in PluginCalls /\ pluginCall'.stage \in {"done", "failed"} /\ pluginCall' # NoPluginCall
        /\ pluginCall'.verb = pluginCall.verb
    BY <1>1, <1>2
  <1>4. pluginList.stage = "none" /\ pluginCall # NoPluginCall
    <2>1. pluginCall # NoPluginCall
      BY <1>0 DEF NoPluginCall
    <2> QED BY <1>0, <2>1 DEF PluginsInv, ListIsFor, BusyIsOneCall
  <1>5. PluginsTypeOK'
    BY <1>0, <1>2, <1>3 DEF PluginsInv, PluginsTypeOK
  <1>6. BusyIsOneCall' /\ DraftIsWhatIsShown'
    BY <1>0, <1>3, <1>4 DEF PluginsInv, BusyIsOneCall, DraftIsWhatIsShown
  <1>7. ListIsFor'
    BY <1>0, <1>3, <1>4 DEF PluginsInv, ListIsFor
  <1>8. SwitchesFollow'
    <2>1. CASE pluginCall' = done
      BY <1>0, <1>1, <1>4, <2>1 DEF SwitchesFollow
    <2>2. CASE doubt' = TRUE
      BY <2>2 DEF SwitchesFollow
    <2>3. CASE pluginCall' = failed /\ pluginEngine' = pluginEngine /\ doubt' = doubt
      BY <1>0, <1>1, <1>4, <2>3 DEF PluginsInv, SwitchesFollow, HasCards
    <2> QED BY <1>2, <2>1, <2>2, <2>3
  <1> QED BY <1>0, <1>2, <1>3, <1>5, <1>6, <1>7, <1>8 DEF PluginsInv

\* Every step of the plugins and of their engine.
LEMMA PluginsStep == ASSUME PluginsInv, [PluginsNext]_pluginsVars PROVE PluginsInv'
  <1>0. /\ plugins \in [list : PluginLists, loaded : BOOLEAN, busy : BOOLEAN, notice : BOOLEAN]
        /\ plugins.list \in PluginLists /\ plugins.list.enabled \in [PluginNames -> Switch]
        /\ form \in [data : CallTexts, text : CallTexts \cup BadTexts, error : BOOLEAN, crashed : BOOLEAN]
        /\ pluginCall \in PluginCalls /\ strayCall \in PluginCalls
        /\ pluginList \in [for : {"none", "mount", "call"}, stage : {"none", "asked", "ok", "failed"},
                          list : PluginLists]
        /\ pluginEngine \in [enabled : [PluginNames -> Switch], config : Configs]
        /\ doubt \in BOOLEAN
    BY DEF PluginsInv, PluginsTypeOK, PluginLists
  <1>1. CASE UNCHANGED pluginsVars
    <2>1. UNCHANGED <<plugins, form, pluginCall, pluginList, pluginEngine, strayCall, doubt>>
      BY <1>1 DEF pluginsVars
    <2>2. ~form'.error => form'.text = form'.data
      BY <2>1 DEF PluginsInv, DraftIsWhatIsShown
    <2> QED BY <1>0, <2>1, <2>2, DraftKeeps
  <1>2. ASSUME NEW n \in PluginNames, TogglePlugin(n) PROVE PluginsInv'
    <2>1. Other(plugins.list.enabled[n]) \in Switch
      BY <1>0 DEF Other, Switch
    <2> QED BY <1>2, <2>1, StartKeeps DEF TogglePlugin
  <1>3. CASE SavePlugin
    BY <1>0, <1>3, StartKeeps, PluginsConstants DEF SavePlugin
  <1>4. ASSUME NEW c \in Configs, ResetPlugin(c) PROVE PluginsInv'
    <2>1. c \in CallTexts
      BY DEF CallTexts
    <2> QED BY <1>4, <2>1, StartKeeps, PluginsConstants DEF ResetPlugin
  <1>5. ASSUME NEW c \in Configs, EditField(c) PROVE PluginsInv'
    BY <1>5, FormFacts, DraftKeeps DEF EditField
  <1>6. ASSUME NEW text \in Configs \cup BadTexts \cup {"null"}, EditText(text) PROVE PluginsInv'
    <2>1. CASE text \in BadTexts
      <3>1. form' = [form EXCEPT !.text = text, !.error = TRUE]
            /\ UNCHANGED <<plugins, pluginCall, pluginList, pluginEngine, strayCall, doubt>>
        BY <1>6, <2>1 DEF EditText
      <3> QED BY <1>0, <2>1, <3>1, DraftKeeps
    <2>2. CASE text \notin BadTexts
      <3>1. form' = [data |-> text, text |-> text, error |-> FALSE, crashed |-> text = "null"]
            /\ UNCHANGED <<plugins, pluginCall, pluginList, pluginEngine, strayCall, doubt>>
        BY <1>6, <2>2 DEF EditText
      <3>2. text \in CallTexts
        BY <2>2 DEF CallTexts
      <3> QED BY <3>1, <3>2, DraftKeeps
    <2> QED BY <2>1, <2>2
  <1>7. ASSUME NEW text \in Configs \cup BadTexts \cup {"null"}, ImportFile(text) PROVE PluginsInv'
    <2>1. CASE text \in BadTexts
      <3>1. form' = [form EXCEPT !.error = TRUE]
            /\ UNCHANGED <<plugins, pluginCall, pluginList, pluginEngine, strayCall, doubt>>
        BY <1>7, <2>1 DEF ImportFile
      <3> QED BY <1>0, <3>1, DraftKeeps
    <2>2. CASE text \notin BadTexts
      <3>1. form' = [data |-> text, text |-> text, error |-> FALSE, crashed |-> text = "null"]
            /\ UNCHANGED <<plugins, pluginCall, pluginList, pluginEngine, strayCall, doubt>>
        BY <1>7, <2>2 DEF ImportFile
      <3>2. text \in CallTexts
        BY <2>2 DEF CallTexts
      <3> QED BY <3>1, <3>2, DraftKeeps
    <2> QED BY <2>1, <2>2
  <1>8. CASE EngineServesPlugin
    BY <1>8, EngineServesKeeps
  <1>9. CASE EngineServesStrayCall
    <2>1. /\ pluginEngine' \in {Served(strayCall), pluginEngine} /\ strayCall' = NoPluginCall /\ doubt' = TRUE
          /\ UNCHANGED <<plugins, form, pluginCall, pluginList>>
      BY <1>9 DEF EngineServesStrayCall
    <2>2. pluginEngine' \in [enabled : [PluginNames -> Switch], config : Configs]
      <3>1. Served(strayCall) \in [enabled : [PluginNames -> Switch], config : Configs]
        BY <1>0, ServedFact
      <3> QED BY <1>0, <2>1, <3>1
    <2>3. NoPluginCall \in PluginCalls
      BY <1>0, PluginFacts
    <2>4. PluginsTypeOK'
      BY <2>1, <2>2 DEF PluginsInv, PluginsTypeOK
    <2>5. ListIsFor' /\ SwitchesFollow' /\ BusyIsOneCall' /\ DraftIsWhatIsShown'
      BY <2>1 DEF PluginsInv, ListIsFor, SwitchesFollow, BusyIsOneCall, DraftIsWhatIsShown
    <2> QED BY <2>1, <2>3, <2>4, <2>5 DEF PluginsInv
  <1>10. CASE CallDone
    <2> DEFINE call == [pluginCall EXCEPT !.stage = "listing"]
    <2>1. /\ pluginCall.stage = "done" /\ pluginCall' = call
          /\ plugins' = [plugins EXCEPT !.notice = FALSE] /\ pluginList' = AskedFor("call")
          /\ UNCHANGED <<form, pluginEngine, strayCall, doubt>>
      BY <1>10 DEF CallDone
    <2>2. pluginCall # NoPluginCall /\ pluginCall.verb # "none"
      BY <2>1 DEF PluginsInv, NoPluginCall
    <2>3. call \in PluginCalls /\ call.stage = "listing" /\ call.verb # "none" /\ call # NoPluginCall
      BY <1>0, <2>2 DEF PluginCalls, NoPluginCall
    <2>4. AskedFor("call") \in [for : {"none", "mount", "call"}, stage : {"none", "asked", "ok", "failed"},
                               list : PluginLists]
          /\ AskedFor("call").stage = "asked" /\ AskedFor("call").for = "call"
          /\ AskedFor("call") # NoList /\ ~AskedFor("call").list.any
      BY <1>0, PluginFacts DEF AskedFor
    <2> HIDE DEF call
    <2>5. /\ plugins' \in [list : PluginLists, loaded : BOOLEAN, busy : BOOLEAN, notice : BOOLEAN]
          /\ plugins'.list = plugins.list /\ plugins'.busy = plugins.busy
          /\ plugins'.notice = FALSE /\ plugins'.loaded = plugins.loaded
      BY <1>0, <2>1
    <2>6. PluginsTypeOK'
      BY <2>1, <2>3, <2>5 DEF PluginsInv, PluginsTypeOK
    <2>7. BusyIsOneCall' /\ DraftIsWhatIsShown'
      BY <2>1, <2>2, <2>3, <2>5 DEF PluginsInv, BusyIsOneCall, DraftIsWhatIsShown
    <2>8. ListIsFor' /\ SwitchesFollow'
      BY <2>1, <2>3, <2>4 DEF ListIsFor, SwitchesFollow
    <2>9. pluginList'.stage # "none" /\ pluginList' # NoList'
      BY <2>1, <2>4 DEF NoList, NothingListed
    <2> QED BY <1>0, <2>1, <2>3, <2>4, <2>5, <2>6, <2>7, <2>8, <2>9 DEF PluginsInv
  <1>11. CASE CallFailed
    <2> DEFINE on == IF pluginCall.verb = "toggle"
                     THEN [plugins.list.enabled EXCEPT ![pluginCall.name] = pluginCall.before]
                     ELSE plugins.list.enabled
    <2>1. /\ pluginCall.stage = "failed" /\ pluginCall' = NoPluginCall
          /\ plugins' = [plugins EXCEPT !.notice = TRUE, !.busy = FALSE,
                                        !.list = [plugins.list EXCEPT !.enabled = on]]
          /\ UNCHANGED <<form, pluginList, pluginEngine, strayCall, doubt>>
      BY <1>0, <1>11 DEF CallFailed
    <2>2. on \in [PluginNames -> Switch]
      BY <1>0 DEF PluginCalls
    <2>3. pluginList.stage = "none"
      <3>1. plugins.busy /\ pluginCall.stage # "listing"
        BY <2>1, PluginFacts, <1>0 DEF PluginsInv, BusyIsOneCall
      <3> QED BY <1>0, <3>1 DEF PluginsInv, ListIsFor
    <2>4. ~doubt /\ HasCards => on = pluginEngine.enabled
      <3> SUFFICES ASSUME ~doubt, HasCards PROVE on = pluginEngine.enabled
        OBVIOUS
      <3>1. CASE pluginCall.verb = "toggle"
        <4>1. plugins.list.enabled = [pluginEngine.enabled EXCEPT ![pluginCall.name] = pluginCall.arg]
              /\ pluginCall.before = pluginEngine.enabled[pluginCall.name]
          BY <2>1, <3>1 DEF PluginsInv, SwitchesFollow
        <4>2. pluginCall.name \in PluginNames /\ pluginEngine.enabled \in [PluginNames -> Switch]
          BY <1>0, <3>1 DEF PluginCalls
        <4>3. on = [plugins.list.enabled EXCEPT ![pluginCall.name] = pluginCall.before]
          BY <3>1
        <4> QED BY ONLY <4>1, <4>2, <4>3
      <3>2. CASE pluginCall.verb # "toggle"
        BY <2>1, <3>2 DEF PluginsInv, SwitchesFollow
      <3> QED BY <3>1, <3>2
    <2> HIDE DEF on
    <2>5. /\ plugins' \in [list : PluginLists, loaded : BOOLEAN, busy : BOOLEAN, notice : BOOLEAN]
          /\ plugins'.list \in PluginLists /\ plugins'.list.enabled = on /\ ~plugins'.busy
          /\ plugins'.list.any = plugins.list.any /\ plugins'.loaded = plugins.loaded
          /\ plugins'.notice = TRUE
      BY <1>0, <2>1, <2>2 DEF PluginLists
    <2>6. NoPluginCall \in PluginCalls /\ NoPluginCall.verb = "none" /\ NoPluginCall.stage = "none"
      BY <1>0, PluginFacts
    <2>7. PluginsTypeOK'
      BY <2>1, <2>5, <2>6 DEF PluginsInv, PluginsTypeOK, PluginLists
    <2>8. BusyIsOneCall' /\ DraftIsWhatIsShown'
      BY <2>1, <2>5 DEF PluginsInv, BusyIsOneCall, DraftIsWhatIsShown
    <2>9. ListIsFor' /\ SwitchesFollow'
      BY <2>1, <2>3, <2>4, <2>5, <2>6 DEF PluginsInv, ListIsFor, SwitchesFollow, HasCards
    <2> QED BY <1>0, <2>1, <2>5, <2>6, <2>7, <2>8, <2>9 DEF PluginsInv
  <1>12. CASE EngineListsPlugins
    <2> DEFINE l == [any |-> TRUE, enabled |-> pluginEngine.enabled, config |-> pluginEngine.config]
    <2>1. /\ pluginList.stage = "asked" /\ UNCHANGED <<plugins, form, pluginCall, pluginEngine, strayCall>>
          /\ \/ pluginList' = [pluginList EXCEPT !.stage = "ok", !.list = l] /\ doubt' = FALSE
             \/ pluginList' = [pluginList EXCEPT !.stage = "failed"] /\ doubt' = doubt
      BY <1>12 DEF EngineListsPlugins
    <2>2. l \in PluginLists /\ l.enabled = pluginEngine.enabled
      BY <1>0 DEF PluginLists
    <2> HIDE DEF l
    <2>3. /\ pluginList' \in [for : {"none", "mount", "call"}, stage : {"none", "asked", "ok", "failed"},
                             list : PluginLists]
          /\ pluginList'.for = pluginList.for /\ pluginList'.stage \in {"ok", "failed"}
          /\ pluginList'.stage = "ok" => pluginList'.list = l
          /\ pluginList'.stage # "ok" => pluginList'.list = pluginList.list
          /\ doubt' \in BOOLEAN
      BY <1>0, <2>1, <2>2
    <2>4. pluginCall.stage \in {"none", "listing"}
      <3>1. CASE pluginList.for = "mount"
        BY <1>0, <2>1, <3>1, PluginFacts DEF PluginsInv, ListIsFor, BusyIsOneCall
      <3>2. CASE pluginList.for # "mount"
        BY <2>1, <3>2 DEF PluginsInv, ListIsFor
      <3> QED BY <3>1, <3>2
    <2>5. PluginsTypeOK'
      BY <2>1 DEF PluginsInv, PluginsTypeOK
    <2>6. BusyIsOneCall' /\ DraftIsWhatIsShown'
      BY <2>1 DEF PluginsInv, BusyIsOneCall, DraftIsWhatIsShown
    <2>7. ListIsFor'
      BY <2>1, <2>3 DEF PluginsInv, ListIsFor
    <2>8. SwitchesFollow'
      BY <2>1, <2>2, <2>3, <2>4 DEF SwitchesFollow
    <2>9. pluginList' # NoList' /\ pluginList'.stage # "none"
      BY <2>3 DEF NoList, NothingListed
    <2> QED BY <1>0, <2>1, <2>3, <2>5, <2>6, <2>7, <2>8, <2>9 DEF PluginsInv
  <1>13. CASE PluginsListed
    <2> DEFINE ok == pluginList.stage = "ok"
    <2>1. /\ pluginList.stage \in {"ok", "failed"} /\ pluginList' = NoList
          /\ plugins' = [plugins EXCEPT !.loaded = TRUE, !.notice = @ \/ ~ok,
                                        !.busy = @ /\ pluginList.for = "mount", !.list = pluginList.list]
          /\ form' = (IF ok THEN FormShows(pluginList.list.config) ELSE form)
          /\ pluginCall' = (IF pluginList.for = "call" THEN NoPluginCall ELSE pluginCall)
          /\ UNCHANGED <<pluginEngine, strayCall, doubt>>
      BY <1>13 DEF PluginsListed
    <2>2. pluginList.list \in PluginLists /\ pluginList.list.config \in Configs
      BY <1>0 DEF PluginLists
    <2>3. /\ form' \in [data : CallTexts, text : CallTexts \cup BadTexts, error : BOOLEAN, crashed : BOOLEAN]
          /\ ~form'.error => form'.text = form'.data
      <3>1. FormShows(pluginList.list.config)
              \in [data : CallTexts, text : CallTexts \cup BadTexts, error : BOOLEAN, crashed : BOOLEAN]
            /\ LET f == FormShows(pluginList.list.config) IN ~f.error => f.text = f.data
        BY <1>0, <2>2, FormFacts DEF FormShows, PluginsInv, DraftIsWhatIsShown
      <3> QED BY <1>0, <2>1, <3>1 DEF PluginsInv, DraftIsWhatIsShown
    <2>4. pluginCall' = NoPluginCall
      <3>1. CASE pluginList.for = "mount"
        BY <2>1, <3>1 DEF PluginsInv, ListIsFor, BusyIsOneCall
      <3>2. CASE pluginList.for # "mount"
        <4>1. pluginList.for = "call"
          BY <2>1, <3>2 DEF PluginsInv, ListIsFor
        <4> QED BY <2>1, <4>1
      <3> QED BY <3>1, <3>2
    <2>5. /\ plugins' \in [list : PluginLists, loaded : BOOLEAN, busy : BOOLEAN, notice : BOOLEAN]
          /\ plugins'.list = pluginList.list /\ ~plugins'.busy /\ plugins'.loaded = TRUE
          /\ plugins'.notice \in BOOLEAN
      <3>1. ~(plugins.busy /\ pluginList.for = "mount")
        BY <2>1 DEF PluginsInv, ListIsFor
      <3> QED BY <1>0, <2>1, <2>2, <3>1
    <2>6. NoPluginCall \in PluginCalls /\ NoPluginCall.verb = "none" /\ NoPluginCall.stage = "none"
          /\ NoList \in [for : {"none", "mount", "call"}, stage : {"none", "asked", "ok", "failed"},
                         list : PluginLists] /\ NoList.stage = "none" /\ ~NoList.list.any
      BY <1>0, PluginFacts DEF NoList
    <2>7. PluginsTypeOK'
      BY <2>1, <2>2, <2>3, <2>4, <2>5, <2>6 DEF PluginsInv, PluginsTypeOK, PluginLists, CallTexts
    <2>8. BusyIsOneCall' /\ DraftIsWhatIsShown'
      BY <2>3, <2>4, <2>5 DEF BusyIsOneCall, DraftIsWhatIsShown
    <2>9. ListIsFor'
      BY <2>1, <2>4, <2>6 DEF ListIsFor
    <2>10. SwitchesFollow'
      <3>1. HasCards' /\ ~doubt => pluginList.list.enabled = pluginEngine.enabled
        BY <1>0, <2>1, <2>5 DEF PluginsInv, ListIsFor, SwitchesFollow, HasCards
      <3> QED BY <2>1, <2>4, <2>5, <2>6, <3>1 DEF SwitchesFollow
    <2> QED BY <1>0, <2>1, <2>3, <2>4, <2>5, <2>6, <2>7, <2>8, <2>9, <2>10 DEF PluginsInv
  <1>14. CASE DismissPluginNotice
    <2>1. /\ plugins' = [plugins EXCEPT !.notice = FALSE]
          /\ UNCHANGED <<form, pluginCall, pluginList, pluginEngine, strayCall, doubt>>
      BY <1>14 DEF DismissPluginNotice
    <2>2. /\ plugins' \in [list : PluginLists, loaded : BOOLEAN, busy : BOOLEAN, notice : BOOLEAN]
          /\ plugins'.list = plugins.list /\ plugins'.busy = plugins.busy
          /\ plugins'.notice = FALSE /\ plugins'.loaded = plugins.loaded
      BY <1>0, <2>1
    <2>3. PluginsTypeOK'
      BY <2>1, <2>2 DEF PluginsInv, PluginsTypeOK
    <2>4. ListIsFor' /\ SwitchesFollow' /\ BusyIsOneCall' /\ DraftIsWhatIsShown'
      BY <2>1, <2>2 DEF PluginsInv, ListIsFor, SwitchesFollow, HasCards, BusyIsOneCall, DraftIsWhatIsShown
    <2> QED BY <1>0, <2>1, <2>2, <2>3, <2>4 DEF PluginsInv
  <1>15. CASE LeavePlugins
    BY <1>0, <1>15, MountedKeeps DEF LeavePlugins
  <1> QED BY <1>1, <1>2, <1>3, <1>4, <1>5, <1>6, <1>7, <1>8, <1>9, <1>10, <1>11, <1>12, <1>13,
             <1>14, <1>15 DEF PluginsNext

\* At rest nothing is under way, so the switches have caught up.
LEMMA PluginsHold == ASSUME PluginsInv PROVE SwitchesAreReal
  <1>1. NoList.stage = "none" /\ NoPluginCall.stage = "none"
    BY DEF NoList, NoPluginCall
  <1> QED BY <1>1 DEF PluginsInv, SwitchesAreReal, SwitchesFollow, BusyIsOneCall

-----------------------------------------------------------------------------
\* The comparison (Compare.tsx).

\* What the report of a pair says of its round trips, and which session it calls faster.
PairRtt(a, b) == ComputeDirectionalDiff(a, b, EngineCompare).rtt
\* The session the report of a pair calls faster.
FasterOf(a, b) == IF PairRtt(a, b) > 0 THEN a ELSE IF PairRtt(a, b) < 0 THEN b ELSE 0

\* Two sessions the form lets through.
Comparable(a, b) == a \in SessionIds /\ b \in SessionIds /\ a > 0 /\ b > 0 /\ a # b

\* What is asked for can be compared, a report is of such a pair, and a verdict says what
\* every report of its pair says.
CompareInv ==
    /\ compare \in [a : SessionIds, b : SessionIds, diff : {compare.diff}, comparing : BOOLEAN,
                    notice : {"none", "err_positive", "err_different", "failed"}]
    /\ compare.comparing <=> comparing # NoPair
    /\ comparing # NoPair => \E a, b \in SessionIds : Comparable(a, b) /\ comparing = <<a, b>>
    /\ compare.diff # NoDiff =>
          \E a, b \in SessionIds :
             Comparable(a, b) /\ compare.diff = ComputeDirectionalDiff(a, b, EngineCompare)
    /\ \A v \in verdicts :
          \E a, b \in SessionIds : Comparable(a, b) /\ v = <<{a, b}, FasterOf(a, b)>>

\* The report of a pair, whichever way round it is asked.
LEMMA DiffOfPair ==
    ASSUME NEW a \in SessionIds, NEW b \in SessionIds
    PROVE  LET d == ComputeDirectionalDiff(a, b, EngineCompare)
           IN /\ d.a = a /\ d.b = b /\ d.rtt = PairRtt(a, b) /\ d.faster = FasterOf(a, b)
              /\ d.shift = IF a > b THEN <<EngineCompare.shift[2], EngineCompare.shift[1]>>
                                    ELSE EngineCompare.shift
              /\ PairRtt(a, b) = IF a > b THEN -RawRtt ELSE RawRtt
  BY CompareConstants DEF ComputeDirectionalDiff, EngineCompare, PairRtt, FasterOf

\* The two directions of one pair call the same session the faster.
LEMMA FasterEitherWay ==
    ASSUME NEW a \in SessionIds, NEW b \in SessionIds, Comparable(a, b)
    PROVE  FasterOf(a, b) = FasterOf(b, a)
  <1>1. a \in Nat /\ b \in Nat /\ RawRtt \in Int /\ a # b
    BY CompareConstants DEF Comparable
  <1>2. CASE a > b
    <2>1. PairRtt(a, b) = -RawRtt /\ PairRtt(b, a) = RawRtt
      BY <1>1, <1>2, DiffOfPair
    <2> QED BY <1>1, <2>1 DEF FasterOf
  <1>3. CASE b > a
    <2>1. PairRtt(a, b) = RawRtt /\ PairRtt(b, a) = -RawRtt
      BY <1>1, <1>3, DiffOfPair
    <2> QED BY <1>1, <2>1 DEF FasterOf
  <1> QED BY <1>1, <1>2, <1>3

\* The comparison when it is opened.
LEMMA CompareStarts == ASSUME CompareInit PROVE CompareInv
  BY CompareConstants DEF CompareInit, CompareInv, NoPair

\* A comparison that is asked for, or refused by the check of its input.
LEMMA RunKeeps ==
    ASSUME CompareInv, NEW screen, NEW a \in SessionIds, NEW b \in SessionIds,
           screen \in [a : SessionIds, b : SessionIds, diff : {screen.diff}, comparing : {FALSE},
                       notice : {"none", "err_positive", "err_different", "failed"}],
           screen.diff \in {compare.diff, NoDiff}, ~compare.comparing,
           RunCompare(screen, a, b), verdicts' = verdicts
    PROVE  CompareInv'
  <1>1. a \in Nat /\ b \in Nat
    BY CompareConstants
  <1>2. CASE a <= 0 \/ b <= 0 \/ a = b
    <2>1. comparing' = comparing /\ \E n \in {"err_positive", "err_different"} :
                                       compare' = [screen EXCEPT !.notice = n]
      BY <1>2 DEF RunCompare
    <2>2. PICK n \in {"err_positive", "err_different"} : compare' = [screen EXCEPT !.notice = n]
      BY <2>1
    <2> QED BY <2>1, <2>2 DEF CompareInv
  <1>3. CASE ~(a <= 0 \/ b <= 0 \/ a = b)
    <2>1. compare' = [screen EXCEPT !.notice = "none", !.comparing = TRUE] /\ comparing' = <<a, b>>
      BY <1>3 DEF RunCompare
    <2>2. Comparable(a, b) /\ comparing' # NoPair
      BY <1>1, <1>3, <2>1 DEF Comparable, NoPair
    <2> QED BY <2>1, <2>2 DEF CompareInv
  <1> QED BY <1>2, <1>3

\* Every step of the comparison, visits and failures included.
LEMMA CompareStep == ASSUME CompareInv, [CompareNext]_compareVars PROVE CompareInv'
  <1>0. compare \in [a : SessionIds, b : SessionIds, diff : {compare.diff}, comparing : BOOLEAN,
                     notice : {"none", "err_positive", "err_different", "failed"}]
    BY DEF CompareInv
  <1>1. CASE UNCHANGED compareVars
    BY <1>1 DEF compareVars, CompareInv
  <1>2. ASSUME NEW side \in {"a", "b"}, NEW id \in SessionIds, SetSession(side, id) PROVE CompareInv'
    BY <1>0, <1>2 DEF SetSession, CompareInv
  <1>3. CASE PressCompare
    <2>1. ~compare.comparing /\ RunCompare(compare, compare.a, compare.b) /\ verdicts' = verdicts
      BY <1>3 DEF PressCompare, CompareView
    <2> QED BY <1>0, <2>1, RunKeeps
  <1>4. CASE SwapSessions
    <2> DEFINE swapped == [compare EXCEPT !.a = compare.b, !.b = compare.a, !.diff = NoDiff]
    <2>1. /\ ~compare.comparing /\ verdicts' = verdicts
          /\ \/ RunCompare(swapped, swapped.a, swapped.b)
             \/ compare' = swapped /\ comparing' = comparing
      BY <1>4 DEF SwapSessions, CompareView
    <2>2. swapped \in [a : SessionIds, b : SessionIds, diff : {NoDiff}, comparing : {FALSE},
                       notice : {"none", "err_positive", "err_different", "failed"}]
      BY <1>0, <2>1
    <2>3. CASE RunCompare(swapped, swapped.a, swapped.b)
      <3> HIDE DEF swapped
      <3>1. swapped.a \in SessionIds /\ swapped.b \in SessionIds /\ swapped.diff = NoDiff
        BY <2>2
      <3> QED BY <2>1, <2>2, <2>3, <3>1, RunKeeps
    <2>4. CASE compare' = swapped /\ comparing' = comparing
      <3> HIDE DEF swapped
      <3> QED BY <2>1, <2>2, <2>4 DEF CompareInv
    <2> QED BY <2>1, <2>3, <2>4
  <1>5. CASE CompareAnswered
    <2>1. PICK a, b \in SessionIds : Comparable(a, b) /\ comparing = <<a, b>>
      BY <1>5 DEF CompareAnswered, CompareInv
    <2> DEFINE d == ComputeDirectionalDiff(a, b, EngineCompare)
    <2>2. compare' = [compare EXCEPT !.diff = d, !.comparing = FALSE]
          /\ verdicts' = verdicts \cup {<<{d.a, d.b}, d.faster>>} /\ comparing' = NoPair
      BY <1>5, <2>1 DEF CompareAnswered
    <2>3. d.a = a /\ d.b = b /\ d.faster = FasterOf(a, b)
      BY DiffOfPair
    <2> HIDE DEF d
    <2>4. compare' \in [a : SessionIds, b : SessionIds, diff : {compare'.diff}, comparing : BOOLEAN,
                        notice : {"none", "err_positive", "err_different", "failed"}]
          /\ ~compare'.comparing /\ compare'.diff = d
      BY <1>0, <2>2
    <2>5. \A v \in verdicts' : \E x, y \in SessionIds : Comparable(x, y) /\ v = <<{x, y}, FasterOf(x, y)>>
      BY <2>1, <2>2, <2>3 DEF CompareInv
    <2> QED BY <2>1, <2>2, <2>4, <2>5 DEF CompareInv, d
  <1>6. CASE CompareFailed
    BY <1>0, <1>6 DEF CompareFailed, CompareInv
  <1>7. CASE DismissCompareNotice
    BY <1>0, <1>7 DEF DismissCompareNotice, CompareInv
  <1> QED BY <1>1, <1>2, <1>3, <1>4, <1>5, <1>6, <1>7 DEF CompareNext

\* Reports of one pair agree, and a report agrees with itself.
LEMMA CompareHolds ==
    ASSUME CompareInv PROVE CompareTypeOK /\ OneFasterSession /\ ReportIsCoherent
  <1>1. CompareTypeOK
    BY CompareConstants DEF CompareInv, CompareTypeOK, NoPair
  <1>2. OneFasterSession
    <2> SUFFICES ASSUME NEW v \in verdicts, NEW w \in verdicts, v[1] = w[1] PROVE v[2] = w[2]
      BY DEF OneFasterSession
    <2>1. PICK a, b \in SessionIds : Comparable(a, b) /\ v = <<{a, b}, FasterOf(a, b)>>
      BY DEF CompareInv
    <2>2. PICK x, y \in SessionIds : Comparable(x, y) /\ w = <<{x, y}, FasterOf(x, y)>>
      BY DEF CompareInv
    <2>3. {a, b} = {x, y}
      BY <2>1, <2>2
    <2>4. (a = x /\ b = y) \/ (a = y /\ b = x)
      BY <2>3
    <2> QED BY <2>1, <2>2, <2>4, FasterEitherWay
  <1>3. ASSUME compare.diff # NoDiff
        PROVE  /\ compare.diff.a # compare.diff.b
               /\ (CompareScorecards(compare.diff).rtt = "good") <=> (compare.diff.faster = compare.diff.b)
               /\ (compare.diff.shift = EngineCompare.shift) <=> (compare.diff.a < compare.diff.b)
    <2>1. PICK a, b \in SessionIds :
             Comparable(a, b) /\ compare.diff = ComputeDirectionalDiff(a, b, EngineCompare)
      BY <1>3 DEF CompareInv
    <2> DEFINE d == compare.diff
    <2>2. /\ d.a = a /\ d.b = b /\ d.rtt = PairRtt(a, b) /\ d.faster = FasterOf(a, b)
          /\ d.shift = IF a > b THEN <<EngineCompare.shift[2], EngineCompare.shift[1]>>
                                ELSE EngineCompare.shift
          /\ PairRtt(a, b) = IF a > b THEN -RawRtt ELSE RawRtt
      BY <2>1, DiffOfPair
    <2>3. a \in Nat /\ b \in Nat /\ RawRtt \in Int /\ a > 0 /\ b > 0 /\ a # b
      BY <2>1, CompareConstants DEF Comparable
    <2>4. <<EngineCompare.shift[2], EngineCompare.shift[1]>> # EngineCompare.shift
      BY DEF EngineCompare
    <2>5. PairRtt(a, b) \in Int
      BY <2>2, <2>3
    <2> HIDE DEF d
    <2>6. (CompareScorecards(d).rtt = "good") <=> PairRtt(a, b) < 0
      BY <2>2, <2>5 DEF CompareScorecards
    <2>7. (d.faster = d.b) <=> PairRtt(a, b) < 0
      BY <2>2, <2>3, <2>5 DEF FasterOf
    <2>8. (d.shift = EngineCompare.shift) <=> d.a < d.b
      BY <2>2, <2>3, <2>4
    <2> QED BY <2>2, <2>3, <2>6, <2>7, <2>8 DEF d
  <1> QED BY <1>1, <1>2, <1>3 DEF ReportIsCoherent, CompareInv

-----------------------------------------------------------------------------
\* The assistant (Assistant.tsx).

\* A turn that is thinking is the one that was asked last.
AssistantInv == AssistantTypeOK /\ ThinkingIsAsked /\ BusyHasQuestion

\* The assistant when it is opened.
LEMMA AssistantStarts == ASSUME AssistantInit PROVE AssistantInv
  BY AssistantConstants
     DEF AssistantInit, ChatFresh, NoTurns, AssistantInv, AssistantTypeOK, ThinkingIsAsked, BusyHasQuestion

\* Every step of the assistant, turns deleted and restored included.
LEMMA AssistantStep == ASSUME AssistantInv, [AssistantNext]_assistantVars PROVE AssistantInv'
  <1> USE AssistantConstants DEF AssistantInv, AssistantTypeOK, ThinkingIsAsked, BusyHasQuestion
  <1>1. CASE UNCHANGED assistantVars
    BY <1>1 DEF assistantVars
  <1>2. ASSUME NEW words \in BOOLEAN, TypePrompt(words) PROVE AssistantInv'
    BY <1>2 DEF TypePrompt
  <1>3. CASE AskNew
    <2> DEFINE id == chat.asked + 1
    <2>1. id \in Ids /\ id \in 0 .. MaxTurns
      BY <1>3 DEF AskNew, Ids
    <2>2. chat' = [chat EXCEPT !.prompt = FALSE, !.notice = FALSE, !.busy = TRUE, !.asked = id]
          /\ turns' = [t \in DOMAIN turns \cup {id} |-> IF t = id THEN "pending" ELSE turns[t]]
          /\ asking' = asking \cup {id}
      BY <1>3 DEF AskNew
    <2> HIDE DEF id
    <2> QED BY <2>1, <2>2
  <1>4. CASE Ask \/ AskSuggestion
    BY <1>3, <1>4 DEF Ask, AskSuggestion
  <1>5. CASE ClearHistory
    BY <1>5 DEF ClearHistory, NoTurns
  <1>6. CASE DismissChatNotice
    BY <1>6 DEF DismissChatNotice
  <1>7. CASE LeaveAssistant
    BY <1>7 DEF LeaveAssistant, ChatFresh, NoTurns
  <1>8. ASSUME NEW t \in Ids, Retry(t) PROVE AssistantInv'
    BY <1>8 DEF Retry
  <1>9. ASSUME NEW t \in Ids, DeleteTurn(t) PROVE AssistantInv'
    BY <1>9 DEF DeleteTurn
  <1>10. ASSUME NEW t \in Ids, NEW ok \in BOOLEAN, TurnAnswered(t, ok) PROVE AssistantInv'
    BY <1>10 DEF TurnAnswered
  <1> QED BY <1>1, <1>2, <1>4, <1>5, <1>6, <1>7, <1>8, <1>9, <1>10 DEF AssistantNext

-----------------------------------------------------------------------------
\* The protocol sandbox (Sandbox.tsx).

\* What is built is what is shown, and a toast has its timer.
SandboxInv ==
    /\ SandboxTypeOK /\ BuildsWhatIsShown /\ ToastWillGo
    /\ sandbox \in [layers : Seq(Layers), built : Seq(Layers), isBuilding : BOOLEAN,
                    notice : BOOLEAN, toast : {"none", "copied_hex", "copied_json"}]

\* The sandbox when it is opened.
LEMMA SandboxStarts == ASSUME SandboxInit PROVE SandboxInv
  <1>1. DefaultStack \in Seq(Layers) /\ Len(DefaultStack) \in 1 .. MaxStack /\ MaxToasts \in Nat \ {0}
    BY SandboxConstants
  <1>2. << >> \in Seq(Layers)
    OBVIOUS
  <1> QED BY <1>1, <1>2 DEF SandboxInit, SandboxInv, SandboxTypeOK, BuildsWhatIsShown, ToastWillGo

\* Building begins with the stack on the screen.
LEMMA InspectKeeps ==
    ASSUME SandboxInv, NEW stack \in Seq(Layers), Len(stack) \in 1 .. MaxStack,
           InspectPacket([sandbox EXCEPT !.layers = stack], stack), timers' = timers
    PROVE  SandboxInv'
  <1>1. sandbox' = [sandbox EXCEPT !.layers = stack, !.notice = FALSE, !.toast = "none",
                                   !.isBuilding = TRUE] /\ building' = stack
    BY DEF InspectPacket, SandboxInv
  <1>2. stack # << >>
    OBVIOUS
  <1> QED BY <1>1, <1>2 DEF SandboxInv, SandboxTypeOK, BuildsWhatIsShown, ToastWillGo

\* A stack of another order or size, while nothing is being built.
LEMMA StackKeeps ==
    ASSUME SandboxInv, ~sandbox.isBuilding, NEW stack \in Seq(Layers), Len(stack) \in 1 .. MaxStack,
           sandbox' = [sandbox EXCEPT !.layers = stack], UNCHANGED <<building, timers>>
    PROVE  SandboxInv'
  BY DEF SandboxInv, SandboxTypeOK, BuildsWhatIsShown, ToastWillGo

\* Every step of the sandbox.
LEMMA SandboxStep == ASSUME SandboxInv, [SandboxNext]_sandboxVars PROVE SandboxInv'
  <1> DEFINE s == sandbox.layers
             n == Len(s)
  <1>0. /\ sandbox \in [layers : Seq(Layers), built : Seq(Layers), isBuilding : BOOLEAN,
                        notice : BOOLEAN, toast : {"none", "copied_hex", "copied_json"}]
        /\ s \in Seq(Layers) /\ n \in 1 .. MaxStack /\ timers \in 0 .. MaxToasts
        /\ MaxStack \in Nat \ {0} /\ MaxToasts \in Nat \ {0}
    BY SandboxConstants DEF SandboxInv, SandboxTypeOK
  <1>1. CASE UNCHANGED sandboxVars
    BY <1>1 DEF sandboxVars, SandboxInv, SandboxTypeOK, BuildsWhatIsShown, ToastWillGo
  <1>2. CASE Build
    <2>1. sandbox = [sandbox EXCEPT !.layers = s]
      BY <1>0
    <2> QED BY <1>0, <1>2, <2>1, InspectKeeps DEF Build
  <1>3. ASSUME NEW p \in Presets, LoadPreset(p) PROVE SandboxInv'
    BY <1>3, SandboxConstants, InspectKeeps DEF LoadPreset
  <1>4. ASSUME NEW l \in Layers, AddLayer(l) PROVE SandboxInv'
    <2>1. n < MaxStack /\ ~sandbox.isBuilding /\ sandbox' = [sandbox EXCEPT !.layers = Append(s, l)]
          /\ UNCHANGED <<building, timers>>
      BY <1>4 DEF AddLayer, LayerBuilder
    <2>2. Append(s, l) \in Seq(Layers) /\ Len(Append(s, l)) \in 1 .. MaxStack
      BY <1>0, <2>1
    <2> QED BY <2>1, <2>2, StackKeeps
  <1>5. ASSUME NEW i \in 1 .. MaxStack, RemoveLayer(i) PROVE SandboxInv'
    <2>1. i \in 1 .. n /\ n > 1 /\ ~sandbox.isBuilding
          /\ sandbox' = [sandbox EXCEPT !.layers = RemoveAt(s, i)] /\ UNCHANGED <<building, timers>>
      BY <1>5 DEF RemoveLayer, LayerBuilder
    <2> DEFINE a == SubSeq(s, 1, i - 1)
               b == SubSeq(s, i + 1, n)
    <2>2. a \in Seq(Layers) /\ Len(a) = i - 1 /\ b \in Seq(Layers) /\ Len(b) = n - i
      <3>1. i \in 1 .. n /\ n \in Nat /\ s \in Seq(Layers) /\ n = Len(s)
        BY <1>0, <2>1
      <3>2. a \in Seq(Layers) /\ Len(a) = i - 1
        BY ONLY <3>1 DEF a
      <3>3. b \in Seq(Layers) /\ Len(b) = n - i
        BY ONLY <3>1 DEF b
      <3> QED BY <3>2, <3>3
    <2>3. RemoveAt(s, i) = a \o b
      BY DEF RemoveAt
    <2> HIDE DEF a, b
    <2>4. RemoveAt(s, i) \in Seq(Layers) /\ Len(RemoveAt(s, i)) \in 1 .. MaxStack
      <3>1. a \o b \in Seq(Layers) /\ Len(a \o b) = Len(a) + Len(b)
        BY <2>2
      <3>2. (i - 1) + (n - i) = n - 1 /\ n - 1 \in 1 .. MaxStack
        BY <1>0, <2>1
      <3> QED BY <2>2, <2>3, <3>1, <3>2
    <2> QED BY <2>1, <2>4, StackKeeps
  <1>6. ASSUME NEW i \in 1 .. MaxStack, NEW j \in {i - 1, i + 1}, MoveLayer(i, j) PROVE SandboxInv'
    <2>0. i \in 1 .. n /\ UNCHANGED <<building, timers>>
          /\ \/ j = i - 1 /\ i > 1 /\ ~sandbox.isBuilding
             \/ j = i + 1 /\ i < n /\ ~sandbox.isBuilding
      BY <1>6 DEF MoveLayer, LayerBuilder
    <2>1. j \in 1 .. n /\ ~sandbox.isBuilding
          /\ sandbox' = [sandbox EXCEPT !.layers = [s EXCEPT ![i] = s[j], ![j] = s[i]]]
      <3>1. sandbox' = [sandbox EXCEPT !.layers = [s EXCEPT ![i] = s[j], ![j] = s[i]]]
        BY <1>0, <1>6 DEF MoveLayer
      <3>2. n \in Nat
        BY <1>0
      <3> HIDE DEF s, n
      <3> QED BY <2>0, <3>1, <3>2
    <2>2. [s EXCEPT ![i] = s[j], ![j] = s[i]] \in Seq(Layers)
          /\ Len([s EXCEPT ![i] = s[j], ![j] = s[i]]) = n
      BY <1>0, <2>0, <2>1
    <2> QED BY <1>0, <2>0, <2>1, <2>2, StackKeeps
  <1>7. ASSUME NEW what \in {"copied_hex", "copied_json"}, Copy(what) PROVE SandboxInv'
    <2>1. sandbox' = [sandbox EXCEPT !.toast = what] /\ timers' = timers + 1 /\ building' = building
          /\ timers < MaxToasts
      BY <1>7 DEF Copy
    <2>2. timers' \in 0 .. MaxToasts /\ timers' > 0
      BY <1>0, <2>1
    <2> QED BY <1>0, <2>1, <2>2 DEF SandboxInv, SandboxTypeOK, BuildsWhatIsShown, ToastWillGo
  <1>8. CASE ToastTimer
    <2>1. sandbox' = [sandbox EXCEPT !.toast = "none"] /\ timers' = timers - 1 /\ building' = building
          /\ timers > 0
      BY <1>8 DEF ToastTimer
    <2>2. timers' \in 0 .. MaxToasts
      BY <1>0, <2>1
    <2> QED BY <1>0, <2>1, <2>2 DEF SandboxInv, SandboxTypeOK, BuildsWhatIsShown, ToastWillGo
  <1>9. CASE DismissSandboxNotice
    BY <1>0, <1>9 DEF DismissSandboxNotice, SandboxInv, SandboxTypeOK, BuildsWhatIsShown, ToastWillGo
  <1>10. ASSUME NEW ok \in BOOLEAN, PacketAnswered(ok) PROVE SandboxInv'
    <2>1. building # << >> /\ building = sandbox.layers
      BY <1>10 DEF PacketAnswered, SandboxInv, BuildsWhatIsShown
    <2>2. building \in Seq(Layers)
      BY <1>0, <2>1
    <2> QED BY <1>0, <1>10, <2>2
            DEF PacketAnswered, SandboxInv, SandboxTypeOK, BuildsWhatIsShown, ToastWillGo
  <1> QED BY <1>1, <1>2, <1>3, <1>4, <1>5, <1>6, <1>7, <1>8, <1>9, <1>10 DEF SandboxNext

\* The rows of a dump of 40 digits and 32 more for every TCP layer.
LEMMA DumpHolds == ASSUME SandboxInv PROVE DumpIsComplete
  <1> DEFINE stack == sandbox.built
             tcp == {i \in DOMAIN stack : stack[i] = "TCP"}
             c == Cardinality(tcp)
             digits == HexDigits(stack)
             dump == FormatHexDump(digits)
  <1>1. c \in Nat
    <2>1. DOMAIN stack = 1 .. Len(stack) /\ Len(stack) \in Nat
      BY DEF SandboxInv
    <2>2. IsFiniteSet(DOMAIN stack)
      <3>1. \A n \in Nat : IsFiniteSet(1 .. n)
        BY FS_Interval
      <3> HIDE DEF stack
      <3> QED BY <2>1, <3>1
    <2>3. IsFiniteSet(tcp)
      BY <2>2, FS_Subset
    <2> QED BY <2>3, FS_CardinalityType
  <1>2. digits = 40 + 32 * c
    BY DEF HexDigits
  <1> HIDE DEF tcp, c, digits
  <1>3. (digits + 31) \div 32 = c + 2 /\ digits \div 2 = 16 * c + 20
    BY <1>1, <1>2
  <1>4. /\ Len(dump) = c + 2
        /\ \A r \in 1 .. c + 2 :
              LET chunk == IF digits - 32 * (r - 1) < 32 THEN digits - 32 * (r - 1) ELSE 32
              IN dump[r] = [offset |-> (32 * (r - 1)) \div 2, bytes |-> (chunk + 1) \div 2]
    BY <1>1, <1>3 DEF FormatHexDump
  <1> HIDE DEF dump
  <1>5. \A r \in 1 .. c + 1 : dump[r] = [offset |-> 16 * (r - 1), bytes |-> 16]
    <2> TAKE r \in 1 .. c + 1
    <2>1. r \in 1 .. c + 2 /\ digits - 32 * (r - 1) >= 32 /\ (32 * (r - 1)) \div 2 = 16 * (r - 1)
          /\ (32 + 1) \div 2 = 16
      BY <1>1, <1>2
    <2> QED BY <1>1, <1>2, <1>4, <2>1
  <1>6. dump[c + 2] = [offset |-> 16 * (c + 1), bytes |-> 4]
    <2>1. c + 2 \in 1 .. c + 2 /\ digits - 32 * (c + 2 - 1) = 8 /\ (8 + 1) \div 2 = 4
          /\ (32 * (c + 2 - 1)) \div 2 = 16 * (c + 1)
      BY <1>1, <1>2
    <2> QED BY <1>1, <1>4, <2>1
  <1>7. \A r \in 1 .. c + 1 : dump[r + 1].offset = dump[r].offset + dump[r].bytes
    <2> TAKE r \in 1 .. c + 1
    <2>1. CASE r = c + 1
      <3>1. r + 1 = c + 2 /\ dump[r] = [offset |-> 16 * c, bytes |-> 16]
        BY <1>1, <1>5, <2>1
      <3> QED BY <1>1, <1>6, <3>1
    <2>2. CASE r # c + 1
      <3>1. r + 1 \in 1 .. c + 1
        BY <1>1, <2>2
      <3>2. dump[r + 1] = [offset |-> 16 * r, bytes |-> 16]
        <4>1. (r + 1) - 1 = r
          BY <1>1
        <4> QED BY <1>5, <3>1, <4>1
      <3>3. dump[r].offset + dump[r].bytes = 16 * r
        <4>1. dump[r] = [offset |-> 16 * (r - 1), bytes |-> 16]
          BY <1>5
        <4>2. dump[r].offset = 16 * (r - 1) /\ dump[r].bytes = 16
          <5> DEFINE row == [offset |-> 16 * (r - 1), bytes |-> 16]
          <5>1. row.offset = 16 * (r - 1) /\ row.bytes = 16
            OBVIOUS
          <5>2. dump[r] = row
            BY <4>1
          <5> HIDE DEF row
          <5> QED BY <5>1, <5>2
        <4> QED BY <1>1, <4>2
      <3> QED BY <3>2, <3>3
    <2> QED BY <2>1, <2>2
  <1>8. dump[c + 2].offset + dump[c + 2].bytes = TotalBytes(digits)
    BY <1>1, <1>3, <1>6 DEF TotalBytes
  <1>9. Len(dump) - 1 = c + 1
    BY <1>1, <1>4
  <1> QED BY <1>4, <1>7, <1>8, <1>9 DEF DumpIsComplete, dump, digits

-----------------------------------------------------------------------------
\* The export (Export.tsx).

\* The choice, its preview and the export under way, together.
ExportInv ==
    /\ ExportTypeOK /\ WritesWhatIsChosen /\ ExportWaitHasCause
    /\ export \in [format : Formats, level : PayloadLevels,
                   preview : [any : BOOLEAN, format : Formats, level : PayloadLevels, payloads : BOOLEAN],
                   status : {"idle", "loading-preview", "preview-ready", "exporting", "completed", "failed"},
                   busy : BOOLEAN,
                   notice : {"none", "failed", "written", "unreported", "opened", "unconfirmed"},
                   artifact : BOOLEAN, opening : BOOLEAN]

\* The previews there are.
ExportPreviews == [any : BOOLEAN, format : Formats, level : PayloadLevels, payloads : BOOLEAN]

\* The previews the engine makes, and the first one asked for, are previews.
LEMMA PreviewsAreTyped ==
    /\ <<"json", "metadata_only">> \in ExportChoices
    /\ NoPreview \in ExportPreviews
    /\ \A c \in ExportChoices : PreviewOf(c) \in ExportPreviews
    /\ [NoQueries EXCEPT ![<<"json", "metadata_only">>] = 1] \in [ExportChoices -> Nat]
    /\ [NoQueries EXCEPT ![<<"json", "metadata_only">>] = 1][<<"json", "metadata_only">>] > 0
  <1>1. <<"json", "metadata_only">> \in ExportChoices
    BY ExportConstants DEF ExportChoices
  <1>2. NoPreview \in ExportPreviews
    BY ExportConstants DEF NoPreview, ExportPreviews
  <1>3. \A c \in ExportChoices : PreviewOf(c) \in ExportPreviews
    BY DEF PreviewOf, ExportPreviews, ExportChoices
  <1>4. NoQueries \in [ExportChoices -> Nat]
    BY DEF NoQueries
  <1> QED BY <1>1, <1>2, <1>3, <1>4

\* A freshly mounted screen.
LEMMA FreshKeeps ==
    ASSUME export' = ExportFresh, previewCache' = {}, exportCall' = NotExporting, openCall' = FALSE,
           previewQueries' = [NoQueries EXCEPT ![<<"json", "metadata_only">>] = 1]
    PROVE  ExportInv'
  <1> USE PreviewsAreTyped, ExportConstants DEF ExportFresh, NotExporting, ExportPreviews
  <1>1. ExportTypeOK'
    BY DEF ExportTypeOK
  <1>2. WritesWhatIsChosen' /\ ExportWaitHasCause'
    BY DEF WritesWhatIsChosen, ExportWaitHasCause
  <1> QED BY <1>1, <1>2 DEF ExportInv

\* A choice whose preview is shown from the cache or asked for.
LEMMA FetchedKeeps ==
    ASSUME ExportInv, ~export.busy, NEW screen, FetchPreview(screen),
           screen \in [format : Formats, level : PayloadLevels, preview : ExportPreviews,
                       status : {export.status}, busy : {FALSE}, notice : {export.notice},
                       artifact : BOOLEAN, opening : {export.opening}],
           UNCHANGED <<previewCache, exportCall, openCall>>
    PROVE  ExportInv'
  <1> DEFINE c == <<screen.format, screen.level>>
  <1>1. c \in ExportChoices
    BY DEF ExportChoices
  <1>2. CASE c \in previewCache
    <2>1. export' = [screen EXCEPT !.preview = PreviewOf(c), !.status = "preview-ready"]
          /\ UNCHANGED previewQueries
      BY <1>2 DEF FetchPreview, Chosen
    <2>2. PreviewOf(c) \in ExportPreviews
      BY <1>1, PreviewsAreTyped
    <2> HIDE DEF c
    <2>3. ExportTypeOK'
      BY <2>1 DEF ExportInv, ExportTypeOK
    <2> QED BY <2>1, <2>2, <2>3 DEF ExportInv, WritesWhatIsChosen, ExportWaitHasCause, ExportPreviews
  <1>3. CASE c \notin previewCache
    <2>1. export' = [screen EXCEPT !.status = "loading-preview", !.notice = "none"]
          /\ previewQueries' = [previewQueries EXCEPT ![c] = @ + 1]
      BY <1>3 DEF FetchPreview, Chosen
    <2> HIDE DEF c
    <2>2. previewQueries' \in [ExportChoices -> Nat] /\ previewQueries'[c] > 0
      BY <1>1, <2>1 DEF ExportInv, ExportTypeOK
    <2>3. ExportTypeOK'
      BY <2>1, <2>2 DEF ExportInv, ExportTypeOK
    <2> QED BY <1>1, <2>1, <2>2, <2>3 DEF ExportInv, WritesWhatIsChosen, ExportWaitHasCause, ExportPreviews
  <1> QED BY <1>2, <1>3

\* The export when it is opened.
LEMMA ExportStarts == ASSUME ExportInit PROVE ExportInv
  <1> USE PreviewsAreTyped, ExportConstants DEF ExportInit, ExportFresh, NotExporting, ExportPreviews
  <1>1. ExportTypeOK
    BY DEF ExportTypeOK
  <1>2. WritesWhatIsChosen /\ ExportWaitHasCause
    BY DEF WritesWhatIsChosen, ExportWaitHasCause
  <1> QED BY <1>1, <1>2 DEF ExportInv

\* Every step of the export, through any order of previews.
LEMMA ExportStep == ASSUME ExportInv, [ExportNext]_exportVars PROVE ExportInv'
  <1> DEFINE Screens ==
        [format : Formats, level : PayloadLevels, preview : ExportPreviews,
         status : {"idle", "loading-preview", "preview-ready", "exporting", "completed", "failed"},
         busy : BOOLEAN,
         notice : {"none", "failed", "written", "unreported", "opened", "unconfirmed"},
         artifact : BOOLEAN, opening : BOOLEAN]
  <1>0. export \in Screens
    BY DEF ExportInv, ExportPreviews
  <1>1. CASE UNCHANGED exportVars
    BY <1>1 DEF exportVars, ExportInv, ExportTypeOK, WritesWhatIsChosen, ExportWaitHasCause, Chosen
  <1>2. ASSUME NEW f \in Formats, SetFormat(f) PROVE ExportInv'
    <2>1. ~export.busy /\ FetchPreview([export EXCEPT !.format = f])
          /\ UNCHANGED <<previewCache, exportCall, openCall>>
      BY <1>2 DEF SetFormat, ExportView
    <2> QED BY <1>0, <2>1, FetchedKeeps DEF ExportInv
  <1>3. ASSUME NEW lvl \in PayloadLevels, SetLevel(lvl) PROVE ExportInv'
    <2> DEFINE p == IF export.preview.any THEN PreviewOf(<<export.preview.format, lvl>>) ELSE export.preview
    <2>1. ~export.busy /\ FetchPreview([export EXCEPT !.level = lvl, !.preview = p])
          /\ UNCHANGED <<previewCache, exportCall, openCall>>
      BY <1>0, <1>3 DEF SetLevel, ExportView
    <2>2. p \in ExportPreviews
      <3>1. export.preview \in ExportPreviews
        BY <1>0 DEF ExportInv
      <3>2. <<export.preview.format, lvl>> \in ExportChoices
        BY <3>1 DEF ExportPreviews, ExportChoices
      <3> QED BY <3>1, <3>2, PreviewsAreTyped
    <2> HIDE DEF p
    <2> QED BY <1>0, <2>1, <2>2, FetchedKeeps
  <1>4. CASE StartExport
    <2>1. ~export.busy /\ export' = [export EXCEPT !.notice = "none", !.busy = TRUE, !.status = "exporting"]
          /\ exportCall' = [stage |-> "asked", choice |-> Chosen(export)]
          /\ UNCHANGED <<previewCache, previewQueries, openCall>>
      BY <1>4 DEF StartExport, ExportView
    <2> QED BY <1>0, <2>1 DEF ExportInv, ExportTypeOK, WritesWhatIsChosen, ExportWaitHasCause, Chosen, ExportPreviews
  <1>5. CASE OpenArtifact
    BY <1>0, <1>5 DEF OpenArtifact, ExportInv, ExportTypeOK, WritesWhatIsChosen,
                      ExportWaitHasCause, Chosen, ExportPreviews
  <1>6. CASE DismissExportNotice
    BY <1>0, <1>6 DEF DismissExportNotice, ExportInv, ExportTypeOK, WritesWhatIsChosen,
                      ExportWaitHasCause, Chosen, ExportPreviews
  <1>7. CASE LeaveExport
    BY <1>7, FreshKeeps DEF LeaveExport
  <1>8. ASSUME NEW c \in ExportChoices, NEW kind \in {"ok", "other", "failed"}, PreviewAnswered(c, kind)
        PROVE  ExportInv'
    <2> DEFINE p == IF kind = "ok" THEN PreviewOf(c) ELSE NoPreview
               st == [ok |-> "preview-ready", other |-> "idle", failed |-> "failed"][kind]
               no == IF kind = "failed" THEN "failed" ELSE export.notice
    <2>1. export' = [export EXCEPT !.preview = p, !.status = st, !.notice = no]
          /\ previewQueries' = [previewQueries EXCEPT ![c] = @ - 1] /\ previewQueries[c] > 0
          /\ previewCache' = (IF kind = "ok" THEN previewCache \cup {c} ELSE previewCache)
          /\ UNCHANGED <<exportCall, openCall>>
      BY <1>8 DEF PreviewAnswered
    <2>2. p \in ExportPreviews /\ st \in {"preview-ready", "idle", "failed"}
      BY PreviewsAreTyped
    <2>3. no \in {"none", "failed", "written", "unreported", "opened", "unconfirmed"}
      BY <1>0
    <2> HIDE DEF p, st, no
    <2>4. previewQueries' \in [ExportChoices -> Nat]
      BY <2>1 DEF ExportInv, ExportTypeOK
    <2>5. export' \in Screens
      BY <1>0, <2>1, <2>2, <2>3
    <2>6. previewCache' \subseteq ExportChoices
      BY <2>1 DEF ExportInv, ExportTypeOK
    <2>7. export'.busy = export.busy /\ export'.opening = export.opening /\ export'.status # "loading-preview"
          /\ export'.format = export.format /\ export'.level = export.level
      BY <1>0, <2>1, <2>2
    <2>8. ExportTypeOK'
      BY <2>1, <2>4, <2>5, <2>6 DEF ExportInv, ExportTypeOK
    <2> QED BY <2>1, <2>5, <2>7, <2>8
            DEF ExportInv, WritesWhatIsChosen, ExportWaitHasCause, Chosen, ExportPreviews
  <1>9. ASSUME NEW how \in {"written", "unreported", "failed"}, ExportEnded(how) PROVE ExportInv'
    BY <1>0, <1>9 DEF ExportEnded, ExportInv, ExportTypeOK, WritesWhatIsChosen, ExportWaitHasCause,
                      NotExporting, ExportPreviews
  <1>10. ASSUME NEW how \in {"opened", "unconfirmed", "failed"}, ArtifactOpened(how) PROVE ExportInv'
    BY <1>0, <1>10 DEF ArtifactOpened, ExportInv, ExportTypeOK, WritesWhatIsChosen, ExportWaitHasCause,
                       Chosen, ExportPreviews
  <1> QED BY <1>1, <1>2, <1>3, <1>4, <1>5, <1>6, <1>7, <1>8, <1>9, <1>10 DEF ExportNext, ExportAnswers

-----------------------------------------------------------------------------
\* The curriculum (Learn.tsx).

\* An answer is judged only for a lesson that was open.
LearnInv ==
    /\ LearnTypeOK /\ HeldWhileJudged
    /\ learn \in [loaded : BOOLEAN, completed : SUBSET Lessons, listed : BOOLEAN,
                  lesson : Lessons \cup {NoLesson}, detail : Lessons \cup {NoLesson}, step : Nat,
                  outcome : {"none", "correct", "wrong"}, validating : BOOLEAN]
    /\ lessonCalls \in [opening : SUBSET Lessons, details : SUBSET Lessons, catalogue : BOOLEAN,
                        reset : BOOLEAN, reread : Lessons \cup {NoLesson}]
    /\ judging \in [any : BOOLEAN, lesson : Lessons \cup {NoLesson}, exercise : Lessons \cup {NoLesson}]
    /\ judging.any => judging.lesson # NoLesson

\* The curriculum when it is opened.
LEMMA LearnStarts == ASSUME LearnInit PROVE LearnInv
  BY DEF LearnInit, LearnFresh, CallsFresh, NotJudging, LearnInv, LearnTypeOK, HeldWhileJudged

\* Every step of the curriculum, late texts included.
LEMMA LearnStep == ASSUME LearnInv, [LearnNext]_learnVars PROVE LearnInv'
  <1> USE DEF LearnInv, LearnTypeOK, HeldWhileJudged
  <1>1. CASE UNCHANGED learnVars
    BY <1>1 DEF learnVars
  <1>2. ASSUME NEW ok \in BOOLEAN, CurriculumLoaded(ok) PROVE LearnInv'
    BY <1>2 DEF CurriculumLoaded
  <1>3. ASSUME NEW ok \in BOOLEAN, ProgressReset(ok) PROVE LearnInv'
    <2>1. /\ UNCHANGED <<learn, judging>> /\ learned' \in {learned, {}}
          /\ lessonCalls' \in [opening : SUBSET Lessons, details : SUBSET Lessons, catalogue : BOOLEAN,
                               reset : BOOLEAN, reread : Lessons \cup {NoLesson}]
      BY <1>3 DEF ProgressReset
    <2> QED BY <2>1
  <1>4. ASSUME NEW l \in Lessons, OpenLesson(l) PROVE LearnInv'
    BY <1>4 DEF OpenLesson
  <1>5. ASSUME NEW l \in Lessons, LessonOpened(l) PROVE LearnInv'
    BY <1>5 DEF LessonOpened
  <1>6. ASSUME NEW l \in Lessons, NEW ok \in BOOLEAN, DetailLoaded(l, ok) PROVE LearnInv'
    BY <1>6 DEF DetailLoaded
  <1>7. ASSUME NEW s \in 0 .. 3, GoToStep(s) PROVE LearnInv'
    BY <1>7 DEF GoToStep
  <1>8. ASSUME NEW c \in BOOLEAN, ChoiceJudged(c) PROVE LearnInv'
    <2>1. Judged(c).learned \in SUBSET Lessons /\ Judged(c).outcome \in {"none", "correct", "wrong"}
          /\ Judged(c).refused \in BOOLEAN
      BY <1>8 DEF Judged, ChoiceJudged
    <2> QED BY <1>8, <2>1 DEF ChoiceJudged, NotJudging
  <1>9. CASE BackToMenu
    BY <1>9 DEF BackToMenu
  <1>10. CASE SubmitChoice
    <2>1. learn.lesson # NoLesson
      BY <1>10 DEF SubmitChoice, LearnView
    <2> QED BY <1>10, <2>1 DEF SubmitChoice
  <1>11. CASE ChoiceFailed
    BY <1>11 DEF ChoiceFailed, NotJudging
  <1>12. CASE ResetProgress
    BY <1>12 DEF ResetProgress
  <1> QED BY <1>1, <1>2, <1>3, <1>4, <1>5, <1>6, <1>7, <1>8, <1>9, <1>10, <1>11, <1>12 DEF LearnNext

\* Only the judgement of an answer adds to what was learned.
LEMMA LessonsComplete ==
    ASSUME [LearnNext]_learnVars, NEW l \in learned' \ learned
    PROVE  judging.exercise = l /\ judging.lesson = l
  <1>1. CASE \E c \in BOOLEAN : ChoiceJudged(c)
    <2>1. PICK c \in BOOLEAN : learned' = Judged(c).learned
      BY <1>1 DEF ChoiceJudged
    <2> QED BY <2>1 DEF Judged
  <1>2. ASSUME learned' \in {learned, {}} PROVE FALSE
    BY <1>2
  <1>3. CASE UNCHANGED learnVars
    BY <1>2, <1>3 DEF learnVars
  <1>4. CASE \E ok \in BOOLEAN : CurriculumLoaded(ok) \/ ProgressReset(ok)
    BY <1>2, <1>4 DEF CurriculumLoaded, ProgressReset
  <1>5. CASE \E x \in Lessons : OpenLesson(x) \/ LessonOpened(x) \/ \E ok \in BOOLEAN : DetailLoaded(x, ok)
    BY <1>2, <1>5 DEF OpenLesson, LessonOpened, DetailLoaded
  <1>6. CASE (\E s \in 0 .. 3 : GoToStep(s)) \/ BackToMenu \/ SubmitChoice \/ ChoiceFailed \/ ResetProgress
    BY <1>2, <1>6 DEF GoToStep, BackToMenu, SubmitChoice, ChoiceFailed, ResetProgress
  <1> QED BY <1>1, <1>3, <1>4, <1>5, <1>6 DEF LearnNext

-----------------------------------------------------------------------------
\* The screens together.

ToolInv ==
    /\ open \in ToolScreenNames
    /\ ControlInv /\ ExplorerInv /\ ReplayInv /\ RecordingsInv
    /\ FleetInv /\ SecurityInv /\ PluginsInv /\ CompareInv
    /\ AssistantInv /\ SandboxInv /\ ExportInv /\ LearnInv

\* What one step of the application is to each screen: a step of its own, or none.
LEMMA ToolStep ==
    ASSUME [ToolNext]_toolVars
    PROVE  /\ UNCHANGED open
           /\ [ControlNext]_controlVars
           /\ [ExplorerNext]_explorerVars
           /\ [ReplayNext]_replayVars
           /\ [RecordingsNext]_recordingsVars
           /\ [FleetNext]_fleetVars
           /\ [SecurityNext]_securityVars
           /\ [PluginsNext]_pluginsVars
           /\ [CompareNext]_compareVars
           /\ [AssistantNext]_assistantVars
           /\ [SandboxNext]_sandboxVars
           /\ [ExportNext]_exportVars
           /\ [LearnNext]_learnVars
  <1>1. CASE UNCHANGED toolVars
    BY <1>1 DEF toolVars
  <1>2. CASE ControlNext /\ OnlyTool("control")
    BY <1>2, Zenon DEF OnlyTool
  <1>3. CASE ExplorerNext /\ OnlyTool("explorer")
    BY <1>3, Zenon DEF OnlyTool
  <1>4. CASE ReplayNext /\ OnlyTool("replay")
    BY <1>4, Zenon DEF OnlyTool
  <1>5. CASE RecordingsNext /\ OnlyTool("recordings")
    BY <1>5, Zenon DEF OnlyTool
  <1>6. CASE FleetNext /\ OnlyTool("fleet")
    BY <1>6, Zenon DEF OnlyTool
  <1>7. CASE SecurityNext /\ OnlyTool("security")
    BY <1>7, Zenon DEF OnlyTool
  <1>8. CASE PluginsNext /\ OnlyTool("plugins")
    BY <1>8, Zenon DEF OnlyTool
  <1>9. CASE CompareNext /\ OnlyTool("compare")
    BY <1>9, Zenon DEF OnlyTool
  <1>10. CASE AssistantNext /\ OnlyTool("assistant")
    BY <1>10, Zenon DEF OnlyTool
  <1>11. CASE SandboxNext /\ OnlyTool("sandbox")
    BY <1>11, Zenon DEF OnlyTool
  <1>12. CASE ExportNext /\ OnlyTool("export")
    BY <1>12, Zenon DEF OnlyTool
  <1>13. CASE LearnNext /\ OnlyTool("learn")
    BY <1>13, Zenon DEF OnlyTool
  <1> QED BY <1>1, <1>2, <1>3, <1>4, <1>5, <1>6, <1>7,
             <1>8, <1>9, <1>10, <1>11, <1>12, <1>13 DEF ToolNext

\* Every screen keeps what relates the things it shows to the things it waits for and to
\* the engine, through every order of answers, failures, retries and visits.
THEOREM ToolInvariant == ToolSpec => []ToolInv
  <1>1. ToolInit => ToolInv
    <2> SUFFICES ASSUME ToolInit PROVE ToolInv
      OBVIOUS
    <2>1. open \in ToolScreenNames
      BY UsedAreTools DEF ToolInit
    <2> QED BY <2>1, ControlStarts, ExplorerStarts, ReplayStarts, RecordingsStart, FleetStarts,
               SecurityStarts, PluginsStart, CompareStarts, AssistantStarts, SandboxStarts, ExportStarts, LearnStarts DEF ToolInit, ToolInv
  <1>2. ToolInv /\ [ToolNext]_toolVars => ToolInv'
    <2> SUFFICES ASSUME ToolInv, [ToolNext]_toolVars PROVE ToolInv'
      OBVIOUS
    <2>1. open' \in ToolScreenNames
      BY ToolStep DEF ToolInv
    <2>2. ControlInv'
      BY ToolStep, ControlStep DEF ToolInv
    <2>3. ExplorerInv'
      BY ToolStep, ExplorerStep DEF ToolInv
    <2>4. ReplayInv'
      BY ToolStep, ReplayStep DEF ToolInv
    <2>5. RecordingsInv'
      BY ToolStep, RecordingsStep DEF ToolInv
    <2>6. FleetInv'
      BY ToolStep, FleetStep DEF ToolInv
    <2>7. SecurityInv'
      BY ToolStep, SecurityStep DEF ToolInv
    <2>8. PluginsInv'
      BY ToolStep, PluginsStep DEF ToolInv
    <2>9. CompareInv'
      BY ToolStep, CompareStep DEF ToolInv
    <2>10. AssistantInv'
      BY ToolStep, AssistantStep DEF ToolInv
    <2>11. SandboxInv'
      BY ToolStep, SandboxStep DEF ToolInv
    <2>12. ExportInv'
      BY ToolStep, ExportStep DEF ToolInv
    <2>13. LearnInv'
      BY ToolStep, LearnStep DEF ToolInv
    <2> QED BY <2>1, <2>2, <2>3, <2>4, <2>5, <2>6, <2>7,
               <2>8, <2>9, <2>10, <2>11, <2>12, <2>13 DEF ToolInv
  <1> QED BY <1>1, <1>2, PTL DEF ToolSpec

\* Every variable of every screen has its type, whatever the engine answers and however
\* late: no answer leaves a screen in a state its rendering does not know.
THEOREM ToolTypes == ToolSpec => []ToolTypeOK
  <1>1. ToolInv => ToolTypeOK
    BY ExplorerHolds, CompareHolds
       DEF ToolInv, ToolTypeOK, ControlInv, ExplorerInv, ReplayInv, RecordingsInv, FleetInv,
           SecurityInv, PluginsInv, AssistantInv, SandboxInv, ExportInv, LearnInv
  <1> QED BY <1>1, ToolInvariant, PTL

\* A disabled button, a spinner, a skeleton, a thinking turn or a toast stands only while
\* the command, query or timer that ends it is under way (the busy flags of the screens).
THEOREM NothingIsHeld == ToolSpec => []BusyHasCause
  <1>1. ToolInv => BusyHasCause
    BY ExplorerHolds
       DEF ToolInv, BusyHasCause, ControlInv, ReplayInv, RecordingsInv, FleetInv,
           PluginsInv, AssistantInv, SandboxInv, ExportInv, LearnInv
  <1> QED BY <1>1, ToolInvariant, PTL

\* The capture, the entries, the recording, the switches, the draft, the report, the
\* packet and the choice on the screen are those of the engine and of the command.
THEOREM WhatIsShownIsReal == ToolSpec => []ShownIsReal
  <1>1. ToolInv => ShownIsReal
    BY ControlTracks, ExplorerHolds, RecordingIsReal, PluginsHold, CompareHolds, DumpHolds
       DEF ToolInv, ShownIsReal, ExplorerInv, PluginsInv, SandboxInv, ExportInv
  <1> QED BY <1>1, ToolInvariant, PTL

\* A mark of the user goes only by a press on a card it hides, or with what the browser
\* did not store; and a lesson is completed only by an answer to its own exercise, however
\* late its text came (ToggleExpected, validate_exercise).
THEOREM MarksAndLessonsAreKept == ToolSpec => WorkIsKept
  <1> DEFINE Marks == \A key \in security.expected \ security'.expected :
                         \/ \E f \in FilteredFindings : ToggleExpected(f) /\ FindingKey(f) = key
                         \/ LeaveSecurity /\ key \notin LoadExpectedSet(expectedStored)
             Completed == \A l \in learned' \ learned : judging.exercise = l /\ judging.lesson = l
  <1>1. ToolInv /\ [ToolNext]_toolVars => [Marks]_securityVars
    <2> SUFFICES ASSUME ToolInv, [ToolNext]_toolVars, ~UNCHANGED securityVars PROVE Marks
      OBVIOUS
    <2>1. SecurityInv /\ [SecurityNext]_securityVars
      BY ToolStep DEF ToolInv
    <2> QED BY <2>1, MarksChange
  <1>2. [ToolNext]_toolVars => [Completed]_learnVars
    <2> SUFFICES ASSUME [ToolNext]_toolVars, ~UNCHANGED learnVars PROVE Completed
      OBVIOUS
    <2>1. [LearnNext]_learnVars
      BY ToolStep
    <2> QED BY <2>1, LessonsComplete
  <1>3. ToolSpec => [][Marks]_securityVars
    BY <1>1, ToolInvariant, PTL DEF ToolSpec
  <1>4. ToolSpec => [][Completed]_learnVars
    BY <1>2, PTL DEF ToolSpec
  <1> QED BY <1>3, <1>4 DEF WorkIsKept, MarksAreKept, CompletedByOwnExercise
=============================================================================
