------------------------------- MODULE Assistant -------------------------------
(***************************************************************************)
(* The assistant (hooks/useAssistantController.ts, screens/Assistant).     *)
(* Every question is a turn of the conversation with an id of its own; an  *)
(* answer is put into the turn it was asked for, if that is still there.   *)
(* "Busy" is one flag for all turns, and a retry does not ask for it.      *)
(***************************************************************************)
EXTENDS Integers

CONSTANT MaxTurns   \* bound: questions asked while the screen is mounted

ASSUME AssistantConstants == MaxTurns \in Nat \ {0}

VARIABLES
    chat,     \* the prompt, the busy flag, the notice
    turns,    \* the conversation: the status of every turn that is in it
    asking    \* the turns whose question is with the engine

assistantVars == <<chat, turns, asking>>

Ids == 1 .. MaxTurns
ChatFresh == [prompt |-> FALSE, busy |-> FALSE, notice |-> FALSE, asked |-> 0]
NoTurns == [t \in {} |-> "pending"]

AssistantInit == chat = ChatFresh /\ turns = NoTurns /\ asking = {}

\* What a card offers: a failed turn can be asked again, any turn can be deleted.
TurnCard(t) == [spinner |-> turns[t] = "pending", retry |-> turns[t] = "error", answer |-> turns[t] = "complete"]

AssistantView ==
    [input |-> ~chat.busy, ask |-> ~chat.busy /\ chat.prompt, chips |-> ~chat.busy,
     clear |-> turns # NoTurns]

TypePrompt(words) ==
    /\ AssistantView.input
    /\ chat' = [chat EXCEPT !.prompt = words]
    /\ UNCHANGED <<turns, asking>>

\* askQuestion without a target, up to its await: a turn of its own.
AskNew ==
    LET id == chat.asked + 1
    IN /\ chat.asked < MaxTurns
       /\ chat' = [chat EXCEPT !.prompt = FALSE, !.notice = FALSE, !.busy = TRUE, !.asked = id]
       /\ turns' = [t \in DOMAIN turns \cup {id} |-> IF t = id THEN "pending" ELSE turns[t]]
       /\ asking' = asking \cup {id}

Ask == AssistantView.ask /\ AskNew
AskSuggestion == AssistantView.chips /\ AskNew

Retry(t) ==
    /\ t \in DOMAIN turns /\ TurnCard(t).retry
    /\ chat' = [chat EXCEPT !.notice = FALSE, !.busy = TRUE]
    /\ turns' = [turns EXCEPT ![t] = "pending"]
    /\ asking' = asking \cup {t}

\* Mutant: the question of a deleted turn is aborted, its answer never comes.
DeleteAborts(t) ==
    /\ t \in DOMAIN turns
    /\ turns' = [u \in DOMAIN turns \ {t} |-> turns[u]]
    /\ asking' = asking \ {t}
    /\ UNCHANGED chat
DeleteTurn(t) ==
    /\ t \in DOMAIN turns
    /\ turns' = [u \in DOMAIN turns \ {t} |-> turns[u]]
    /\ UNCHANGED <<chat, asking>>

ClearHistory ==
    /\ AssistantView.clear
    /\ turns' = NoTurns
    /\ chat' = [chat EXCEPT !.notice = FALSE]
    /\ UNCHANGED asking

DismissChatNotice ==
    /\ chat.notice
    /\ chat' = [chat EXCEPT !.notice = FALSE]
    /\ UNCHANGED <<turns, asking>>

\* askQuestion, after its await: whoever ends first ends the busy time of all.
TurnAnswered(t, ok) ==
    /\ t \in asking
    /\ asking' = asking \ {t}
    /\ turns' = [u \in DOMAIN turns |->
                    IF u = t THEN (IF ok THEN "complete" ELSE "error") ELSE turns[u]]
    /\ chat' = [chat EXCEPT !.busy = FALSE, !.notice = @ \/ ~ok]

LeaveAssistant == chat' = ChatFresh /\ turns' = NoTurns /\ asking' = {}

AssistantNext ==
    \/ \E words \in BOOLEAN : TypePrompt(words)
    \/ Ask \/ AskSuggestion \/ ClearHistory \/ DismissChatNotice \/ LeaveAssistant
    \/ \E t \in Ids : Retry(t) \/ DeleteTurn(t) \/ \E ok \in BOOLEAN : TurnAnswered(t, ok)

-----------------------------------------------------------------------------
AssistantTypeOK ==
    /\ chat \in [prompt : BOOLEAN, busy : BOOLEAN, notice : BOOLEAN, asked : 0 .. MaxTurns]
    /\ DOMAIN turns \subseteq Ids /\ \A t \in DOMAIN turns : turns[t] \in {"pending", "complete", "error"}
    /\ asking \subseteq Ids

\* A turn thinks exactly while its own question is with the engine: whatever is retried,
\* deleted or cleared meanwhile, no turn is left thinking and none is given an answer
\* while it is being asked again.
ThinkingIsAsked == \A t \in DOMAIN turns : turns[t] = "pending" <=> t \in asking

\* The form is held only while some question is under way.
BusyHasQuestion == chat.busy => asking # {}
=============================================================================
