------------------------------- MODULE Explorer -------------------------------
(***************************************************************************)
(* The protocol explorer (hooks/useExplorerController.ts and               *)
(* screens/Explorer.tsx): a debounced search box, a cache of answers that  *)
(* outlives the screen, and searches whose answers may overtake each       *)
(* other.  The entries found for a term are represented by the term.       *)
(***************************************************************************)
EXTENDS Integers

CONSTANTS
    RawTerms,      \* what can be typed; "" is the empty box
    Norm,          \* normalizeTerm: trims, lowers and joins white space
    Categories,    \* filter buttons, "all" among them
    MaxSearches    \* bound: searches of one term in flight

Terms == {Norm[t] : t \in RawTerms}

ASSUME ExplorerConstants ==
    /\ "" \in RawTerms /\ Norm[""] = ""
    /\ {"nothing", "failed"} \cap Terms = {}
    /\ "all" \in Categories
    /\ MaxSearches \in Nat \ {0}

VARIABLES
    explorer,   \* what the mounted screen holds
    searches,   \* per term: searches in flight for the mounted screen
    orphaned,   \* per term: searches in flight for a screen that was left
    ipcCache,   \* per term: the entries cached, or "nothing"
    overtaken   \* history: the last answer shown was not for the term searched

explorerVars == <<explorer, searches, orphaned, ipcCache, overtaken>>

Fresh == [term |-> "", debounced |-> "", category |-> "all",
          entries |-> "nothing", loaded |-> FALSE, notice |-> FALSE]
None == [t \in Terms |-> 0]

\* fetchEntries: from the cache at once, from the engine otherwise.
FetchEntries(screen, raw) ==
    LET norm == Norm[raw]
    IN IF ipcCache[norm] # "nothing"
       THEN /\ explorer' = [screen EXCEPT !.notice = FALSE, !.loaded = TRUE,
                                          !.entries = ipcCache[norm]]
            /\ overtaken' = FALSE
            /\ UNCHANGED searches
       ELSE /\ searches[norm] < MaxSearches
            /\ explorer' = [screen EXCEPT !.notice = FALSE]
            /\ searches' = [searches EXCEPT ![norm] = @ + 1]
            /\ UNCHANGED overtaken

ExplorerInit ==
    /\ explorer = Fresh
    /\ searches = [None EXCEPT ![""] = 1]
    /\ orphaned = None
    /\ ipcCache = [t \in Terms |-> "nothing"]
    /\ overtaken = FALSE

\* The search box, and a related topic of an entry; the debounce starts again.
SetTerm(raw) ==
    /\ explorer' = [explorer EXCEPT !.term = raw]
    /\ UNCHANGED <<searches, orphaned, ipcCache, overtaken>>

SetCategory(c) ==
    /\ explorer' = [explorer EXCEPT !.category = c]
    /\ UNCHANGED <<searches, orphaned, ipcCache, overtaken>>

DismissNotice ==
    /\ explorer.notice
    /\ explorer' = [explorer EXCEPT !.notice = FALSE]
    /\ UNCHANGED <<searches, orphaned, ipcCache, overtaken>>

Debounce ==
    /\ explorer.debounced # explorer.term
    /\ FetchEntries([explorer EXCEPT !.debounced = explorer.term], explorer.term)
    /\ UNCHANGED <<orphaned, ipcCache>>

\* Clear (the button, or Escape with a term in the box).
ClearSearch ==
    LET cleared == [explorer EXCEPT !.term = "", !.debounced = "", !.category = "all"]
    IN /\ explorer.term # ""
       /\ IF explorer.debounced = ""
          THEN explorer' = cleared /\ UNCHANGED <<searches, overtaken>>
          ELSE FetchEntries(cleared, "")
       /\ UNCHANGED <<orphaned, ipcCache>>

\* Mutant: the answer is cached under the term searched by then.
CachedUnderTheBox(t, ok) ==
    /\ searches[t] > 0
    /\ searches' = [searches EXCEPT ![t] = @ - 1]
    /\ ipcCache' = IF ok THEN [ipcCache EXCEPT ![Norm[explorer.debounced]] = t] ELSE ipcCache
    /\ explorer' = [explorer EXCEPT !.entries = IF ok THEN t ELSE "failed",
                                    !.notice = @ \/ ~ok, !.loaded = TRUE]
    /\ overtaken' = (t # Norm[explorer.debounced])
    /\ UNCHANGED orphaned

\* An answer for the mounted screen: shown whatever was searched meanwhile.
SearchAnswered(t, ok) ==
    /\ searches[t] > 0
    /\ searches' = [searches EXCEPT ![t] = @ - 1]
    /\ ipcCache' = IF ok THEN [ipcCache EXCEPT ![t] = t] ELSE ipcCache
    /\ explorer' = [explorer EXCEPT !.entries = IF ok THEN t ELSE "failed",
                                    !.notice = @ \/ ~ok, !.loaded = TRUE]
    /\ overtaken' = (t # Norm[explorer.debounced])
    /\ UNCHANGED orphaned

\* The user leaves for another screen and comes back: the hook starts afresh; answers
\* to the screen left still fill the cache.
LeaveAndReturn ==
    /\ \A t \in Terms : searches[t] + orphaned[t] <= MaxSearches
    /\ orphaned' = [t \in Terms |-> orphaned[t] + searches[t]]
    /\ IF ipcCache[""] # "nothing"
       THEN /\ explorer' = [Fresh EXCEPT !.loaded = TRUE, !.entries = ipcCache[""]]
            /\ searches' = None
       ELSE explorer' = Fresh /\ searches' = [None EXCEPT ![""] = 1]
    /\ overtaken' = FALSE
    /\ UNCHANGED ipcCache

OrphanAnswered(t, ok) ==
    /\ orphaned[t] > 0
    /\ orphaned' = [orphaned EXCEPT ![t] = @ - 1]
    /\ ipcCache' = IF ok THEN [ipcCache EXCEPT ![t] = t] ELSE ipcCache
    /\ UNCHANGED <<explorer, searches, overtaken>>

ExplorerNext ==
    \/ \E raw \in RawTerms : SetTerm(raw)
    \/ \E c \in Categories : SetCategory(c)
    \/ DismissNotice \/ Debounce \/ ClearSearch \/ LeaveAndReturn
    \/ \E t \in Terms, ok \in BOOLEAN : SearchAnswered(t, ok) \/ OrphanAnswered(t, ok)

\* What the screen shows below its search box.
ExplorerView ==
    IF ~explorer.loaded THEN "skeletons"
    ELSE IF explorer.entries \in {"nothing", "failed"} THEN "empty" ELSE "entries"

-----------------------------------------------------------------------------
ExplorerTypeOK ==
    /\ explorer \in [term : RawTerms, debounced : RawTerms, category : Categories,
                     entries : Terms \cup {"nothing", "failed"}, loaded : BOOLEAN, notice : BOOLEAN]
    /\ searches \in [Terms -> 0 .. MaxSearches]
    /\ orphaned \in [Terms -> 0 .. 2 * MaxSearches]
    /\ ipcCache \in [Terms -> Terms \cup {"nothing"}]

\* The cache, filled by searches of this and of earlier visits in any order, never
\* gives the entries of one term for another.
CacheIsOwn == \A t \in Terms : ipcCache[t] \in {"nothing", t}

\* When every search is answered and the box is at rest, the entries are those of the
\* term in the box, unless that search failed or an older one was answered last.
EntriesMatchTerm ==
    searches = None /\ explorer.debounced = explorer.term /\ ~overtaken
    => explorer.entries \in {Norm[explorer.term], "failed"}

\* The screen waits with skeletons only for an answer that is on its way: no order of
\* answers, failures and visits leaves it loading for ever.
LoadingHasCause == ExplorerView = "skeletons" => searches # None
=============================================================================
