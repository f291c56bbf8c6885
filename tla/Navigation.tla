-------------------------------- MODULE Navigation --------------------------------
(***************************************************************************)
(* Which screen is shown and which piece of evidence it was opened for     *)
(* (context/EvidenceNavigationContext.tsx).  The target outlives the       *)
(* screen: the menu changes the screen and leaves the target as it is.     *)
(***************************************************************************)
EXTENDS Integers

CONSTANTS
    Screens,      \* the screens of the menu
    Refs          \* the evidence that can be followed: [kind, id]

ASSUME NavigationConstants ==
    /\ {"dashboard", "timeline", "journey", "apps"} \subseteq Screens
    /\ \A r \in Refs : r.kind \in {"flow", "session", "packet"}

VARIABLE nav      \* the screen, and the target it was opened for

NoTarget == [kind |-> "none", id |-> 0]
NavInit == nav = [screen |-> "dashboard", target |-> NoTarget]

ScreenOf(kind) == [flow |-> "apps", session |-> "journey", packet |-> "timeline"][kind]

\* navigateToEvidence.
Followed(ref) == [screen |-> ScreenOf(ref.kind), target |-> ref]

\* setScreen.
Switched(s) == [nav EXCEPT !.screen = s]

\* clearNavigationTarget.
Untargeted == [nav EXCEPT !.target = NoTarget]

\* What a screen reads of the target: its own, or none.
TargetFor(screen, n) ==
    IF n.target.kind # "none" /\ ScreenOf(n.target.kind) = screen THEN n.target.id ELSE 0

NavTypeOK == nav.screen \in Screens /\ nav.target \in Refs \cup {NoTarget}
=============================================================================
