----------------------------- MODULE WriteBehind -----------------------------
(***************************************************************************)
(* What the durable mirror promises its callers, without the channel, the  *)
(* threads and the counters (the "Honesty rules" of durable.rs): records   *)
(* are attempted in the order they were accepted, a record that could not  *)
(* be stored is reported as loss, and a successful flush promises that     *)
(* everything accepted before it survives, a crash included.               *)
(***************************************************************************)
EXTENDS Integers

VARIABLES
    accepted,   \* number of records accepted so far
    attempted,  \* how many of them have been attempted
    stored,     \* the records in the database
    lossy,      \* a loss has been reported
    promised    \* every record up to this one was promised to survive

vars == <<accepted, attempted, stored, lossy, promised>>

Init ==
    /\ accepted = 0
    /\ attempted = 0
    /\ stored = {}
    /\ lossy = FALSE
    /\ promised = 0

Accept ==
    /\ accepted' = accepted + 1
    /\ UNCHANGED <<attempted, stored, lossy, promised>>

Store ==
    /\ attempted < accepted
    /\ attempted' = attempted + 1
    /\ stored' = stored \union {attempted + 1}
    /\ UNCHANGED <<accepted, lossy, promised>>

FailToStore ==
    /\ attempted < accepted
    /\ attempted' = attempted + 1
    /\ lossy' = TRUE
    /\ UNCHANGED <<accepted, stored, promised>>

ReportLoss ==
    /\ lossy' = TRUE
    /\ UNCHANGED <<accepted, attempted, stored, promised>>

Promise ==
    /\ \E n \in promised .. attempted :
          /\ 1 .. n \subseteq stored
          /\ promised' = n
    /\ UNCHANGED <<accepted, attempted, stored, lossy>>

Crash ==
    /\ \E n \in promised .. attempted : stored' = {r \in stored : r <= n}
    /\ UNCHANGED <<accepted, attempted, lossy, promised>>

Next == Accept \/ Store \/ FailToStore \/ ReportLoss \/ Promise \/ Crash

Spec == Init /\ [][Next]_vars
=============================================================================
