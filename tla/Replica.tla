------------------------------- MODULE Replica -------------------------------
(***************************************************************************)
(* What a replication target owes its source: at every moment it shows the *)
(* source as it was at some point of its history, and it never goes back.  *)
(* `history[n]' is the source after its first n changes.                   *)
(***************************************************************************)
EXTENDS Naturals

VARIABLES
    history,    \* the states the source went through, from 0
    replica     \* what the target shows

Init == replica = history[0]

\* The target moves from one state of the source to a later one, over as many
\* changes as it applies at once.
Advance ==
    /\ \E m, n \in DOMAIN history :
        /\ m <= n
        /\ replica = history[m]
        /\ replica' = history[n]
    /\ UNCHANGED history

Spec == Init /\ [][Advance]_<<history, replica>>
=============================================================================
