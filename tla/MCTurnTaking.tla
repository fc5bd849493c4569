---------------------------- MODULE MCTurnTaking ----------------------------
(* Small instances of TurnTaking. *)
EXTENDS TurnTaking

MCBoth == {"events", "semaphores"}
MCEvents == {"events"}
=============================================================================
