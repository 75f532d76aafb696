------------------------------- MODULE MCRegistry -------------------------------
(* One worker and one conductor that share the table. *)
EXTENDS Registry, TLC

CONSTANTS w, c

MCWorker    == {w}
MCConductor == {c}
=============================================================================
