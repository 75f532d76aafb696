------------------------------- MODULE MCMetrics -------------------------------
(* Two conductors that take turns. *)
EXTENDS Metrics, TLC

CONSTANTS c1, c2

MCConductor == {c1, c2}
=============================================================================
