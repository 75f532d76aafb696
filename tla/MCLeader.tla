------------------------------- MODULE MCLeader -------------------------------
(* Two conductors with two connections each, orphaned sessions included.  *)
EXTENDS Leader, TLC

CONSTANTS c1, c2, s1, s2, s3, s4

MCConductor == {c1, c2}
MCSession   == {s1, s2, s3, s4}
MCSymmetry  == Permutations(MCSession)
=============================================================================
