------------------------------ MODULE MCControl ------------------------------
(* Two overlapping PATCH requests and a POST, on a script of two seconds.     *)
EXTENDS Control, TLC

MCSpeed    == {1, 2}
MCSymmetry == Permutations(Client)
=============================================================================
