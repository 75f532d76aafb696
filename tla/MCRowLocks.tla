------------------------------ MODULE MCRowLocks ------------------------------
(* Two workers, one with a batch of two deliveries and one with a single one. *)
EXTENDS RowLocks

CONSTANTS w1, w2

MCDeliveryId == 1 .. 3
MCWorker == {w1, w2}
MCBatch == [w \in MCWorker |-> IF w = w1 THEN {1, 2} ELSE {3}]
=============================================================================
