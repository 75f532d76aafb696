------------------------------ MODULE MCDelivery ------------------------------
(* Two deliveries of one coalesced key, stale after three virtual seconds. *)
EXTENDS Delivery, TLC

CONSTANTS w1, w2

MCDeliveryId   == 1 .. 2
MCWorker       == {w1, w2}
MCSymmetry     == Permutations(MCWorker)
MCKeyOf        == [d \in MCDeliveryId |-> "k"]
MCCoalesced    == {"k"}
MCMaxStaleness == [k \in {"k"} |-> 3]
MCLongStaleness == [k \in {"k"} |-> 6]
=============================================================================
