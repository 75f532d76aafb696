------------------------------ MODULE Settlement ------------------------------
(***************************************************************************)
(* How a lease ends, with no rows, locks or transactions in it: answered   *)
(* by the worker that holds it, together with every other of its batch     *)
(* that is still held, or reclaimed once it has lapsed.  One step, and     *)
(* once.                                                                   *)
(***************************************************************************)

CONSTANTS DeliveryId,   \* the leased deliveries
          Worker,
          Batch         \* those each worker holds a claim on

VARIABLES lease,        \* how the lease of each delivery stands
          expired       \* those whose term has passed

settlementVars == <<lease, expired>>

SettlementInit ==
    /\ lease = [d \in DeliveryId |-> "held"]
    /\ expired = {}

Held == {d \in DeliveryId : lease[d] = "held"}

Ends(ds, how) ==
    /\ lease' = [d \in DeliveryId |-> IF d \in ds THEN how ELSE lease[d]]
    /\ UNCHANGED expired

Expires(d) ==
    /\ expired' = expired \cup {d}
    /\ UNCHANGED lease

\* All that are left of the batch, and no other.
Answered(w) == Ends(Batch[w] \cap Held, "answered")

\* Any of those that are due.
Reclaimed == \E due \in SUBSET (expired \cap Held) : Ends(due, "reclaimed")

SettlementNext ==
    \/ \E d \in DeliveryId : Expires(d)
    \/ \E w \in Worker : Answered(w)
    \/ Reclaimed

SettlementSpec == SettlementInit /\ [][SettlementNext]_settlementVars
=============================================================================
