------------------------------ MODULE MCAdmission ------------------------------
(* Two consumers of unequal weight and concurrency, each capped below the     *)
(* provider's rate.                                                           *)
EXTENDS Admission, TLC

MCTwo      == 1 .. 2
MCWeight   == 1 :> 1 @@ 2 :> 2
MCCap      == 1 :> 1 @@ 2 :> 2
MCSupply   == 1 :> 3 @@ 2 :> 2
MCTwoEach  == 1 :> 2 @@ 2 :> 2
MCBothArms == {TRUE, FALSE}

\* allocate against its reference, over bounded headrooms and budgets.
ASSUME AllocateIsFair ==
    \A head \in [ConsumerId -> 0 .. 4], budget \in 0 .. 6 :
        FairSplit(head, budget, Allocate(head, budget))
=============================================================================
