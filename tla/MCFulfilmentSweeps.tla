------------------------- MODULE MCFulfilmentSweeps -------------------------
(***************************************************************************)
(* The instance of MCBranchOrder with one confirmation tick and one      *)
(* exception tick.                                                         *)
(***************************************************************************)
EXTENDS FulfilmentSweeps, TLC

CONSTANTS o1, i1, i2, f1, s1, s2

MCOrders == {o1}
MCItems == {i1, i2}
MCOneItem == {i1}
MCOrderOf == [i \in Items |-> o1]
MCOffers == {f1}
MCOfferOf == [i \in Items |-> f1]
MCSlots == {s1, s2}
MCSlotStart == (s1 :> 1) @@ (s2 :> 2)
=============================================================================
