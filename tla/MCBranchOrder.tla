--------------------------- MODULE MCBranchOrder ---------------------------
(***************************************************************************)
(* One order of two items that share an offer.  Ticks stand for a day:     *)
(* reminder after 2, auto-confirm after 3, timeouts after 2, slots that    *)
(* start now, in one and in two ticks.                                     *)
(***************************************************************************)
EXTENDS BranchOrderSettlement, TLC

CONSTANTS o1, i1, i2, f1, s1, s2

MCOrders == {o1}
MCItems == {i1, i2}
MCOrderOf == (i1 :> o1) @@ (i2 :> o1)
MCOffers == {f1}
MCOfferOf == (i1 :> f1) @@ (i2 :> f1)
MCSlots == {s1, s2}
MCSlotStart == (s1 :> 1) @@ (s2 :> 2)
============================================================================
