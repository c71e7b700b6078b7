----------------------------- MODULE ItemReturn -----------------------------
(***************************************************************************)
(* What returns promise about one delivered item, and nothing else: it is  *)
(* with its customer, or a return of it is open; a return that is received *)
(* settles the item for good, in money or for a replacement, and one that  *)
(* is finally refused leaves it with the customer for good; one that came  *)
(* to nothing may be tried again.                                          *)
(***************************************************************************)
CONSTANT Items

VARIABLE standing

Init == standing = [i \in Items |-> "kept"]

Move(i, from, to) ==
  /\ standing[i] = from
  /\ standing' = [standing EXCEPT ![i] = to]

Open(i) == Move(i, "kept", "open")
Withdraw(i) == Move(i, "open", "kept")
Settle(i) == Move(i, "open", "settled")
Refuse(i) == Move(i, "open", "refused")

Next == \E i \in Items : Open(i) \/ Withdraw(i) \/ Settle(i) \/ Refuse(i)

Spec == Init /\ [][Next]_standing
=============================================================================
