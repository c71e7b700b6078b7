--------------------------- MODULE OrderSettlement ---------------------------
(***************************************************************************)
(* What branch orders promise about money, and nothing else: an order is   *)
(* open until it is fulfilled or void; what was charged online is only     *)
(* ever given back line by line while the order is open, an order made     *)
(* void gives back everything that was charged, and an order that is       *)
(* fulfilled has not been given back in full.                              *)
(***************************************************************************)
CONSTANTS Orders, Lines

VARIABLES phase, bill, returned
settlementVars == <<phase, bill, returned>>

Init ==
  /\ phase = [o \in Orders |-> "open"]
  /\ bill \in [Orders -> SUBSET Lines]
  /\ returned = [o \in Orders |-> {}]

GiveBack(o) ==
  /\ phase[o] = "open"
  /\ \E L \in SUBSET (bill[o] \ returned[o]) :
       returned' = [returned EXCEPT ![o] = @ \cup L]
  /\ UNCHANGED <<phase, bill>>

Fulfil(o) ==
  /\ phase[o] = "open"
  /\ bill[o] # {} => returned[o] # bill[o]
  /\ phase' = [phase EXCEPT ![o] = "fulfilled"]
  /\ UNCHANGED <<bill, returned>>

Void(o) ==
  /\ phase[o] = "open"
  /\ phase' = [phase EXCEPT ![o] = "void"]
  /\ returned' = [returned EXCEPT ![o] = bill[o]]
  /\ UNCHANGED bill

Next == \E o \in Orders : GiveBack(o) \/ Fulfil(o) \/ Void(o)

Spec == Init /\ [][Next]_settlementVars
==============================================================================
