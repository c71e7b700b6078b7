------------------------ MODULE BranchOrderSettlement ------------------------
(***************************************************************************)
(* BranchOrder implements OrderSettlement: the mapping from rows of        *)
(* branch_orders, branch_order_items and branch_order_refunds to the       *)
(* phase, the bill and the money given back of the abstract specification. *)
(***************************************************************************)
EXTENDS BranchOrder

PhaseOf(o) ==
  IF status[o] = "COMPLETED" THEN "fulfilled"
  ELSE IF status[o] \in {"CANCELLED", "REFUNDED"} THEN "void"
  ELSE "open"

\* What was charged online, and the part of it that has a refund row.
BillOf(o) ==
  IF Online(o) THEN ItemsOf(o) \cup (IF fee[o] = "charged" THEN {DeliveryFee} ELSE {})
               ELSE {}
RefundedLines(o) ==
  {i \in ItemsOf(o) : itemRefunds[i] > 0}
  \cup (IF feeRefunds[o] > 0 THEN {DeliveryFee} ELSE {})

Settlement == INSTANCE OrderSettlement WITH
  Lines <- Items \cup {DeliveryFee},
  phase <- [o \in Orders |-> PhaseOf(o)],
  bill <- [o \in Orders |-> BillOf(o)],
  returned <- [o \in Orders |-> BillOf(o) \cap RefundedLines(o)]

\* Whatever sequence of handlers and sweeps runs, the order's money follows
\* the abstract promise: nothing is given back after the order is fulfilled,
\* and a void order has given back everything that was charged.
SettlementSpec == Settlement!Spec
=============================================================================
