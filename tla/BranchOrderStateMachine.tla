---------------------- MODULE BranchOrderStateMachine ----------------------
(***************************************************************************)
(* The transition graph of a branch order, as data: one record per rule of *)
(* TRANSITIONS, and canTransition() as "some rule matches".  Every handler *)
(* that changes a status goes through CanTransition.                       *)
(***************************************************************************)
EXTENDS Naturals

Statuses == {"PLACED", "PREPARING", "SENT", "DELIVERED", "PICKED_UP",
             "DELIVERY_FAILED", "REFUND_REQUESTED",
             "COMPLETED", "CANCELLED", "REFUNDED"}
TerminalStatuses == {"COMPLETED", "CANCELLED", "REFUNDED"}
FulfilmentMethods == {"DELIVERY", "PICKUP"}
PaymentMethods == {"ONLINE", "COD"}

AnyMethod == FulfilmentMethods
AnyPayment == PaymentMethods
Delivery == {"DELIVERY"}
Pickup == {"PICKUP"}

\* attemptCountMatches: an optional bound on deliveryAttemptCount is a set
\* of at most one number, empty when the rule leaves it undefined.
AnyCount == [min |-> {}, max |-> {}]
AtMost(n) == [min |-> {}, max |-> {n}]
AtLeast(n) == [min |-> {n}, max |-> {}]
AttemptCountMatches(counts, n) ==
  /\ \A lo \in counts.min : n >= lo
  /\ \A hi \in counts.max : n <= hi

Rule(from, to, methods, payments, counts) ==
  [from |-> from, to |-> to, methods |-> methods,
   payments |-> payments, counts |-> counts]

Transitions == {
  Rule("PLACED", "PREPARING", AnyMethod, AnyPayment, AnyCount),
  Rule("PLACED", "CANCELLED", AnyMethod, AnyPayment, AnyCount),
  Rule("PLACED", "REFUNDED", AnyMethod, {"ONLINE"}, AnyCount),
  Rule("PREPARING", "SENT", Delivery, AnyPayment, AnyCount),
  Rule("PREPARING", "PICKED_UP", Pickup, AnyPayment, AnyCount),
  Rule("PREPARING", "CANCELLED", AnyMethod, AnyPayment, AnyCount),
  Rule("PREPARING", "REFUNDED", AnyMethod, {"ONLINE"}, AnyCount),
  Rule("SENT", "DELIVERED", Delivery, AnyPayment, AnyCount),
  Rule("SENT", "DELIVERY_FAILED", Delivery, AnyPayment, AtMost(0)),
  Rule("SENT", "DELIVERY_FAILED", Delivery, {"ONLINE"}, AtLeast(1)),
  Rule("SENT", "CANCELLED", Delivery, {"COD"}, AtLeast(1)),
  Rule("DELIVERED", "COMPLETED", Delivery, AnyPayment, AnyCount),
  Rule("PICKED_UP", "COMPLETED", Pickup, AnyPayment, AnyCount),
  Rule("DELIVERY_FAILED", "SENT", Delivery, AnyPayment, AtMost(1)),
  Rule("DELIVERY_FAILED", "CANCELLED", Delivery, {"COD"}, AtMost(1)),
  Rule("DELIVERY_FAILED", "REFUNDED", Delivery, {"ONLINE"}, AtMost(1)),
  Rule("DELIVERY_FAILED", "REFUND_REQUESTED", Delivery, {"ONLINE"}, AtLeast(2)),
  Rule("REFUND_REQUESTED", "REFUNDED", Delivery, {"ONLINE"}, AtLeast(2)) }

\* canTransition(from, to, fulfilmentMethod, paymentMethod, count)
CanTransition(from, to, method, payment, count) ==
  \E r \in Transitions :
    /\ r.from = from
    /\ r.to = to
    /\ method \in r.methods
    /\ payment \in r.payments
    /\ AttemptCountMatches(r.counts, count)
============================================================================
