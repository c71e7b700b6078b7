---------------------------- MODULE BranchOrder ----------------------------
(***************************************************************************)
(* The life of branch orders between a confirmed checkout and a terminal   *)
(* status: every customer, staff, platform-admin and system transaction    *)
(* on a branch_orders row.  Each transaction first takes the row's lock    *)
(* (SELECT ... FOR UPDATE) and re-reads it, so one transaction is one      *)
(* action, except for the two COD hand-overs, which read the money due     *)
(* before they lock and are therefore two.                                 *)
(*                                                                         *)
(* The system transactions (ReconcileOne ... ResolveTimeout) are enabled   *)
(* here whenever their own re-check under the lock passes, whoever picked  *)
(* the order as a candidate and however long ago; FulfilmentSweeps adds    *)
(* the candidate queries.                                                  *)
(*                                                                         *)
(* Data: an amount of money is the set of the order's lines it stands for  *)
(* (its items, and the delivery fee); a timestamp column is the time since *)
(* it was written, in Tick steps, up to the largest threshold it is        *)
(* compared with; a (delivery window, date) pair is a slot.                *)
(***************************************************************************)
EXTENDS BranchOrderStateMachine, FiniteSets

CONSTANTS
  Orders,          \* branch_orders rows
  Items,           \* branch_order_items rows
  OrderOf,         \* the order of an item
  Offers,          \* offer variants
  OfferOf,         \* the offer variant an item is a unit of
  Slots,           \* (delivery window, date) pairs
  SlotStart,       \* ticks until a slot starts, at the initial state
  None,            \* SQL NULL
  ConfirmReminder, \* CONFIRM_REMINDER_HOURS
  AutoConfirm,     \* AUTO_CONFIRM_HOURS
  Timeout,         \* SLOT_MISSED_TIMEOUT_HOURS = DELIVERY_FAILURE_TIMEOUT_HOURS
  PrepLead         \* PREP_REMINDER_LEAD_HOURS

DeliveryFee == "DELIVERY_FEE"

ASSUME ItemsAssumption ==
  /\ OrderOf \in [Items -> Orders]
  /\ OfferOf \in [Items -> Offers]
  /\ IsFiniteSet(Items)
  /\ DeliveryFee \notin Items
  /\ \A o \in Orders : \E i \in Items : OrderOf[i] = o

ASSUME TimeAssumption ==
  /\ SlotStart \in [Slots -> Nat]
  /\ ConfirmReminder \in Nat \ {0}
  /\ AutoConfirm \in Nat
  /\ ConfirmReminder < AutoConfirm
  /\ Timeout \in Nat \ {0}
  /\ PrepLead \in Nat \ {0}

Operations == {"markDelivered", "pickupHandover"}

\* A nullable column or a pending read is a set of at most one value.
Amounts == SUBSET (Items \cup {DeliveryFee})
CodReads == [operation : Operations, due : SUBSET Amounts]

ASSUME NoneAssumption ==
  /\ None \notin Nat
  /\ None \notin Slots

VARIABLES
  status,        \* BranchOrderStatus
  method,        \* fulfilmentMethod
  payment,       \* paymentMethod
  fee,           \* deliveryFee: "null", "zero" or "charged"
  attempts,      \* deliveryAttemptCount
  cancelled,     \* items with cancelledAt set
  itemRefunds,   \* branch_order_refunds rows per item
  feeRefunds,    \* branch_order_refunds rows with reason DELIVERY_FEE, per order
  restocked,     \* units put back into branch_stock.quantity, per offer
  codRead,       \* amount due read by a hand-over that has not locked the row yet
  collected,     \* codCollectedAmount
  deliveredAge,  \* deliveredAt
  reported,      \* notReceivedReportedAt is set
  reminded,      \* confirmReminderSentAt is set
  slot,          \* deliveryWindowId and scheduledDate
  prepSentFor,   \* prepReminderSentForWindowId and prepReminderSentForDate
  slotMissedAge, \* slotMissedAt
  failedAge,     \* deliveryFailedAt
  startsIn,      \* ticks until each slot starts, 0 once it has
  enqueued       \* outbox rows <<order, event type>> of the last transaction

moneyVars == <<cancelled, itemRefunds, feeRefunds, restocked>>
codVars == <<codRead, collected>>
confirmVars == <<deliveredAge, reported, reminded>>
slotVars == <<slot, prepSentFor, slotMissedAge>>
termVars == <<payment, fee>>
vars == <<status, method, termVars, attempts, moneyVars, codVars, confirmVars,
          slotVars, failedAge, startsIn, enqueued>>

----------------------------------------------------------------------------
\* Derived from a row

Online(o) == payment[o] = "ONLINE"
ItemsOf(o) == {i \in Items : OrderOf[i] = o}
ActiveItems(o) == ItemsOf(o) \ cancelled
FeeLine(o) == IF fee[o] = "null" THEN {} ELSE {DeliveryFee}
LinesOf(o) == ItemsOf(o) \cup FeeLine(o)

\* Slip: the filter on cancelledAt is inverted.
AmountCancelled(o, feeRefunded) == LinesOf(o) \cap cancelled

\* computeAmountDue(total, items, deliveryFeeRefunded, deliveryFee)
AmountDue(o, feeRefunded) ==
  LinesOf(o) \ (cancelled \cup (IF feeRefunded THEN {DeliveryFee} ELSE {}))

Age(limit) == 0..limit \cup {None}

\* BranchOrderService.transition without its extraData
Transition(o, to) ==
  /\ CanTransition(status[o], to, method[o], payment[o], attempts[o])
  /\ status' = [status EXCEPT ![o] = to]

Enqueue(o, types) == enqueued' = {o} \X types

----------------------------------------------------------------------------
\* BranchOrderCancellationService.finalizeCancelledItems

\* Slip: refund rows for COD as well.
RefundItemsOfEveryOrder(o, S) ==
  itemRefunds' = [i \in Items |-> itemRefunds[i] + (IF i \in S THEN 1 ELSE 0)]

RefundItems(o, S) ==
  itemRefunds' = [i \in Items |-> itemRefunds[i]
                                  + (IF i \in S /\ Online(o) THEN 1 ELSE 0)]

\* One restock per distinct offer, of all the units the items bring back.
RestockItems(S) ==
  restocked' = [f \in Offers |-> restocked[f]
                                 + Cardinality({i \in S : OfferOf[i] = f})]

\* Slip: only the items are refunded when the order closes.
RefundFeeForgotten(o) == UNCHANGED feeRefunds

RefundFee(o) ==
  feeRefunds' = [feeRefunds EXCEPT
    ![o] = @ + (IF Online(o) /\ method[o] = "DELIVERY" /\ fee[o] # "null"
                THEN 1 ELSE 0)]

ClosedStatus(o) == IF Online(o) THEN "REFUNDED" ELSE "CANCELLED"

FinalizeCancelledItems(o, S) ==
  /\ S # {}
  /\ S \subseteq ActiveItems(o)
  /\ cancelled' = cancelled \cup S
  /\ RefundItems(o, S)
  /\ RestockItems(S)
  /\ \/ /\ S # ActiveItems(o)
        /\ UNCHANGED <<status, feeRefunds>>
     \/ /\ S = ActiveItems(o)
        /\ RefundFee(o)
        /\ Transition(o, ClosedStatus(o))

CloseWholeOrder(o) == FinalizeCancelledItems(o, ActiveItems(o))

----------------------------------------------------------------------------
\* A confirmed checkout leaves the row PLACED, with a slot and a fee when it
\* is a delivery and neither when it is a pickup.
Init ==
  /\ status = [o \in Orders |-> "PLACED"]
  /\ method \in [Orders -> FulfilmentMethods]
  /\ payment \in [Orders -> PaymentMethods]
  /\ fee \in [Orders -> {"null", "zero", "charged"}]
  /\ slot \in [Orders -> Slots \cup {None}]
  /\ \A o \in Orders : /\ method[o] = "PICKUP" <=> fee[o] = "null"
                       /\ method[o] = "PICKUP" <=> slot[o] = None
  /\ attempts = [o \in Orders |-> 0]
  /\ cancelled = {}
  /\ itemRefunds = [i \in Items |-> 0]
  /\ feeRefunds = [o \in Orders |-> 0]
  /\ restocked = [f \in Offers |-> 0]
  /\ codRead = [o \in Orders |-> {}]
  /\ collected = [o \in Orders |-> {}]
  /\ deliveredAge = [o \in Orders |-> None]
  /\ reported = [o \in Orders |-> FALSE]
  /\ reminded = [o \in Orders |-> FALSE]
  /\ prepSentFor = [o \in Orders |-> None]
  /\ slotMissedAge = [o \in Orders |-> None]
  /\ failedAge = [o \in Orders |-> None]
  /\ startsIn = SlotStart
  /\ enqueued = {}

----------------------------------------------------------------------------
\* Cancellation: customer, staff and platform admin

CancelItem(o, i, allowed) ==
  /\ status[o] \in allowed
  /\ i \in ActiveItems(o)
  /\ FinalizeCancelledItems(o, {i})
  /\ Enqueue(o, {"branch_order.cancelled"})
  /\ UNCHANGED <<method, termVars, attempts, codVars, confirmVars, slotVars,
                 failedAge, startsIn>>

CancelOrder(o, allowed) ==
  /\ status[o] \in allowed
  /\ CloseWholeOrder(o)
  /\ Enqueue(o, {"branch_order.cancelled"})
  /\ UNCHANGED <<method, termVars, attempts, codVars, confirmVars, slotVars,
                 failedAge, startsIn>>

CustomerCancelItem(o, i) == CancelItem(o, i, {"PLACED"})
CustomerCancelOrder(o) == CancelOrder(o, {"PLACED"})
StaffCancelItem(o, i) == CancelItem(o, i, {"PLACED", "PREPARING"})
StaffCancelOrder(o) == CancelOrder(o, {"PLACED", "PREPARING"})
AdminForceCancel(o) == CancelOrder(o, {"PLACED", "PREPARING"})

----------------------------------------------------------------------------
\* Staff: preparation, dispatch, hand-over, failed delivery, refund approval

StaffStep(o, to) ==
  /\ Transition(o, to)
  /\ enqueued' = {}
  /\ UNCHANGED <<method, termVars, attempts, moneyVars, codVars, confirmVars,
                 slotVars, failedAge, startsIn>>

StartPreparation(o) == StaffStep(o, "PREPARING")
MarkSent(o) == status[o] = "PREPARING" /\ StaffStep(o, "SENT")

\* computeCodCollectionExtraData: read with no lock, before the transition,
\* always with deliveryFeeRefunded = false.  pickupHandover has checked the
\* fulfilment method and the code by then, equally unlocked.  A second
\* hand-over of the same order in flight could only lose to this one, so one
\* read per order is enough.
DueNow(o) == IF Online(o) THEN {} ELSE {AmountDue(o, FALSE)}

ReadCodAmount(o, operation) ==
  /\ codRead[o] = {}
  /\ operation = "pickupHandover" => method[o] = "PICKUP"
  /\ codRead' = [codRead EXCEPT
                   ![o] = {[operation |-> operation, due |-> DueNow(o)]}]
  /\ enqueued' = {}
  /\ UNCHANGED <<status, method, termVars, attempts, moneyVars, collected,
                 confirmVars, slotVars, failedAge, startsIn>>

Collect(o, operation) ==
  \E r \in codRead[o] :
    /\ r.operation = operation
    /\ collected' = [collected EXCEPT ![o] = r.due]
    /\ codRead' = [codRead EXCEPT ![o] = {}]

MarkDelivered(o) ==
  /\ Transition(o, "DELIVERED")
  /\ Collect(o, "markDelivered")
  /\ deliveredAge' = [deliveredAge EXCEPT ![o] = 0]
  /\ Enqueue(o, {"branch_order.delivered_confirm_requested"})
  /\ UNCHANGED <<method, termVars, attempts, moneyVars, reported, reminded,
                 slotVars, failedAge, startsIn>>

\* PREPARING -> PICKED_UP -> COMPLETED in one transaction
PickupHandover(o) ==
  /\ CanTransition(status[o], "PICKED_UP", method[o], payment[o], attempts[o])
  /\ CanTransition("PICKED_UP", "COMPLETED", method[o], payment[o], attempts[o])
  /\ status' = [status EXCEPT ![o] = "COMPLETED"]
  /\ Collect(o, "pickupHandover")
  /\ enqueued' = {}
  /\ UNCHANGED <<method, termVars, attempts, moneyVars, confirmVars, slotVars,
                 failedAge, startsIn>>

\* The transition was refused, or the connection lost: the transaction rolls back.
AbortHandover(o) ==
  /\ codRead[o] # {}
  /\ codRead' = [codRead EXCEPT ![o] = {}]
  /\ enqueued' = {}
  /\ UNCHANGED <<status, method, termVars, attempts, moneyVars, collected,
                 confirmVars, slotVars, failedAge, startsIn>>

CountAttempt(o) == attempts' = [attempts EXCEPT ![o] = @ + 1]

SecondFailure(o) == attempts[o] >= 1

MarkDeliveryFailed(o) ==
  /\ status[o] = "SENT"
  /\ method[o] = "DELIVERY"
  /\ \/ /\ SecondFailure(o) /\ ~Online(o)
        /\ CloseWholeOrder(o)
        /\ failedAge' = [failedAge EXCEPT ![o] = None]
     \/ /\ ~SecondFailure(o) \/ Online(o)
        /\ Transition(o, "DELIVERY_FAILED")
        /\ failedAge' = [failedAge EXCEPT ![o] = 0]
        /\ UNCHANGED moneyVars
  /\ CountAttempt(o)
  /\ Enqueue(o, {"branch_order.delivery_failed"})
  /\ UNCHANGED <<method, termVars, codVars, confirmVars, slotVars, startsIn>>

RerequestConfirmation(o) ==
  /\ status[o] = "DELIVERED"
  /\ method[o] = "DELIVERY"
  /\ reported[o]
  /\ deliveredAge' = [deliveredAge EXCEPT ![o] = 0]
  /\ reported' = [reported EXCEPT ![o] = FALSE]
  /\ reminded' = [reminded EXCEPT ![o] = FALSE]
  /\ Enqueue(o, {"branch_order.confirm_rerequested"})
  /\ UNCHANGED <<status, method, termVars, attempts, moneyVars, codVars,
                 slotVars, failedAge, startsIn>>

ApproveRefund(o) ==
  /\ status[o] = "REFUND_REQUESTED"
  /\ CloseWholeOrder(o)
  /\ Enqueue(o, {"branch_order.refund_approved"})
  /\ UNCHANGED <<method, termVars, attempts, codVars, confirmVars, slotVars,
                 failedAge, startsIn>>

----------------------------------------------------------------------------
\* Customer: confirmation, report, reschedule, pickup, refund request

ConfirmReceived(o) ==
  /\ method[o] = "DELIVERY"
  /\ Transition(o, "COMPLETED")
  /\ enqueued' = {}
  /\ UNCHANGED <<method, termVars, attempts, moneyVars, codVars, confirmVars,
                 slotVars, failedAge, startsIn>>

ReportNotReceived(o) ==
  /\ method[o] = "DELIVERY"
  /\ status[o] = "DELIVERED"
  /\ ~reported[o]
  /\ reported' = [reported EXCEPT ![o] = TRUE]
  /\ Enqueue(o, {"branch_order.not_received_reported"})
  /\ UNCHANGED <<status, method, termVars, attempts, moneyVars, codVars,
                 deliveredAge, reminded, slotVars, failedAge, startsIn>>

MayReschedule(o) ==
  /\ method[o] = "DELIVERY"
  /\ \/ status[o] \in {"PLACED", "PREPARING"} /\ slotMissedAge[o] # None
     \/ status[o] = "DELIVERY_FAILED" /\ attempts[o] < 2

StopClocks(o) ==
  /\ slotMissedAge' = [slotMissedAge EXCEPT ![o] = None]
  /\ failedAge' = [failedAge EXCEPT ![o] = None]

\* Any slot within the next three days that is open and has room, a slot of
\* today that has already started included: the code compares dates only.
RescheduleOrder(o, s) ==
  /\ MayReschedule(o)
  /\ \/ status[o] = "DELIVERY_FAILED" /\ Transition(o, "SENT")
     \/ status[o] # "DELIVERY_FAILED" /\ UNCHANGED status
  /\ slot' = [slot EXCEPT ![o] = s]
  /\ StopClocks(o)
  /\ Enqueue(o, {"branch_order.rescheduled"})
  /\ UNCHANGED <<method, termVars, attempts, moneyVars, codVars, confirmVars,
                 prepSentFor, startsIn>>

\* The fee row is written for COD too (method COD_CASH); slotMissedAt stays.
ConvertToPickup(o) ==
  /\ status[o] = "PLACED"
  /\ method[o] = "DELIVERY"
  /\ method' = [method EXCEPT ![o] = "PICKUP"]
  /\ slot' = [slot EXCEPT ![o] = None]
  /\ feeRefunds' = [feeRefunds EXCEPT
                      ![o] = @ + (IF fee[o] = "charged" THEN 1 ELSE 0)]
  /\ Enqueue(o, {"branch_order.converted_to_pickup"})
  /\ UNCHANGED <<status, termVars, attempts, cancelled, itemRefunds, restocked,
                 codVars, confirmVars, prepSentFor, slotMissedAge, failedAge,
                 startsIn>>

RequestRefund(o) ==
  /\ status[o] = "DELIVERY_FAILED"
  /\ Online(o)
  /\ attempts[o] >= 2
  /\ Transition(o, "REFUND_REQUESTED")
  /\ Enqueue(o, {"branch_order.refund_requested"})
  /\ UNCHANGED <<method, termVars, attempts, moneyVars, codVars, confirmVars,
                 slotVars, failedAge, startsIn>>

----------------------------------------------------------------------------
\* System: what the reconciliation and the sweeps do to one locked row.  Each
\* predicate is the re-check under the lock.

AwaitingConfirmation(o) ==
  status[o] = "DELIVERED" /\ deliveredAge[o] # None /\ ~reported[o]
\* Slip: the age is not read again under the lock.
AutoConfirmUnchecked(o) == AwaitingConfirmation(o)

AutoConfirmDue(o) == AwaitingConfirmation(o) /\ deliveredAge[o] >= AutoConfirm
ConfirmReminderDue(o) ==
  /\ AwaitingConfirmation(o)
  /\ deliveredAge[o] \in ConfirmReminder..(AutoConfirm - 1)
  /\ ~reminded[o]

\* FulfilmentReconciliationService.reconcileOne, also run by the customer's
\* order list and before ConfirmReceived
ReconcileOne(o) ==
  /\ \/ /\ AutoConfirmDue(o)
        /\ Transition(o, "COMPLETED")
        /\ Enqueue(o, {"branch_order.auto_confirmed_72h"})
        /\ UNCHANGED reminded
     \/ /\ ConfirmReminderDue(o)
        /\ reminded' = [reminded EXCEPT ![o] = TRUE]
        /\ Enqueue(o, {"branch_order.confirm_reminder_48h"})
        /\ UNCHANGED status
  /\ UNCHANGED <<method, termVars, attempts, moneyVars, codVars, deliveredAge,
                 reported, slotVars, failedAge, startsIn>>

PrepReminderAccepted(o) ==
  /\ status[o] \notin TerminalStatuses
  /\ method[o] = "DELIVERY"
  /\ slot[o] # None
  /\ prepSentFor[o] # slot[o]

SendPrepReminder(o) ==
  /\ PrepReminderAccepted(o)
  /\ prepSentFor' = [prepSentFor EXCEPT ![o] = slot[o]]
  /\ Enqueue(o, {"branch_order.prep_reminder"})
  /\ UNCHANGED <<status, method, termVars, attempts, moneyVars, codVars,
                 confirmVars, slot, slotMissedAge, failedAge, startsIn>>

SlotMissedAccepted(o) ==
  /\ slotMissedAge[o] = None
  /\ method[o] = "DELIVERY"
  /\ status[o] \in {"PLACED", "PREPARING"}

MarkSlotMissed(o) ==
  /\ SlotMissedAccepted(o)
  /\ slotMissedAge' = [slotMissedAge EXCEPT ![o] = 0]
  /\ Enqueue(o, {"branch_order.slot_missed"})
  /\ UNCHANGED <<status, method, termVars, attempts, moneyVars, codVars,
                 confirmVars, slot, prepSentFor, failedAge, startsIn>>

TimeoutAccepted(o, reason) ==
  \/ /\ reason = "SLOT_MISSED"
     /\ status[o] \in {"PLACED", "PREPARING"}
     /\ slotMissedAge[o] # None
  \/ /\ reason = "DELIVERY_FAILURE_TIMEOUT"
     /\ status[o] = "DELIVERY_FAILED"
     /\ failedAge[o] # None
     /\ attempts[o] = 1

TimeoutReasons == {"SLOT_MISSED", "DELIVERY_FAILURE_TIMEOUT"}
TimeoutEvent(o) == IF Online(o) THEN "branch_order.refund_automatic"
                   ELSE "branch_order.cancelled"

ResolveTimeout(o, reason) ==
  /\ TimeoutAccepted(o, reason)
  /\ CloseWholeOrder(o)
  /\ Enqueue(o, {TimeoutEvent(o)})
  /\ UNCHANGED <<method, termVars, attempts, codVars, confirmVars, slotVars,
                 failedAge, startsIn>>

----------------------------------------------------------------------------
\* Time

Older(age, limit) ==
  [o \in Orders |-> IF age[o] = None \/ age[o] = limit THEN age[o]
                    ELSE age[o] + 1]

Tick ==
  /\ startsIn' = [s \in Slots |-> IF startsIn[s] = 0 THEN 0 ELSE startsIn[s] - 1]
  /\ deliveredAge' = Older(deliveredAge, AutoConfirm)
  /\ slotMissedAge' = Older(slotMissedAge, Timeout)
  /\ failedAge' = Older(failedAge, Timeout)
  /\ enqueued' = {}
  /\ UNCHANGED <<status, method, termVars, attempts, moneyVars, codVars,
                 reported, reminded, slot, prepSentFor>>

----------------------------------------------------------------------------
StaffNext(o) ==
  \/ \E i \in Items : StaffCancelItem(o, i)
  \/ StaffCancelOrder(o)
  \/ StartPreparation(o)
  \/ MarkSent(o)
  \/ \E operation \in Operations : ReadCodAmount(o, operation)
  \/ MarkDelivered(o)
  \/ PickupHandover(o)
  \/ AbortHandover(o)
  \/ MarkDeliveryFailed(o)
  \/ RerequestConfirmation(o)
  \/ ApproveRefund(o)

CustomerNext(o) ==
  \/ \E i \in Items : CustomerCancelItem(o, i)
  \/ CustomerCancelOrder(o)
  \/ ConfirmReceived(o)
  \/ ReportNotReceived(o)
  \/ \E s \in Slots : RescheduleOrder(o, s)
  \/ ConvertToPickup(o)
  \/ RequestRefund(o)

SystemNext(o) ==
  \/ ReconcileOne(o)
  \/ SendPrepReminder(o)
  \/ MarkSlotMissed(o)
  \/ \E reason \in TimeoutReasons : ResolveTimeout(o, reason)

UserNext == \E o \in Orders : StaffNext(o) \/ CustomerNext(o) \/ AdminForceCancel(o)
Next == UserNext \/ (\E o \in Orders : SystemNext(o)) \/ Tick

Spec == Init /\ [][Next]_vars

----------------------------------------------------------------------------
\* Properties

TypeOK ==
  /\ status \in [Orders -> Statuses]
  /\ method \in [Orders -> FulfilmentMethods]
  /\ payment \in [Orders -> PaymentMethods]
  /\ fee \in [Orders -> {"null", "zero", "charged"}]
  /\ attempts \in [Orders -> Nat]
  /\ cancelled \in SUBSET Items
  /\ itemRefunds \in [Items -> Nat]
  /\ feeRefunds \in [Orders -> Nat]
  /\ restocked \in [Offers -> Nat]
  /\ codRead \in [Orders -> SUBSET CodReads]
  /\ collected \in [Orders -> SUBSET Amounts]
  /\ deliveredAge \in [Orders -> Age(AutoConfirm)]
  /\ reported \in [Orders -> BOOLEAN]
  /\ reminded \in [Orders -> BOOLEAN]
  /\ slot \in [Orders -> Slots \cup {None}]
  /\ prepSentFor \in [Orders -> Slots \cup {None}]
  /\ slotMissedAge \in [Orders -> Age(Timeout)]
  /\ failedAge \in [Orders -> Age(Timeout)]
  /\ startsIn \in [Slots -> Nat]

\* The refund rows are exactly the ones the order's history owes: one per
\* cancelled item of an ONLINE order and none for COD; one fee row once an
\* ONLINE delivery is refunded or a charged delivery became a pickup, and
\* never a second.  The unique indexes on branch_order_refunds are thus never
\* what stops a double refund.
RefundLedger ==
  /\ \A i \in Items :
       itemRefunds[i] = IF i \in cancelled /\ Online(OrderOf[i]) THEN 1 ELSE 0
  /\ \A o \in Orders :
       feeRefunds[o] =
         IF \/ method[o] = "DELIVERY" /\ status[o] = "REFUNDED"
            \/ method[o] = "PICKUP" /\ fee[o] = "charged"
         THEN 1 ELSE 0

\* An order is closed (CANCELLED for COD, REFUNDED for ONLINE) exactly when
\* its last item is cancelled, whichever of the nine closing paths took it
\* there, and a REFUNDED order owes nothing: computeRemainingRefundable is 0.
ClosedMeansSettled ==
  \A o \in Orders :
    /\ ActiveItems(o) = {} <=> status[o] \in {"CANCELLED", "REFUNDED"}
    /\ status[o] = "REFUNDED" => Online(o)
    /\ status[o] = "CANCELLED" => ~Online(o)
    /\ status[o] = "REFUNDED" =>
         /\ \A i \in ItemsOf(o) : itemRefunds[i] = 1
         /\ fee[o] = "charged" => feeRefunds[o] = 1

\* The delivery-attempt count and the status agree at every rest point
\* (PDR-027): never a third attempt, COD never rests at a second failure, a
\* refund request only after the second failure of an ONLINE delivery.
AttemptDiscipline ==
  \A o \in Orders :
    /\ attempts[o] <= 2
    /\ status[o] \in {"PLACED", "PREPARING"} => attempts[o] = 0
    /\ status[o] \in {"SENT", "DELIVERED"} => attempts[o] <= 1
    /\ status[o] = "DELIVERY_FAILED" => attempts[o] \in (IF Online(o) THEN {1, 2} ELSE {1})
    /\ status[o] = "REFUND_REQUESTED" => Online(o) /\ attempts[o] = 2
    /\ method[o] = "PICKUP" => attempts[o] = 0

\* Every cancelled unit went back to its offer's stock once: no path restores
\* an item twice or loses one when several share an offer.
StockReturnedOnce ==
  \A f \in Offers :
    restocked[f] = Cardinality({i \in cancelled : OfferOf[i] = f})

\* The clock columns agree with the status: a delivered order has its
\* confirmation clock, an order back on the road has no failure clock left
\* to time it out, a failed one has, and only a delivery has a slot.
ClocksMatchStatus ==
  \A o \in Orders :
    /\ status[o] = "DELIVERED" => deliveredAge[o] # None
    /\ reported[o] => status[o] \in {"DELIVERED", "COMPLETED"}
    /\ status[o] \in {"PLACED", "PREPARING", "SENT", "DELIVERED"} => failedAge[o] = None
    /\ status[o] = "DELIVERY_FAILED" => failedAge[o] # None
    /\ method[o] = "DELIVERY" <=> slot[o] # None

\* Once the re-check of a timeout, a COD second failure or a refund approval
\* has passed, the closing transition is legal and there is an item to close:
\* finalizeCancelledItems cannot throw there, so no order makes the sweep's
\* loop fail and hides the candidates behind it.
ClosingNeverRefused ==
  \A o \in Orders :
    (\/ \E reason \in TimeoutReasons : TimeoutAccepted(o, reason)
     \/ status[o] = "REFUND_REQUESTED"
     \/ status[o] = "SENT" /\ SecondFailure(o) /\ ~Online(o)
     \/ status[o] \in {"PLACED", "PREPARING"})
    => /\ ActiveItems(o) # {}
       /\ CanTransition(status[o], ClosedStatus(o), method[o], payment[o], attempts[o])

\* A COD hand-over never collects less than what is still owed for the items
\* that were not cancelled, however stale the amount it read.
CodNeverUnderCollected ==
  \A o \in Orders :
    /\ Online(o) => collected[o] = {}
    /\ \A amount \in collected[o] : ActiveItems(o) \subseteq amount

\* A finished order is finished: no staff, customer, admin or sweep step
\* changes its status, method, items, refunds, cash or attempt count again.
Settled(o) == <<status[o], method[o], attempts[o], feeRefunds[o], collected[o],
                ActiveItems(o), [i \in ItemsOf(o) |-> itemRefunds[i]]>>
TerminalIsFrozen ==
  [][\A o \in Orders :
       status[o] \in TerminalStatuses => UNCHANGED Settled(o)]_vars

\* An open "not received" report is never closed behind the customer's back:
\* while it is open the order leaves DELIVERED only by the customer's own
\* confirmation, and the report is only ended by a restarted confirmation.
ReportHoldsOrder ==
  [][\A o \in Orders :
       (status[o] = "DELIVERED" /\ reported[o])
       => /\ status'[o] # status[o] => ConfirmReceived(o)
          /\ reported'[o] # reported[o] => deliveredAge'[o] = 0 /\ ~reminded'[o]]_vars

\* What a COD hand-over collects leaves out the items cancelled before it
\* ("the real amount still due (original total minus any already-cancelled
\* items/delivery fee)", the comment of computeCodCollectionExtraData).
CollectedNetOfCancelledItems ==
  \A o \in Orders : \A amount \in collected[o] : amount \cap cancelled = {}
============================================================================
