------------------------- MODULE BranchOrderProofs -------------------------
(***************************************************************************)
(* Proofs about BranchOrder, for any set of orders, items, offers and      *)
(* slots and any thresholds that satisfy the module's assumptions; and     *)
(* that BranchOrder implements OrderSettlement.                            *)
(***************************************************************************)
EXTENDS BranchOrderSettlement, FulfilmentSweeps, FiniteSetTheorems, TLAPS

\* The transition table read as a disjunction, for the provers.
LEMMA TransitionTable ==
  ASSUME NEW from \in Statuses, NEW to \in Statuses,
         NEW m \in FulfilmentMethods, NEW p \in PaymentMethods, NEW c \in Nat
  PROVE  CanTransition(from, to, m, p, c) <=>
           \/ from = "PLACED" /\ to \in {"PREPARING", "CANCELLED"}
           \/ from = "PLACED" /\ to = "REFUNDED" /\ p = "ONLINE"
           \/ from = "PREPARING" /\ to = "SENT" /\ m = "DELIVERY"
           \/ from = "PREPARING" /\ to = "PICKED_UP" /\ m = "PICKUP"
           \/ from = "PREPARING" /\ to = "CANCELLED"
           \/ from = "PREPARING" /\ to = "REFUNDED" /\ p = "ONLINE"
           \/ from = "SENT" /\ to = "DELIVERED" /\ m = "DELIVERY"
           \/ from = "SENT" /\ to = "DELIVERY_FAILED" /\ m = "DELIVERY" /\ (c = 0 \/ p = "ONLINE")
           \/ from = "SENT" /\ to = "CANCELLED" /\ m = "DELIVERY" /\ p = "COD" /\ c >= 1
           \/ from = "DELIVERED" /\ to = "COMPLETED" /\ m = "DELIVERY"
           \/ from = "PICKED_UP" /\ to = "COMPLETED" /\ m = "PICKUP"
           \/ from = "DELIVERY_FAILED" /\ to = "SENT" /\ m = "DELIVERY" /\ c <= 1
           \/ from = "DELIVERY_FAILED" /\ to = "CANCELLED" /\ m = "DELIVERY" /\ p = "COD" /\ c <= 1
           \/ from = "DELIVERY_FAILED" /\ to = "REFUNDED" /\ m = "DELIVERY" /\ p = "ONLINE" /\ c <= 1
           \/ from = "DELIVERY_FAILED" /\ to = "REFUND_REQUESTED" /\ m = "DELIVERY" /\ p = "ONLINE" /\ c >= 2
           \/ from = "REFUND_REQUESTED" /\ to = "REFUNDED" /\ m = "DELIVERY" /\ p = "ONLINE" /\ c >= 2
BY SMTT(60) DEF CanTransition, Transitions, Rule, AnyCount, AtMost, AtLeast, AttemptCountMatches,
   AnyMethod, AnyPayment, Delivery, Pickup, FulfilmentMethods, PaymentMethods, Statuses

\* Cancelling items keeps the columns it writes in their types.
LEMMA FinalizeTypes ==
  ASSUME TypeOK, NEW o \in Orders, NEW S, FinalizeCancelledItems(o, S)
  PROVE  /\ status' \in [Orders -> Statuses]
         /\ cancelled' \in SUBSET Items
         /\ itemRefunds' \in [Items -> Nat]
         /\ feeRefunds' \in [Orders -> Nat]
         /\ restocked' \in [Offers -> Nat]
<1>1. S \subseteq Items
  BY DEF FinalizeCancelledItems, ActiveItems, ItemsOf
<1>2. status' \in [Orders -> Statuses]
  BY DEF TypeOK, FinalizeCancelledItems, Transition, ClosedStatus, Statuses
<1>3. cancelled' \in SUBSET Items
  BY <1>1 DEF TypeOK, FinalizeCancelledItems
<1>4. itemRefunds' \in [Items -> Nat]
  BY DEF TypeOK, FinalizeCancelledItems, RefundItems
<1>5. feeRefunds' \in [Orders -> Nat]
  BY DEF TypeOK, FinalizeCancelledItems, RefundFee
<1>6. \A f \in Offers : Cardinality({i \in S : OfferOf[i] = f}) \in Nat
  <2>1. SUFFICES ASSUME NEW f \in Offers
                 PROVE  Cardinality({i \in S : OfferOf[i] = f}) \in Nat
    OBVIOUS
  <2>2. IsFiniteSet({i \in S : OfferOf[i] = f})
    BY <1>1, ItemsAssumption, FS_Subset
  <2>3. QED
    BY <2>2, FS_CardinalityType
<1>7. restocked' \in [Offers -> Nat]
  BY <1>6 DEF TypeOK, FinalizeCancelledItems, RestockItems
<1>8. QED
  BY <1>2, <1>3, <1>4, <1>5, <1>7

LEMMA TypeInit ==
  ASSUME Init
  PROVE  TypeOK
BY TimeAssumption DEF Init, TypeOK, Statuses, FulfilmentMethods, PaymentMethods, Age

LEMMA TypeStep ==
  ASSUME TypeOK, [Next]_vars
  PROVE  TypeOK'
<1>. USE DEF moneyVars, codVars, confirmVars, slotVars, termVars
<1>1. ASSUME NEW o \in Orders, NEW i \in Items, NEW allowed, CancelItem(o, i, allowed)
      PROVE  TypeOK'
  BY <1>1, FinalizeTypes DEF CancelItem, TypeOK
<1>2. ASSUME NEW o \in Orders, NEW allowed, CancelOrder(o, allowed)
      PROVE  TypeOK'
  BY <1>2, FinalizeTypes DEF CancelOrder, CloseWholeOrder, TypeOK
<1>3. ASSUME NEW o \in Orders, NEW to \in Statuses, StaffStep(o, to)
      PROVE  TypeOK'
  BY <1>3 DEF StaffStep, Transition, TypeOK
<1>4. ASSUME NEW o \in Orders, NEW operation \in Operations, ReadCodAmount(o, operation)
      PROVE  TypeOK'
  <2>1. AmountDue(o, FALSE) \in Amounts
    BY DEF AmountDue, LinesOf, FeeLine, ItemsOf, Amounts
  <2>2. [operation |-> operation, due |-> DueNow(o)] \in CodReads
    BY <2>1 DEF CodReads, DueNow
  <2>3. QED
    BY <1>4, <2>2 DEF ReadCodAmount, TypeOK
<1>5. ASSUME NEW o \in Orders, NEW operation, Collect(o, operation)
      PROVE  /\ codRead' \in [Orders -> SUBSET CodReads]
             /\ collected' \in [Orders -> SUBSET Amounts]
  BY <1>5 DEF Collect, CodReads, TypeOK
<1>6. ASSUME NEW o \in Orders, MarkDelivered(o)
      PROVE  TypeOK'
  BY <1>6, <1>5, TimeAssumption DEF MarkDelivered, Transition, TypeOK, Statuses, Age
<1>7. ASSUME NEW o \in Orders, PickupHandover(o)
      PROVE  TypeOK'
  BY <1>7, <1>5 DEF PickupHandover, TypeOK, Statuses
<1>8. ASSUME NEW o \in Orders, AbortHandover(o)
      PROVE  TypeOK'
  BY <1>8 DEF AbortHandover, TypeOK
<1>9. ASSUME NEW o \in Orders, MarkDeliveryFailed(o)
      PROVE  TypeOK'
  <2>1. /\ status' \in [Orders -> Statuses]
        /\ cancelled' \in SUBSET Items
        /\ itemRefunds' \in [Items -> Nat]
        /\ feeRefunds' \in [Orders -> Nat]
        /\ restocked' \in [Offers -> Nat]
    <3>1. CASE CloseWholeOrder(o)
      BY <3>1, FinalizeTypes DEF CloseWholeOrder
    <3>2. CASE Transition(o, "DELIVERY_FAILED") /\ UNCHANGED moneyVars
      BY <3>2 DEF Transition, TypeOK, Statuses
    <3>3. QED
      BY <1>9, <3>1, <3>2 DEF MarkDeliveryFailed
  <2>2. failedAge' \in [Orders -> Age(Timeout)]
    BY <1>9, TimeAssumption DEF MarkDeliveryFailed, TypeOK, Age
  <2>3. attempts' \in [Orders -> Nat]
    BY <1>9 DEF MarkDeliveryFailed, CountAttempt, TypeOK
  <2>4. QED
    BY <1>9, <2>1, <2>2, <2>3 DEF MarkDeliveryFailed, TypeOK
<1>10. ASSUME NEW o \in Orders, RerequestConfirmation(o)
       PROVE  TypeOK'
  BY <1>10, TimeAssumption DEF RerequestConfirmation, TypeOK, Age
<1>11. ASSUME NEW o \in Orders, ApproveRefund(o)
       PROVE  TypeOK'
  BY <1>11, FinalizeTypes DEF ApproveRefund, CloseWholeOrder, TypeOK
<1>12. ASSUME NEW o \in Orders, ConfirmReceived(o) \/ RequestRefund(o)
       PROVE  TypeOK'
  BY <1>12 DEF ConfirmReceived, RequestRefund, Transition, TypeOK, Statuses
<1>13. ASSUME NEW o \in Orders, ReportNotReceived(o)
       PROVE  TypeOK'
  BY <1>13 DEF ReportNotReceived, TypeOK
<1>14. ASSUME NEW o \in Orders, NEW s \in Slots, RescheduleOrder(o, s)
       PROVE  TypeOK'
  BY <1>14 DEF RescheduleOrder, StopClocks, Transition, TypeOK, Statuses, Age
<1>15. ASSUME NEW o \in Orders, ConvertToPickup(o)
       PROVE  TypeOK'
  BY <1>15 DEF ConvertToPickup, TypeOK, FulfilmentMethods
<1>16. ASSUME NEW o \in Orders, ReconcileOne(o)
       PROVE  TypeOK'
  BY <1>16 DEF ReconcileOne, Transition, TypeOK, Statuses
<1>17. ASSUME NEW o \in Orders, SendPrepReminder(o)
       PROVE  TypeOK'
  BY <1>17 DEF SendPrepReminder, TypeOK
<1>18. ASSUME NEW o \in Orders, MarkSlotMissed(o)
       PROVE  TypeOK'
  BY <1>18, TimeAssumption DEF MarkSlotMissed, TypeOK, Age
<1>19. ASSUME NEW o \in Orders, NEW reason, ResolveTimeout(o, reason)
       PROVE  TypeOK'
  BY <1>19, FinalizeTypes DEF ResolveTimeout, CloseWholeOrder, TypeOK
<1>20. CASE Tick
  <2>1. ASSUME NEW limit \in Nat, NEW age \in [Orders -> Age(limit)]
        PROVE  Older(age, limit) \in [Orders -> Age(limit)]
    BY DEF Older, Age
  <2>2. startsIn' \in [Slots -> Nat]
    BY <1>20 DEF Tick, TypeOK
  <2>3. QED
    BY <1>20, <2>1, <2>2, TimeAssumption DEF Tick, TypeOK
<1>21. CASE UNCHANGED vars
  BY <1>21 DEF vars, TypeOK
<1>22. ASSUME NEW o \in Orders, StaffNext(o)
       PROVE  TypeOK'
  BY <1>22, <1>1, <1>2, <1>3, <1>4, <1>6, <1>7, <1>8, <1>9, <1>10, <1>11
     DEF StaffNext, StaffCancelItem, StaffCancelOrder, StartPreparation, MarkSent, Statuses
<1>23. ASSUME NEW o \in Orders, CustomerNext(o)
       PROVE  TypeOK'
  BY <1>23, <1>1, <1>2, <1>12, <1>13, <1>14, <1>15
     DEF CustomerNext, CustomerCancelItem, CustomerCancelOrder
<1>24. ASSUME NEW o \in Orders, SystemNext(o)
       PROVE  TypeOK'
  BY <1>24, <1>16, <1>17, <1>18, <1>19 DEF SystemNext
<1>25. QED
  BY <1>2, <1>20, <1>21, <1>22, <1>23, <1>24 DEF Next, UserNext, AdminForceCancel

\* Every column keeps its type, for every instance of the constants.
THEOREM TypeCorrect == Spec => []TypeOK
<1>1. Init => TypeOK
  BY TypeInit
<1>2. TypeOK /\ [Next]_vars => TypeOK'
  BY TypeStep
<1>3. QED
  BY <1>1, <1>2, PTL DEF Spec

----------------------------------------------------------------------------
\* What a step can do to the money of an order, whichever handler takes it:
\* close lines, move the status, become a pickup, or nothing.

Closing(o) ==
  /\ status[o] \notin TerminalStatuses
  /\ \E S \in SUBSET Items : FinalizeCancelledItems(o, S)
  /\ UNCHANGED <<method, payment, fee>>

Moving(o) ==
  /\ status[o] \notin TerminalStatuses
  /\ \E to \in Statuses \ {"CANCELLED", "REFUNDED"} :
       status' = [status EXCEPT ![o] = to]
  /\ UNCHANGED <<method, payment, fee, moneyVars>>

Idle == UNCHANGED <<status, method, payment, fee, moneyVars>>

MoneyStep == Idle \/ \E o \in Orders : Closing(o) \/ Moving(o) \/ ConvertToPickup(o)

\* The attempt count and the cash of a finished order stay as they are.
FinishedRowsKept ==
  \A o \in Orders : status[o] \in TerminalStatuses =>
                    attempts'[o] = attempts[o] /\ collected'[o] = collected[o]

\* A transition starts at a status that is not terminal.
LEMMA TransitionSource ==
  ASSUME NEW from, NEW to, NEW m, NEW p, NEW c, CanTransition(from, to, m, p, c)
  PROVE  from \notin TerminalStatuses
BY DEF CanTransition, Transitions, Rule, TerminalStatuses

\* Closing a whole order starts at a status that is not terminal.
LEMMA CloseWholeOrderCloses ==
  ASSUME NEW o \in Orders, CloseWholeOrder(o)
  PROVE  /\ \E S \in SUBSET Items : FinalizeCancelledItems(o, S)
         /\ status[o] \notin TerminalStatuses
<1>1. ActiveItems(o) \in SUBSET Items
  BY DEF ActiveItems, ItemsOf
<1>2. CanTransition(status[o], ClosedStatus(o), method[o], payment[o], attempts[o])
  BY DEF CloseWholeOrder, FinalizeCancelledItems, Transition
<1>3. QED
  BY <1>1, <1>2, TransitionSource DEF CloseWholeOrder

LEMMA StepShape ==
  ASSUME TypeOK, [Next]_vars
  PROVE  MoneyStep /\ FinishedRowsKept
<1>. USE DEF moneyVars, codVars, confirmVars, slotVars, termVars
<1>1. ASSUME NEW o \in Orders, NEW i \in Items, NEW allowed \in SUBSET {"PLACED", "PREPARING"},
             CancelItem(o, i, allowed)
      PROVE  MoneyStep /\ FinishedRowsKept
  <2>1. {i} \in SUBSET Items
    OBVIOUS
  <2>2. Closing(o)
    BY <1>1, <2>1 DEF CancelItem, Closing, TerminalStatuses
  <2>3. QED
    BY <1>1, <2>2 DEF CancelItem, MoneyStep, FinishedRowsKept
<1>2. ASSUME NEW o \in Orders, NEW allowed, CancelOrder(o, allowed)
      PROVE  MoneyStep /\ FinishedRowsKept
  <2>1. Closing(o)
    BY <1>2, CloseWholeOrderCloses DEF CancelOrder, Closing
  <2>2. QED
    BY <1>2, <2>1 DEF CancelOrder, MoneyStep, FinishedRowsKept
<1>3. ASSUME NEW o \in Orders, NEW to \in {"PREPARING", "SENT"}, StaffStep(o, to)
      PROVE  MoneyStep /\ FinishedRowsKept
  <2>1. Moving(o)
    BY <1>3, TransitionSource DEF StaffStep, Transition, Moving, Statuses
  <2>2. QED
    BY <1>3, <2>1 DEF StaffStep, MoneyStep, FinishedRowsKept
<1>4. ASSUME NEW o \in Orders, NEW operation, ReadCodAmount(o, operation)
      PROVE  MoneyStep /\ FinishedRowsKept
  BY <1>4 DEF ReadCodAmount, MoneyStep, Idle, FinishedRowsKept
<1>5. ASSUME NEW o \in Orders, MarkDelivered(o)
      PROVE  MoneyStep /\ FinishedRowsKept
  <2>1. Moving(o)
    BY <1>5, TransitionSource DEF MarkDelivered, Transition, Moving, Statuses
  <2>2. FinishedRowsKept
    BY <1>5, <2>1 DEF MarkDelivered, Collect, Moving, FinishedRowsKept, TypeOK
  <2>3. QED
    BY <2>1, <2>2 DEF MoneyStep
<1>6. ASSUME NEW o \in Orders, PickupHandover(o)
      PROVE  MoneyStep /\ FinishedRowsKept
  <2>1. Moving(o)
    BY <1>6, TransitionSource DEF PickupHandover, Moving, Statuses
  <2>2. FinishedRowsKept
    BY <1>6, <2>1 DEF PickupHandover, Collect, Moving, FinishedRowsKept, TypeOK
  <2>3. QED
    BY <2>1, <2>2 DEF MoneyStep
<1>7. ASSUME NEW o \in Orders, AbortHandover(o)
      PROVE  MoneyStep /\ FinishedRowsKept
  BY <1>7 DEF AbortHandover, MoneyStep, Idle, FinishedRowsKept
<1>8. ASSUME NEW o \in Orders, MarkDeliveryFailed(o)
      PROVE  MoneyStep /\ FinishedRowsKept
  <2>1. Closing(o) \/ Moving(o)
    <3>1. CASE CloseWholeOrder(o)
      BY <1>8, <3>1, CloseWholeOrderCloses DEF MarkDeliveryFailed, Closing
    <3>2. CASE Transition(o, "DELIVERY_FAILED") /\ UNCHANGED moneyVars
      BY <1>8, <3>2, TransitionSource DEF MarkDeliveryFailed, Transition, Moving, Statuses
    <3>3. QED
      BY <1>8, <3>1, <3>2 DEF MarkDeliveryFailed
  <2>2. FinishedRowsKept
    BY <1>8 DEF MarkDeliveryFailed, CountAttempt, FinishedRowsKept, TypeOK, TerminalStatuses
  <2>3. QED
    BY <2>1, <2>2 DEF MoneyStep
<1>9. ASSUME NEW o \in Orders, RerequestConfirmation(o) \/ ReportNotReceived(o)
      PROVE  MoneyStep /\ FinishedRowsKept
  BY <1>9 DEF RerequestConfirmation, ReportNotReceived, MoneyStep, Idle, FinishedRowsKept
<1>10. ASSUME NEW o \in Orders, ApproveRefund(o)
       PROVE  MoneyStep /\ FinishedRowsKept
  <2>1. Closing(o)
    BY <1>10, CloseWholeOrderCloses DEF ApproveRefund, Closing
  <2>2. QED
    BY <1>10, <2>1 DEF ApproveRefund, MoneyStep, FinishedRowsKept
<1>11. ASSUME NEW o \in Orders, ConfirmReceived(o) \/ RequestRefund(o)
       PROVE  MoneyStep /\ FinishedRowsKept
  <2>1. Moving(o)
    BY <1>11, TransitionSource DEF ConfirmReceived, RequestRefund, Transition, Moving, Statuses
  <2>2. QED
    BY <1>11, <2>1 DEF ConfirmReceived, RequestRefund, MoneyStep, FinishedRowsKept
<1>12. ASSUME NEW o \in Orders, NEW s \in Slots, RescheduleOrder(o, s)
       PROVE  MoneyStep /\ FinishedRowsKept
  <2>1. Moving(o) \/ Idle
    BY <1>12, TransitionSource DEF RescheduleOrder, Transition, Moving, Idle, Statuses
  <2>2. QED
    BY <1>12, <2>1 DEF RescheduleOrder, MoneyStep, FinishedRowsKept
<1>13. ASSUME NEW o \in Orders, ConvertToPickup(o)
       PROVE  MoneyStep /\ FinishedRowsKept
  BY <1>13 DEF ConvertToPickup, MoneyStep, FinishedRowsKept
<1>14. ASSUME NEW o \in Orders, ReconcileOne(o)
       PROVE  MoneyStep /\ FinishedRowsKept
  <2>1. Moving(o) \/ Idle
    BY <1>14, TransitionSource DEF ReconcileOne, Transition, Moving, Idle, Statuses
  <2>2. QED
    BY <1>14, <2>1 DEF ReconcileOne, MoneyStep, FinishedRowsKept
<1>15. ASSUME NEW o \in Orders, SendPrepReminder(o) \/ MarkSlotMissed(o)
       PROVE  MoneyStep /\ FinishedRowsKept
  BY <1>15 DEF SendPrepReminder, MarkSlotMissed, MoneyStep, Idle, FinishedRowsKept
<1>16. ASSUME NEW o \in Orders, NEW reason, ResolveTimeout(o, reason)
       PROVE  MoneyStep /\ FinishedRowsKept
  <2>1. Closing(o)
    BY <1>16, CloseWholeOrderCloses DEF ResolveTimeout, Closing
  <2>2. QED
    BY <1>16, <2>1 DEF ResolveTimeout, MoneyStep, FinishedRowsKept
<1>17. CASE Tick \/ UNCHANGED vars
  BY <1>17 DEF Tick, vars, MoneyStep, Idle, FinishedRowsKept
<1>18. ASSUME NEW o \in Orders, StaffNext(o)
       PROVE  MoneyStep /\ FinishedRowsKept
  BY <1>18, <1>1, <1>2, <1>3, <1>4, <1>5, <1>6, <1>7, <1>8, <1>9, <1>10
     DEF StaffNext, StaffCancelItem, StaffCancelOrder, StartPreparation, MarkSent
<1>19. ASSUME NEW o \in Orders, CustomerNext(o)
       PROVE  MoneyStep /\ FinishedRowsKept
  BY <1>19, <1>1, <1>2, <1>9, <1>11, <1>12, <1>13
     DEF CustomerNext, CustomerCancelItem, CustomerCancelOrder
<1>20. ASSUME NEW o \in Orders, SystemNext(o)
       PROVE  MoneyStep /\ FinishedRowsKept
  BY <1>20, <1>14, <1>15, <1>16 DEF SystemNext
<1>21. QED
  BY <1>2, <1>17, <1>18, <1>19, <1>20 DEF Next, UserNext, AdminForceCancel

----------------------------------------------------------------------------
\* The refund ledger.  ClosedMeansSettled is not inductive without the row
\* counts it is about, nor RefundLedger without it: together they are, given
\* that a delivery always has a fee column.

DeliveryHasFee == \A o \in Orders : method[o] = "DELIVERY" => fee[o] # "null"
ClosedWhenEmpty ==
  \A o \in Orders :
    /\ ActiveItems(o) = {} <=> status[o] \in {"CANCELLED", "REFUNDED"}
    /\ status[o] = "REFUNDED" => Online(o)
    /\ status[o] = "CANCELLED" => ~Online(o)
LedgerInv == DeliveryHasFee /\ ClosedWhenEmpty /\ RefundLedger

\* Cancelling items of one order leaves the items of the others active.
LEMMA OtherItemsStayActive ==
  ASSUME NEW o \in Orders, NEW S, FinalizeCancelledItems(o, S)
  PROVE  /\ ActiveItems(o)' = ActiveItems(o) \ S
         /\ \A p \in Orders \ {o} : ActiveItems(p)' = ActiveItems(p)
BY DEF FinalizeCancelledItems, ActiveItems, ItemsOf

LEMMA LedgerInit ==
  ASSUME Init
  PROVE  LedgerInv
<1>1. \A o \in Orders : ActiveItems(o) # {}
  BY ItemsAssumption DEF Init, ActiveItems, ItemsOf
<1>2. QED
  BY <1>1, ItemsAssumption
     DEF Init, LedgerInv, DeliveryHasFee, ClosedWhenEmpty, RefundLedger, FulfilmentMethods

LEMMA LedgerClosing ==
  ASSUME TypeOK, LedgerInv, NEW o \in Orders, Closing(o)
  PROVE  LedgerInv'
<1>1. PICK S \in SUBSET Items : FinalizeCancelledItems(o, S)
  BY DEF Closing
<1>2. DeliveryHasFee'
  BY DEF Closing, LedgerInv, DeliveryHasFee
<1>3. ClosedWhenEmpty'
  <2>1. ASSUME NEW p \in Orders \ {o}
        PROVE  ActiveItems(p)' = ActiveItems(p) /\ status'[p] = status[p]
    BY <1>1, OtherItemsStayActive DEF FinalizeCancelledItems, Transition, TypeOK
  <2>2. \A p \in Orders : Online(p)' = Online(p)
    BY DEF Closing, Online
  <2>3. /\ ActiveItems(o)' = {} <=> status'[o] \in {"CANCELLED", "REFUNDED"}
        /\ status'[o] = "REFUNDED" => Online(o)
        /\ status'[o] = "CANCELLED" => ~Online(o)
    <3>1. ActiveItems(o)' = ActiveItems(o) \ S /\ S \subseteq ActiveItems(o) /\ S # {}
      BY <1>1, OtherItemsStayActive DEF FinalizeCancelledItems
    <3>2. CASE S # ActiveItems(o)
      BY <1>1, <3>1, <3>2 DEF FinalizeCancelledItems, LedgerInv, ClosedWhenEmpty
    <3>3. CASE S = ActiveItems(o)
      <4>1. status'[o] = ClosedStatus(o)
        BY <1>1, <3>3 DEF FinalizeCancelledItems, Transition, TypeOK
      <4>2. QED
        BY <3>1, <3>3, <4>1 DEF ClosedStatus
    <3>4. QED
      BY <3>2, <3>3
  <2>4. QED
    BY <2>1, <2>2, <2>3 DEF LedgerInv, ClosedWhenEmpty
<1>4. RefundLedger'
  <2>1. ASSUME NEW i \in Items
        PROVE  itemRefunds'[i] = IF i \in cancelled' /\ Online(OrderOf[i])' THEN 1 ELSE 0
    <3>1. itemRefunds[i] = IF i \in cancelled /\ Online(OrderOf[i]) THEN 1 ELSE 0
      BY DEF LedgerInv, RefundLedger
    <3>2. /\ cancelled' = cancelled \cup S
          /\ itemRefunds'[i] = itemRefunds[i] + (IF i \in S /\ Online(o) THEN 1 ELSE 0)
          /\ i \in S => i \notin cancelled /\ OrderOf[i] = o
      BY <1>1 DEF FinalizeCancelledItems, RefundItems, ActiveItems, ItemsOf
    <3>3. Online(OrderOf[i])' = Online(OrderOf[i])
      BY DEF Closing, Online
    <3>4. QED
      BY <3>1, <3>2, <3>3
  <2>2. ASSUME NEW p \in Orders
        PROVE  feeRefunds'[p] =
                 IF \/ method'[p] = "DELIVERY" /\ status'[p] = "REFUNDED"
                    \/ method'[p] = "PICKUP" /\ fee'[p] = "charged"
                 THEN 1 ELSE 0
    <3>1. feeRefunds[p] = IF \/ method[p] = "DELIVERY" /\ status[p] = "REFUNDED"
                             \/ method[p] = "PICKUP" /\ fee[p] = "charged"
                          THEN 1 ELSE 0
      BY DEF LedgerInv, RefundLedger
    <3>2. method' = method /\ fee' = fee /\ method[p] \in {"DELIVERY", "PICKUP"}
      BY DEF Closing, TypeOK, FulfilmentMethods
    <3>3. CASE S # ActiveItems(o)
      BY <1>1, <3>1, <3>2, <3>3 DEF FinalizeCancelledItems
    <3>4. CASE S = ActiveItems(o)
      <4>1. status' = [status EXCEPT ![o] = ClosedStatus(o)] /\ RefundFee(o)
        BY <1>1, <3>4 DEF FinalizeCancelledItems, Transition
      <4>2. status[o] # "REFUNDED"
        BY DEF Closing, TerminalStatuses
      <4>3. method[o] = "DELIVERY" => fee[o] # "null"
        BY DEF LedgerInv, DeliveryHasFee
      <4>4. CASE p = o
        BY <3>1, <3>2, <4>1, <4>2, <4>3, <4>4 DEF RefundFee, ClosedStatus, TypeOK
      <4>5. CASE p # o
        BY <3>1, <3>2, <4>1, <4>5 DEF RefundFee, TypeOK
      <4>6. QED
        BY <4>4, <4>5
    <3>5. QED
      BY <3>3, <3>4
  <2>3. QED
    BY <2>1, <2>2 DEF RefundLedger
<1>5. QED
  BY <1>2, <1>3, <1>4 DEF LedgerInv

LEMMA LedgerMoving ==
  ASSUME TypeOK, LedgerInv, NEW o \in Orders, Moving(o)
  PROVE  LedgerInv'
<1>1. PICK to \in Statuses \ {"CANCELLED", "REFUNDED"} : status' = [status EXCEPT ![o] = to]
  BY DEF Moving
<1>2. \A p \in Orders : /\ ActiveItems(p)' = ActiveItems(p)
                        /\ Online(p)' = Online(p)
  BY DEF Moving, ActiveItems, ItemsOf, Online, moneyVars
<1>3. \A p \in Orders : \A closed \in {"CANCELLED", "REFUNDED"} :
        status'[p] = closed <=> status[p] = closed
  BY <1>1 DEF Moving, TerminalStatuses, TypeOK
<1>4. ClosedWhenEmpty'
  BY <1>2, <1>3 DEF LedgerInv, ClosedWhenEmpty
<1>5. RefundLedger'
  BY <1>2, <1>3, ItemsAssumption DEF LedgerInv, RefundLedger, Moving, moneyVars
<1>6. QED
  BY <1>4, <1>5 DEF LedgerInv, DeliveryHasFee, Moving

LEMMA LedgerConverting ==
  ASSUME TypeOK, LedgerInv, NEW o \in Orders, ConvertToPickup(o)
  PROVE  LedgerInv'
<1>1. \A p \in Orders : /\ ActiveItems(p)' = ActiveItems(p)
                        /\ Online(p)' = Online(p)
  BY DEF ConvertToPickup, ActiveItems, ItemsOf, Online, termVars
<1>2. DeliveryHasFee'
  BY DEF ConvertToPickup, LedgerInv, DeliveryHasFee, termVars, TypeOK
<1>3. ClosedWhenEmpty'
  BY <1>1 DEF ConvertToPickup, LedgerInv, ClosedWhenEmpty
<1>4. \A i \in Items :
        itemRefunds'[i] = IF i \in cancelled' /\ Online(OrderOf[i])' THEN 1 ELSE 0
  BY <1>1, ItemsAssumption DEF ConvertToPickup, LedgerInv, RefundLedger
<1>5. ASSUME NEW p \in Orders
      PROVE  feeRefunds'[p] =
               IF \/ method'[p] = "DELIVERY" /\ status'[p] = "REFUNDED"
                  \/ method'[p] = "PICKUP" /\ fee'[p] = "charged"
               THEN 1 ELSE 0
  BY DEF ConvertToPickup, LedgerInv, RefundLedger, termVars, TypeOK
<1>6. QED
  BY <1>2, <1>3, <1>4, <1>5 DEF LedgerInv, RefundLedger

\* Every money step keeps the ledger.
LEMMA LedgerStep ==
  ASSUME TypeOK, LedgerInv, MoneyStep
  PROVE  LedgerInv'
<1>1. CASE Idle
  <2>1. \A p \in Orders : ActiveItems(p)' = ActiveItems(p) /\ Online(p)' = Online(p)
    BY <1>1 DEF Idle, ActiveItems, ItemsOf, Online, moneyVars
  <2>2. QED
    BY <1>1, <2>1, ItemsAssumption
       DEF Idle, LedgerInv, DeliveryHasFee, ClosedWhenEmpty, RefundLedger, moneyVars
<1>2. QED
  BY <1>1, LedgerClosing, LedgerMoving, LedgerConverting DEF MoneyStep

----------------------------------------------------------------------------
\* Attempts and clocks.  Both invariants follow the status along the
\* transition table; besides the columns they name they need that only a
\* delivery is ever on the road.

OnlyDeliveriesTravel ==
  \A o \in Orders :
    status[o] \in {"SENT", "DELIVERED", "DELIVERY_FAILED", "REFUND_REQUESTED"}
    => method[o] = "DELIVERY"
ConductInv == OnlyDeliveriesTravel /\ AttemptDiscipline /\ ClocksMatchStatus

\* The columns ConductInv reads, apart from the status.
conductVars == <<method, payment, attempts, deliveredAge, reported, slot, failedAge>>

\* A step that only moves the status, to one that promises nothing about the
\* other columns, keeps the invariant.
LEMMA ConductQuietMove ==
  ASSUME TypeOK, ConductInv, NEW o \in Orders,
         NEW to \in {"PREPARING", "SENT", "COMPLETED", "CANCELLED", "REFUNDED", "REFUND_REQUESTED"},
         CanTransition(status[o], to, method[o], payment[o], attempts[o]),
         status[o] = "DELIVERY_FAILED" => to # "SENT",
         status' = [status EXCEPT ![o] = to],
         UNCHANGED conductVars
  PROVE  ConductInv'
<1>1. /\ status[o] \in Statuses /\ method[o] \in FulfilmentMethods
      /\ payment[o] \in PaymentMethods /\ attempts[o] \in Nat
  BY DEF TypeOK
<1>2. \/ status[o] = "PLACED" /\ to \in {"PREPARING", "CANCELLED", "REFUNDED"}
      \/ status[o] = "PREPARING" /\ to \in {"CANCELLED", "REFUNDED"}
      \/ status[o] = "PREPARING" /\ to = "SENT" /\ method[o] = "DELIVERY"
      \/ status[o] = "SENT" /\ to = "CANCELLED"
      \/ status[o] \in {"DELIVERED", "PICKED_UP"} /\ to = "COMPLETED"
      \/ status[o] = "DELIVERY_FAILED" /\ to \in {"CANCELLED", "REFUNDED"}
      \/ /\ status[o] = "DELIVERY_FAILED" /\ to = "REFUND_REQUESTED"
         /\ payment[o] = "ONLINE" /\ attempts[o] >= 2 /\ method[o] = "DELIVERY"
      \/ status[o] = "REFUND_REQUESTED" /\ to = "REFUNDED"
  BY <1>1, TransitionTable DEF Statuses
<1>3. OnlyDeliveriesTravel'
  BY <1>2 DEF ConductInv, OnlyDeliveriesTravel, conductVars, TypeOK
<1>4. AttemptDiscipline'
  <2>1. ASSUME NEW p \in Orders \ {o}
        PROVE  status'[p] = status[p]
    BY DEF TypeOK
  <2>2. status'[o] = to /\ attempts[o] \in Nat /\ attempts[o] <= 2
    BY <1>1 DEF TypeOK, ConductInv, AttemptDiscipline
  <2>3. \A p \in Orders : Online(p)' = Online(p)
    BY DEF Online, conductVars
  <2>4. QED
    BY <1>2, <2>1, <2>2, <2>3 DEF ConductInv, AttemptDiscipline, conductVars, Online
<1>5. ClocksMatchStatus'
  BY <1>2 DEF ConductInv, ClocksMatchStatus, conductVars, TypeOK
<1>6. QED
  BY <1>3, <1>4, <1>5 DEF ConductInv

\* So does cancelling items, whether or not they are the last ones.
LEMMA ConductFinalize ==
  ASSUME TypeOK, ConductInv, NEW o \in Orders, NEW S, FinalizeCancelledItems(o, S),
         UNCHANGED conductVars
  PROVE  ConductInv'
<1>1. CASE UNCHANGED status
  BY <1>1 DEF ConductInv, OnlyDeliveriesTravel, AttemptDiscipline, ClocksMatchStatus,
              conductVars, Online
<1>2. CASE Transition(o, ClosedStatus(o))
  <2>1. ClosedStatus(o) \in {"CANCELLED", "REFUNDED"}
    BY DEF ClosedStatus
  <2>2. QED
    BY <1>2, <2>1, ConductQuietMove DEF Transition
<1>3. QED
  BY <1>1, <1>2 DEF FinalizeCancelledItems

LEMMA ConductInit ==
  ASSUME Init
  PROVE  ConductInv
BY DEF Init, ConductInv, OnlyDeliveriesTravel, AttemptDiscipline, ClocksMatchStatus,
       FulfilmentMethods

LEMMA ConductStep ==
  ASSUME TypeOK, ConductInv, [Next]_vars
  PROVE  ConductInv'
<1>. USE DEF moneyVars, codVars, confirmVars, slotVars, termVars, conductVars
<1>1. ASSUME NEW o \in Orders, NEW i, NEW allowed, CancelItem(o, i, allowed)
      PROVE  ConductInv'
  BY <1>1, ConductFinalize DEF CancelItem
<1>2. ASSUME NEW o \in Orders, NEW allowed, CancelOrder(o, allowed)
      PROVE  ConductInv'
  BY <1>2, ConductFinalize DEF CancelOrder, CloseWholeOrder
<1>3. ASSUME NEW o \in Orders, StartPreparation(o) \/ MarkSent(o)
      PROVE  ConductInv'
  <2>1. PICK to \in {"PREPARING", "SENT"} :
          StaffStep(o, to) /\ (to = "SENT" => status[o] = "PREPARING")
    BY <1>3 DEF StartPreparation, MarkSent
  <2>2. QED
    BY <2>1, ConductQuietMove DEF StaffStep, Transition
<1>4. ASSUME NEW o \in Orders, NEW operation,
             ReadCodAmount(o, operation) \/ AbortHandover(o)
      PROVE  ConductInv'
  BY <1>4 DEF ReadCodAmount, AbortHandover, ConductInv, OnlyDeliveriesTravel,
              AttemptDiscipline, ClocksMatchStatus, Online
<1>5. ASSUME NEW o \in Orders, MarkDelivered(o)
      PROVE  ConductInv'
  <2>1. status[o] = "SENT" /\ status' = [status EXCEPT ![o] = "DELIVERED"]
    <3>1. /\ status[o] \in Statuses /\ method[o] \in FulfilmentMethods
          /\ payment[o] \in PaymentMethods /\ attempts[o] \in Nat
      BY DEF TypeOK
    <3>2. QED
      BY <1>5, <3>1, TransitionTable DEF MarkDelivered, Transition, Statuses
  <2>2. OnlyDeliveriesTravel' /\ AttemptDiscipline'
    BY <1>5, <2>1 DEF MarkDelivered, ConductInv, OnlyDeliveriesTravel, AttemptDiscipline,
                      Online, TypeOK
  <2>3. ClocksMatchStatus'
    BY <1>5, <2>1, NoneAssumption DEF MarkDelivered, ConductInv, ClocksMatchStatus, TypeOK
  <2>4. QED
    BY <2>2, <2>3 DEF ConductInv
<1>6. ASSUME NEW o \in Orders, PickupHandover(o)
      PROVE  ConductInv'
  BY <1>6 DEF PickupHandover, ConductInv, OnlyDeliveriesTravel, AttemptDiscipline,
              ClocksMatchStatus, Online, TypeOK
<1>7. ASSUME NEW o \in Orders, MarkDeliveryFailed(o)
      PROVE  ConductInv'
  <2>1. attempts[o] \in {0, 1} /\ attempts' = [attempts EXCEPT ![o] = attempts[o] + 1]
    BY <1>7 DEF MarkDeliveryFailed, CountAttempt, ConductInv, AttemptDiscipline, TypeOK
  <2>2. status' = [status EXCEPT ![o] = status'[o]] /\ failedAge' = [failedAge EXCEPT ![o] = failedAge'[o]]
    BY <1>7 DEF MarkDeliveryFailed, CloseWholeOrder, FinalizeCancelledItems, Transition, TypeOK
  <2>3. \/ /\ status'[o] = ClosedStatus(o) /\ failedAge'[o] = None
        \/ /\ attempts[o] = 0 \/ Online(o)
           /\ status'[o] = "DELIVERY_FAILED" /\ failedAge'[o] = 0
    BY <1>7, <2>1 DEF MarkDeliveryFailed, CloseWholeOrder, FinalizeCancelledItems, Transition,
                      SecondFailure, TypeOK
  <2>4. OnlyDeliveriesTravel'
    BY <1>7, <2>2, <2>3 DEF MarkDeliveryFailed, ConductInv, OnlyDeliveriesTravel, ClosedStatus, TypeOK
  <2>5. AttemptDiscipline'
    BY <1>7, <2>1, <2>2, <2>3 DEF MarkDeliveryFailed, ConductInv, AttemptDiscipline,
                                  ClosedStatus, Online, TypeOK
  <2>6. ClocksMatchStatus'
    BY <1>7, <2>2, <2>3, NoneAssumption
       DEF MarkDeliveryFailed, ConductInv, ClocksMatchStatus, ClosedStatus, TypeOK
  <2>7. QED
    BY <2>4, <2>5, <2>6 DEF ConductInv
<1>8. ASSUME NEW o \in Orders, RerequestConfirmation(o) \/ ReportNotReceived(o)
      PROVE  ConductInv'
  BY <1>8, NoneAssumption DEF RerequestConfirmation, ReportNotReceived, ConductInv,
     OnlyDeliveriesTravel, AttemptDiscipline, ClocksMatchStatus, Online, TypeOK
<1>9. ASSUME NEW o \in Orders, ApproveRefund(o)
      PROVE  ConductInv'
  BY <1>9, ConductFinalize DEF ApproveRefund, CloseWholeOrder
<1>10. ASSUME NEW o \in Orders, ConfirmReceived(o) \/ RequestRefund(o)
       PROVE  ConductInv'
  BY <1>10, ConductQuietMove DEF ConfirmReceived, RequestRefund, Transition
<1>11. ASSUME NEW o \in Orders, NEW s \in Slots, RescheduleOrder(o, s)
       PROVE  ConductInv'
  <2>1. \/ status[o] \in {"PLACED", "PREPARING"} /\ UNCHANGED status
        \/ /\ status[o] = "DELIVERY_FAILED" /\ attempts[o] < 2
           /\ status' = [status EXCEPT ![o] = "SENT"]
    BY <1>11 DEF RescheduleOrder, MayReschedule, Transition
  <2>2. QED
    BY <1>11, <2>1, NoneAssumption
       DEF RescheduleOrder, MayReschedule, StopClocks, ConductInv, OnlyDeliveriesTravel,
           AttemptDiscipline, ClocksMatchStatus, Online, TypeOK
<1>12. ASSUME NEW o \in Orders, ConvertToPickup(o)
       PROVE  ConductInv'
  BY <1>12 DEF ConvertToPickup, ConductInv, OnlyDeliveriesTravel, AttemptDiscipline,
               ClocksMatchStatus, Online, TypeOK
<1>13. ASSUME NEW o \in Orders, ReconcileOne(o)
       PROVE  ConductInv'
  <2>1. CASE Transition(o, "COMPLETED")
    BY <1>13, <2>1, ConductQuietMove DEF ReconcileOne, Transition
  <2>2. CASE UNCHANGED status
    BY <1>13, <2>2 DEF ReconcileOne, ConductInv, OnlyDeliveriesTravel, AttemptDiscipline,
                       ClocksMatchStatus, Online
  <2>3. QED
    BY <1>13, <2>1, <2>2 DEF ReconcileOne
<1>14. ASSUME NEW o \in Orders, SendPrepReminder(o) \/ MarkSlotMissed(o)
       PROVE  ConductInv'
  BY <1>14 DEF SendPrepReminder, MarkSlotMissed, ConductInv, OnlyDeliveriesTravel,
               AttemptDiscipline, ClocksMatchStatus, Online
<1>15. ASSUME NEW o \in Orders, NEW reason, ResolveTimeout(o, reason)
       PROVE  ConductInv'
  BY <1>15, ConductFinalize DEF ResolveTimeout, CloseWholeOrder
<1>16. CASE Tick
  <2>1. \A o \in Orders : /\ deliveredAge'[o] = None <=> deliveredAge[o] = None
                          /\ failedAge'[o] = None <=> failedAge[o] = None
    BY <1>16, NoneAssumption, TimeAssumption DEF Tick, Older, TypeOK, Age
  <2>2. QED
    BY <1>16, <2>1 DEF Tick, ConductInv, OnlyDeliveriesTravel, AttemptDiscipline,
                       ClocksMatchStatus, Online
<1>17. CASE UNCHANGED vars
  BY <1>17 DEF vars, ConductInv, OnlyDeliveriesTravel, AttemptDiscipline, ClocksMatchStatus, Online
<1>18. ASSUME NEW o \in Orders, StaffNext(o)
       PROVE  ConductInv'
  BY <1>18, <1>1, <1>2, <1>3, <1>4, <1>5, <1>6, <1>7, <1>8, <1>9
     DEF StaffNext, StaffCancelItem, StaffCancelOrder
<1>19. ASSUME NEW o \in Orders, CustomerNext(o)
       PROVE  ConductInv'
  BY <1>19, <1>1, <1>2, <1>8, <1>10, <1>11, <1>12
     DEF CustomerNext, CustomerCancelItem, CustomerCancelOrder
<1>20. ASSUME NEW o \in Orders, SystemNext(o)
       PROVE  ConductInv'
  BY <1>20, <1>13, <1>14, <1>15 DEF SystemNext
<1>21. QED
  BY <1>2, <1>16, <1>17, <1>18, <1>19, <1>20 DEF Next, UserNext, AdminForceCancel

----------------------------------------------------------------------------
\* Cash.  What was read before the lock stays good enough: cancelled items
\* only leave the amount due, so an older amount covers it.

CodReadsCover ==
  \A o \in Orders : \A r \in codRead[o] :
    /\ Online(o) => r.due = {}
    /\ \A amount \in r.due : ActiveItems(o) \subseteq amount
CodInv == CodReadsCover /\ CodNeverUnderCollected

\* Where the pending reads and the collected amounts come from.
CodStep ==
  \A o \in Orders :
    /\ \A r \in codRead'[o] : r \in codRead[o] \/ r.due = DueNow(o)
    /\ \A amount \in collected'[o] :
         amount \in collected[o] \/ \E r \in codRead[o] : amount \in r.due

LEMMA CodStepShape ==
  ASSUME TypeOK, [Next]_vars
  PROVE  CodStep
<1>1. CASE UNCHANGED codVars
  BY <1>1 DEF codVars, CodStep
<1>2. ASSUME NEW o \in Orders, NEW operation, ReadCodAmount(o, operation)
      PROVE  CodStep
  <2>1. collected' = collected
    BY <1>2 DEF ReadCodAmount
  <2>2. ASSUME NEW p \in Orders, NEW r \in codRead'[p]
        PROVE  r \in codRead[p] \/ r.due = DueNow(p)
    <3>1. CASE p = o
      BY <1>2, <2>2, <3>1 DEF ReadCodAmount, TypeOK
    <3>2. CASE p # o
      BY <1>2, <2>2, <3>2 DEF ReadCodAmount, TypeOK
    <3>3. QED
      BY <3>1, <3>2
  <2>3. QED
    BY <2>1, <2>2 DEF CodStep
<1>3. ASSUME NEW o \in Orders, NEW operation, Collect(o, operation)
      PROVE  CodStep
  BY <1>3 DEF Collect, CodStep, TypeOK
<1>4. ASSUME NEW o \in Orders, AbortHandover(o)
      PROVE  CodStep
  BY <1>4 DEF AbortHandover, CodStep, TypeOK
<1>5. ASSUME NEW o \in Orders, StaffNext(o)
      PROVE  CodStep
  BY <1>5, <1>1, <1>2, <1>3, <1>4
     DEF StaffNext, StaffCancelItem, StaffCancelOrder, CancelItem, CancelOrder, StartPreparation,
         MarkSent, StaffStep, MarkDelivered, PickupHandover, MarkDeliveryFailed,
         RerequestConfirmation, ApproveRefund
<1>6. ASSUME NEW o \in Orders, CustomerNext(o)
      PROVE  CodStep
  BY <1>6, <1>1
     DEF CustomerNext, CustomerCancelItem, CustomerCancelOrder, CancelItem, CancelOrder,
         ConfirmReceived, ReportNotReceived, RescheduleOrder, ConvertToPickup, RequestRefund
<1>7. ASSUME NEW o \in Orders, SystemNext(o)
      PROVE  CodStep
  BY <1>7, <1>1 DEF SystemNext, ReconcileOne, SendPrepReminder, MarkSlotMissed, ResolveTimeout
<1>8. QED
  BY <1>1, <1>5, <1>6, <1>7 DEF Next, UserNext, AdminForceCancel, CancelOrder, Tick, vars

\* A money step never makes an item active again and never changes who pays.
LEMMA ActiveItemsShrink ==
  ASSUME MoneyStep, NEW p \in Orders
  PROVE  ActiveItems(p)' \subseteq ActiveItems(p) /\ Online(p)' = Online(p)
<1>1. payment' = payment
  BY DEF MoneyStep, Idle, Closing, Moving, ConvertToPickup, termVars
<1>2. CASE UNCHANGED cancelled
  BY <1>1, <1>2 DEF ActiveItems, ItemsOf, Online
<1>3. ASSUME NEW o \in Orders, Closing(o)
      PROVE  ActiveItems(p)' \subseteq ActiveItems(p)
  BY <1>3, OtherItemsStayActive DEF Closing
<1>4. QED
  BY <1>1, <1>2, <1>3 DEF MoneyStep, Idle, Moving, ConvertToPickup, moneyVars, Online

LEMMA CodInvStep ==
  ASSUME TypeOK, CodInv, [Next]_vars
  PROVE  CodInv'
<1>1. MoneyStep /\ CodStep
  BY StepShape, CodStepShape
<1>2. \A o \in Orders : ActiveItems(o) \subseteq AmountDue(o, FALSE)
  BY DEF ActiveItems, AmountDue, LinesOf
<1>3. \A o \in Orders : ActiveItems(o)' \subseteq ActiveItems(o) /\ Online(o)' = Online(o)
  BY <1>1, ActiveItemsShrink
<1>4. CodReadsCover'
  <2>1. SUFFICES ASSUME NEW o \in Orders, NEW r \in codRead'[o]
                 PROVE  /\ Online(o) => r.due = {}
                        /\ \A amount \in r.due : ActiveItems(o)' \subseteq amount
    BY <1>3 DEF CodReadsCover
  <2>2. CASE r \in codRead[o]
    BY <1>3, <2>2 DEF CodInv, CodReadsCover
  <2>3. CASE r.due = DueNow(o)
    <3>1. CASE Online(o)
      BY <2>3, <3>1 DEF DueNow
    <3>2. CASE ~Online(o)
      <4>1. r.due = {AmountDue(o, FALSE)}
        BY <2>3, <3>2 DEF DueNow
      <4>2. ActiveItems(o)' \subseteq AmountDue(o, FALSE)
        BY <1>2, <1>3
      <4>3. QED
        BY <3>2, <4>1, <4>2
    <3>3. QED
      BY <3>1, <3>2
  <2>4. QED
    BY <1>1, <2>2, <2>3 DEF CodStep
<1>5. CodNeverUnderCollected'
  <2>1. SUFFICES ASSUME NEW o \in Orders, NEW amount \in collected'[o]
                 PROVE  ~Online(o) /\ ActiveItems(o)' \subseteq amount
    BY <1>3 DEF CodNeverUnderCollected
  <2>2. CASE amount \in collected[o]
    BY <1>3, <2>2 DEF CodInv, CodNeverUnderCollected
  <2>3. CASE \E r \in codRead[o] : amount \in r.due
    BY <1>3, <2>3 DEF CodInv, CodReadsCover
  <2>4. QED
    BY <1>1, <2>2, <2>3 DEF CodStep
<1>6. QED
  BY <1>4, <1>5 DEF CodInv

----------------------------------------------------------------------------
\* Stock.

LEMMA StockStep ==
  ASSUME TypeOK, StockReturnedOnce, MoneyStep
  PROVE  StockReturnedOnce'
<1>1. CASE UNCHANGED <<restocked, cancelled>>
  BY <1>1 DEF StockReturnedOnce
<1>2. ASSUME NEW o \in Orders, Closing(o)
      PROVE  StockReturnedOnce'
  <2>1. PICK S \in SUBSET Items : FinalizeCancelledItems(o, S)
    BY <1>2 DEF Closing
  <2>2. SUFFICES ASSUME NEW f \in Offers
                 PROVE  restocked'[f] = Cardinality({i \in cancelled' : OfferOf[i] = f})
    BY DEF StockReturnedOnce
  <2>. DEFINE new == {i \in S : OfferOf[i] = f}
              old == {i \in cancelled : OfferOf[i] = f}
  <2>3. IsFiniteSet(new) /\ IsFiniteSet(old)
    BY ItemsAssumption, FS_Subset DEF TypeOK
  <2>4. new \cap old = {}
    BY <2>1 DEF FinalizeCancelledItems, ActiveItems
  <2>5. Cardinality(old \cup new) = Cardinality(old) + Cardinality(new)
    <3>1. Cardinality(old \cup new) =
            Cardinality(old) + Cardinality(new) - Cardinality(old \cap new)
      BY <2>3, FS_Union
    <3>2. Cardinality(old \cap new) = 0
      BY <2>4, FS_EmptySet
    <3>3. Cardinality(old) \in Nat /\ Cardinality(new) \in Nat
      BY <2>3, FS_CardinalityType
    <3>4. QED
      BY <3>1, <3>2, <3>3
  <2>6. {i \in cancelled' : OfferOf[i] = f} = old \cup new
    BY <2>1 DEF FinalizeCancelledItems
  <2>7. restocked'[f] = restocked[f] + Cardinality(new)
    BY <2>1 DEF FinalizeCancelledItems, RestockItems
  <2>8. restocked[f] = Cardinality(old)
    BY DEF StockReturnedOnce
  <2>9. QED
    BY <2>5, <2>6, <2>7, <2>8
<1>3. QED
  BY <1>1, <1>2 DEF MoneyStep, Idle, Moving, ConvertToPickup, moneyVars

----------------------------------------------------------------------------
\* The inductive invariant and what follows from it.

Inv == TypeOK /\ LedgerInv /\ ConductInv /\ CodInv /\ StockReturnedOnce

LEMMA InvInit == Init => Inv
<1>1. Init => StockReturnedOnce
  <2>1. ASSUME Init, NEW f \in Offers
        PROVE  restocked[f] = Cardinality({i \in cancelled : OfferOf[i] = f})
    <3>1. {i \in cancelled : OfferOf[i] = f} = {}
      BY <2>1 DEF Init
    <3>2. QED
      BY <2>1, <3>1, FS_EmptySet DEF Init
  <2>2. QED
    BY <2>1 DEF StockReturnedOnce
<1>2. Init => CodInv
  BY DEF Init, CodInv, CodReadsCover, CodNeverUnderCollected
<1>3. Init => TypeOK
  BY TypeInit
<1>4. QED
  BY <1>1, <1>2, <1>3, LedgerInit, ConductInit DEF Inv

LEMMA InvStep == Inv /\ [Next]_vars => Inv'
BY TypeStep, StepShape, LedgerStep, ConductStep, CodInvStep, StockStep DEF Inv

LEMMA InductiveInvariant == Spec => []Inv
BY InvInit, InvStep, PTL DEF Spec

\* The refund rows of every order are exactly the ones it owes, for any
\* number of orders and items.
THEOREM RefundLedgerCorrect == Spec => []RefundLedger
<1>1. Inv => RefundLedger
  BY DEF Inv, LedgerInv
<1>2. QED
  BY <1>1, InductiveInvariant, PTL

\* An order is closed exactly when its last item is cancelled, and a REFUNDED
\* one has a refund row for every line it was charged.
THEOREM ClosingSettles == Spec => []ClosedMeansSettled
<1>1. Inv => ClosedMeansSettled
  <2>. SUFFICES ASSUME Inv, NEW o \in Orders, status[o] = "REFUNDED"
                 PROVE  /\ \A i \in ItemsOf(o) : itemRefunds[i] = 1
                        /\ fee[o] = "charged" => feeRefunds[o] = 1
    BY DEF Inv, LedgerInv, ClosedWhenEmpty, ClosedMeansSettled
  <2>2. ActiveItems(o) = {} /\ Online(o)
    BY DEF Inv, LedgerInv, ClosedWhenEmpty
  <2>3. \A i \in ItemsOf(o) : i \in Items /\ i \in cancelled /\ OrderOf[i] = o
    BY <2>2 DEF ItemsOf, ActiveItems
  <2>4. \A i \in ItemsOf(o) : itemRefunds[i] = 1
    BY <2>2, <2>3 DEF Inv, LedgerInv, RefundLedger
  <2>5. method[o] \in {"DELIVERY", "PICKUP"}
    BY DEF Inv, TypeOK, FulfilmentMethods
  <2>6. QED
    BY <2>4, <2>5 DEF Inv, LedgerInv, RefundLedger
<1>2. QED
  BY <1>1, InductiveInvariant, PTL

\* The attempt count and the status agree (PDR-027).
THEOREM AttemptsAreDisciplined == Spec => []AttemptDiscipline
<1>1. Inv => AttemptDiscipline
  BY DEF Inv, ConductInv
<1>2. QED
  BY <1>1, InductiveInvariant, PTL

\* The clock columns agree with the status.
THEOREM ClocksAgree == Spec => []ClocksMatchStatus
<1>1. Inv => ClocksMatchStatus
  BY DEF Inv, ConductInv
<1>2. QED
  BY <1>1, InductiveInvariant, PTL

\* Every cancelled unit is restocked once, however many items share an offer.
THEOREM StockIsReturnedOnce == Spec => []StockReturnedOnce
<1>1. Inv => StockReturnedOnce
  BY DEF Inv
<1>2. QED
  BY <1>1, InductiveInvariant, PTL

\* Cash on delivery is never collected short of the items that remain.
THEOREM CodIsCovered == Spec => []CodNeverUnderCollected
<1>1. Inv => CodNeverUnderCollected
  BY DEF Inv, CodInv
<1>2. QED
  BY <1>1, InductiveInvariant, PTL

\* Wherever a handler or a sweep has decided to close an order, the table
\* lets it: the closing transaction cannot throw.
THEOREM ClosingIsNeverRefused == Spec => []ClosingNeverRefused
<1>1. Inv => ClosingNeverRefused
  <2>. SUFFICES ASSUME Inv, NEW o \in Orders,
                        \/ \E reason \in TimeoutReasons : TimeoutAccepted(o, reason)
                        \/ status[o] = "REFUND_REQUESTED"
                        \/ status[o] = "SENT" /\ SecondFailure(o) /\ ~Online(o)
                        \/ status[o] \in {"PLACED", "PREPARING"}
                 PROVE  /\ ActiveItems(o) # {}
                        /\ CanTransition(status[o], ClosedStatus(o), method[o],
                                         payment[o], attempts[o])
    BY DEF ClosingNeverRefused
  <2>2. \/ status[o] = "REFUND_REQUESTED"
        \/ status[o] = "DELIVERY_FAILED" /\ attempts[o] = 1
        \/ status[o] = "SENT" /\ SecondFailure(o) /\ ~Online(o)
        \/ status[o] \in {"PLACED", "PREPARING"}
    BY DEF TimeoutAccepted
  <2>3. ActiveItems(o) # {}
    BY <2>2 DEF Inv, LedgerInv, ClosedWhenEmpty
  <2>4. /\ status[o] \in Statuses /\ method[o] \in FulfilmentMethods
        /\ payment[o] \in PaymentMethods /\ attempts[o] \in Nat
    BY DEF Inv, TypeOK
  <2>5. /\ status[o] \in {"SENT", "DELIVERY_FAILED", "REFUND_REQUESTED"} => method[o] = "DELIVERY"
        /\ status[o] = "REFUND_REQUESTED" => payment[o] = "ONLINE" /\ attempts[o] = 2
    BY DEF Inv, ConductInv, OnlyDeliveriesTravel, AttemptDiscipline, Online
  <2>6. ClosedStatus(o) = IF payment[o] = "ONLINE" THEN "REFUNDED" ELSE "CANCELLED"
    BY DEF ClosedStatus, Online
  <2>7. CASE payment[o] = "ONLINE"
    <3>1. "REFUNDED" \in Statuses /\ ClosedStatus(o) = "REFUNDED"
      BY <2>6, <2>7 DEF Statuses
    <3>2. \/ status[o] \in {"PLACED", "PREPARING"}
          \/ status[o] = "DELIVERY_FAILED" /\ attempts[o] <= 1 /\ method[o] = "DELIVERY"
          \/ status[o] = "REFUND_REQUESTED" /\ attempts[o] >= 2 /\ method[o] = "DELIVERY"
      BY <2>2, <2>5, <2>7 DEF Online
    <3>3. CanTransition(status[o], "REFUNDED", method[o], payment[o], attempts[o])
      BY <2>4, <2>7, <3>1, <3>2, TransitionTable
    <3>4. QED
      BY <2>3, <3>1, <3>3
  <2>8. CASE payment[o] = "COD"
    <3>1. "CANCELLED" \in Statuses /\ ClosedStatus(o) = "CANCELLED"
      BY <2>6, <2>8 DEF Statuses
    <3>2. \/ status[o] \in {"PLACED", "PREPARING"}
          \/ status[o] = "DELIVERY_FAILED" /\ attempts[o] <= 1 /\ method[o] = "DELIVERY"
          \/ status[o] = "SENT" /\ attempts[o] >= 1 /\ method[o] = "DELIVERY"
      BY <2>2, <2>5, <2>8 DEF SecondFailure
    <3>3. CanTransition(status[o], "CANCELLED", method[o], payment[o], attempts[o])
      BY <2>4, <2>8, <3>1, <3>2, TransitionTable
    <3>4. QED
      BY <2>3, <3>1, <3>3
  <2>9. QED
    BY <2>3, <2>4, <2>7, <2>8 DEF PaymentMethods
<1>2. QED
  BY <1>1, InductiveInvariant, PTL

\* A finished order stays as it is, whatever runs on it or on other orders.
THEOREM FinishedIsFrozen == Spec => TerminalIsFrozen
<1>1. Inv /\ [Next]_vars =>
        [\A o \in Orders : status[o] \in TerminalStatuses => UNCHANGED Settled(o)]_vars
  <2>. SUFFICES ASSUME Inv, [Next]_vars, NEW p \in Orders, status[p] \in TerminalStatuses
                 PROVE  UNCHANGED Settled(p)
    OBVIOUS
  <2>2. MoneyStep /\ FinishedRowsKept
    BY StepShape DEF Inv
  <2>3. attempts'[p] = attempts[p] /\ collected'[p] = collected[p]
    BY <2>2 DEF FinishedRowsKept
  <2>. DEFINE kept == /\ status'[p] = status[p]
                      /\ method'[p] = method[p]
                      /\ feeRefunds'[p] = feeRefunds[p]
                      /\ ActiveItems(p)' = ActiveItems(p)
                      /\ \A i \in ItemsOf(p) : itemRefunds'[i] = itemRefunds[i]
  <2>4. ASSUME NEW o \in Orders, Closing(o)
        PROVE  kept
    <3>1. PICK S \in SUBSET Items : FinalizeCancelledItems(o, S)
      BY <2>4 DEF Closing
    <3>2. p # o
      BY <2>4 DEF Closing
    <3>3. ActiveItems(p)' = ActiveItems(p)
      BY <3>1, <3>2, OtherItemsStayActive
    <3>4. status'[p] = status[p] /\ feeRefunds'[p] = feeRefunds[p]
      BY <3>1, <3>2 DEF FinalizeCancelledItems, Transition, RefundFee, Inv, TypeOK
    <3>5. \A i \in ItemsOf(p) : itemRefunds'[i] = itemRefunds[i]
      BY <3>1, <3>2 DEF FinalizeCancelledItems, RefundItems, ActiveItems, ItemsOf, Inv, TypeOK
    <3>6. QED
      BY <2>4, <3>3, <3>4, <3>5 DEF Closing
  <2>5. ASSUME NEW o \in Orders, Moving(o)
        PROVE  kept
    BY <2>5 DEF Moving, moneyVars, ActiveItems, ItemsOf, Inv, TypeOK
  <2>6. ASSUME NEW o \in Orders, ConvertToPickup(o)
        PROVE  kept
    <3>1. p # o
      BY <2>6 DEF ConvertToPickup, TerminalStatuses
    <3>2. QED
      BY <2>6, <3>1 DEF ConvertToPickup, ActiveItems, ItemsOf, Inv, TypeOK
  <2>7. ASSUME Idle
        PROVE  kept
    <3>1. /\ status' = status /\ method' = method /\ feeRefunds' = feeRefunds
          /\ itemRefunds' = itemRefunds /\ cancelled' = cancelled
      BY <2>7 DEF Idle, moneyVars
    <3>2. ActiveItems(p)' = ActiveItems(p)
      BY <3>1 DEF ActiveItems, ItemsOf
    <3>3. QED
      BY <3>1, <3>2
  <2>8. kept
    <3>. HIDE DEF kept
    <3>. QED
      BY <2>2, <2>4, <2>5, <2>6, <2>7 DEF MoneyStep
  <2>9. ItemsOf(p)' = ItemsOf(p)
    BY DEF ItemsOf
  <2>10. QED
    BY <2>3, <2>8, <2>9 DEF Settled
<1>2. QED
  BY <1>1, InductiveInvariant, PTL DEF Spec, TerminalIsFrozen

----------------------------------------------------------------------------
\* An open report.

LEMMA DeliveredOnlyCompletes ==
  ASSUME NEW to, NEW m, NEW p, NEW c, CanTransition("DELIVERED", to, m, p, c)
  PROVE  to = "COMPLETED"
BY DEF CanTransition, Transitions, Rule

LEMMA ClosingLeavesReported ==
  ASSUME TypeOK, NEW o \in Orders, NEW S, FinalizeCancelledItems(o, S),
         NEW p \in Orders, status[p] = "DELIVERED"
  PROVE  status'[p] = "DELIVERED"
<1>1. CASE Transition(o, ClosedStatus(o))
  <2>1. p # o
    BY <1>1, DeliveredOnlyCompletes DEF Transition, ClosedStatus
  <2>2. QED
    BY <1>1, <2>1 DEF Transition, TypeOK
<1>2. QED
  BY <1>1 DEF FinalizeCancelledItems

LEMMA ReportedStep ==
  ASSUME TypeOK, [Next]_vars, NEW p \in Orders, status[p] = "DELIVERED", reported[p]
  PROVE  /\ status'[p] = "DELIVERED" \/ ConfirmReceived(p)
         /\ reported'[p] \/ RerequestConfirmation(p)
<1>. DEFINE held == /\ status'[p] = "DELIVERED" \/ ConfirmReceived(p)
                    /\ reported'[p] \/ RerequestConfirmation(p)
<1>. USE DEF moneyVars, codVars, confirmVars, slotVars, termVars
<1>1. ASSUME NEW o \in Orders, NEW to, to # "COMPLETED", Transition(o, to)
      PROVE  status'[p] = "DELIVERED"
  <2>1. p # o
    BY <1>1, DeliveredOnlyCompletes DEF Transition
  <2>2. QED
    BY <1>1, <2>1 DEF Transition, TypeOK
<1>2. ASSUME NEW o \in Orders, NEW i, NEW allowed, CancelItem(o, i, allowed)
      PROVE  held
  BY <1>2, ClosingLeavesReported DEF CancelItem
<1>3. ASSUME NEW o \in Orders, NEW allowed, CancelOrder(o, allowed)
      PROVE  held
  BY <1>3, ClosingLeavesReported DEF CancelOrder, CloseWholeOrder
<1>4. ASSUME NEW o \in Orders, StaffNext(o)
      PROVE  held
  <2>1. ASSUME NEW to \in {"PREPARING", "SENT"}, StaffStep(o, to)
        PROVE  held
    BY <1>1, <2>1 DEF StaffStep
  <2>2. ASSUME NEW operation, ReadCodAmount(o, operation) \/ AbortHandover(o)
        PROVE  held
    BY <2>2 DEF ReadCodAmount, AbortHandover
  <2>3. ASSUME MarkDelivered(o)
        PROVE  held
    BY <1>1, <2>3 DEF MarkDelivered
  <2>4. ASSUME PickupHandover(o)
        PROVE  held
    <3>1. p # o
      BY <2>4, DeliveredOnlyCompletes DEF PickupHandover
    <3>2. QED
      BY <2>4, <3>1 DEF PickupHandover, TypeOK
  <2>5. ASSUME MarkDeliveryFailed(o)
        PROVE  held
    BY <1>1, <2>5, ClosingLeavesReported DEF MarkDeliveryFailed, CloseWholeOrder
  <2>6. ASSUME RerequestConfirmation(o)
        PROVE  held
    BY <2>6 DEF RerequestConfirmation, TypeOK
  <2>7. ASSUME ApproveRefund(o)
        PROVE  held
    BY <2>7, ClosingLeavesReported DEF ApproveRefund, CloseWholeOrder
  <2>. HIDE DEF held
  <2>8. QED
    BY <1>2, <1>3, <1>4, <2>1, <2>2, <2>3, <2>4, <2>5, <2>6, <2>7
       DEF StaffNext, StaffCancelItem, StaffCancelOrder, StartPreparation, MarkSent
<1>5. ASSUME NEW o \in Orders, CustomerNext(o)
      PROVE  held
  <2>1. ASSUME ConfirmReceived(o)
        PROVE  held
    <3>1. CASE p = o
      BY <2>1, <3>1 DEF ConfirmReceived
    <3>2. CASE p # o
      BY <2>1, <3>2 DEF ConfirmReceived, Transition, TypeOK
    <3>3. QED
      BY <3>1, <3>2
  <2>2. ASSUME ReportNotReceived(o)
        PROVE  held
    BY <2>2 DEF ReportNotReceived, TypeOK
  <2>3. ASSUME NEW s \in Slots, RescheduleOrder(o, s)
        PROVE  held
    BY <1>1, <2>3 DEF RescheduleOrder
  <2>4. ASSUME ConvertToPickup(o)
        PROVE  held
    BY <2>4 DEF ConvertToPickup
  <2>5. ASSUME RequestRefund(o)
        PROVE  held
    BY <1>1, <2>5 DEF RequestRefund
  <2>. HIDE DEF held
  <2>6. QED
    BY <1>2, <1>3, <1>5, <2>1, <2>2, <2>3, <2>4, <2>5
       DEF CustomerNext, CustomerCancelItem, CustomerCancelOrder
<1>6. ASSUME NEW o \in Orders, SystemNext(o)
      PROVE  held
  <2>1. ASSUME ReconcileOne(o)
        PROVE  held
    <3>1. p # o
      BY <2>1 DEF ReconcileOne, AutoConfirmDue, ConfirmReminderDue, AwaitingConfirmation
    <3>2. QED
      BY <2>1, <3>1 DEF ReconcileOne, Transition, TypeOK
  <2>2. ASSUME SendPrepReminder(o) \/ MarkSlotMissed(o)
        PROVE  held
    BY <2>2 DEF SendPrepReminder, MarkSlotMissed
  <2>3. ASSUME NEW reason, ResolveTimeout(o, reason)
        PROVE  held
    BY <2>3, ClosingLeavesReported DEF ResolveTimeout, CloseWholeOrder
  <2>. HIDE DEF held
  <2>4. QED
    BY <1>6, <2>1, <2>2, <2>3 DEF SystemNext
<1>7. ASSUME Tick \/ UNCHANGED vars
      PROVE  held
  BY <1>7 DEF Tick, vars
<1>8. held
  <2>. HIDE DEF held
  <2>. QED
    BY <1>3, <1>4, <1>5, <1>6, <1>7 DEF Next, UserNext, AdminForceCancel
<1>9. QED
  BY <1>8

\* While a report is open the order leaves DELIVERED only by the customer's
\* own confirmation, and only a restarted confirmation ends the report.
THEOREM ReportsHold == Spec => ReportHoldsOrder
<1>1. Inv /\ [Next]_vars =>
        [\A o \in Orders :
          (status[o] = "DELIVERED" /\ reported[o])
          => /\ status'[o] # status[o] => ConfirmReceived(o)
             /\ reported'[o] # reported[o] => deliveredAge'[o] = 0 /\ ~reminded'[o]]_vars
  <2>. SUFFICES ASSUME Inv, [Next]_vars, NEW p \in Orders, status[p] = "DELIVERED", reported[p]
                PROVE  /\ status'[p] # status[p] => ConfirmReceived(p)
                       /\ reported'[p] # reported[p] => deliveredAge'[p] = 0 /\ ~reminded'[p]
    OBVIOUS
  <2>1. /\ status'[p] = "DELIVERED" \/ ConfirmReceived(p)
        /\ reported'[p] \/ RerequestConfirmation(p)
    BY ReportedStep DEF Inv
  <2>2. RerequestConfirmation(p) => deliveredAge'[p] = 0 /\ ~reminded'[p]
    BY DEF RerequestConfirmation, Inv, TypeOK
  <2>3. TypeOK'
    BY TypeStep DEF Inv
  <2>4. reported'[p] \in BOOLEAN
    BY <2>3 DEF TypeOK
  <2>5. QED
    BY <2>1, <2>2, <2>4
<1>2. QED
  BY <1>1, InductiveInvariant, PTL DEF Spec, ReportHoldsOrder

----------------------------------------------------------------------------
\* The refinement: every behaviour of BranchOrder is, seen through
\* BranchOrderSettlement, a behaviour of OrderSettlement.  The step shapes are
\* the cases, and the ledger invariant says what each of them gives back.

ReturnedOf(o) == BillOf(o) \cap RefundedLines(o)

\* A row that a money step does not touch looks the same to the abstraction.
LEMMA SameRow ==
  ASSUME NEW p \in Orders, UNCHANGED <<payment, fee>>,
         status'[p] = status[p], feeRefunds'[p] = feeRefunds[p],
         \A i \in ItemsOf(p) : itemRefunds'[i] = itemRefunds[i]
  PROVE  PhaseOf(p)' = PhaseOf(p) /\ ReturnedOf(p)' = ReturnedOf(p)
<1>1. PhaseOf(p)' = PhaseOf(p)
  BY DEF PhaseOf
<1>2. BillOf(p)' = BillOf(p)
  BY DEF BillOf, Online, ItemsOf
<1>3. RefundedLines(p)' = RefundedLines(p)
  BY DEF RefundedLines, ItemsOf
<1>4. QED
  BY <1>1, <1>2, <1>3 DEF ReturnedOf

\* No money step changes what an order was billed, takes money back, or
\* touches more than one row.
LEMMA RowsOfStep ==
  ASSUME TypeOK, NEW o \in Orders, Closing(o) \/ Moving(o) \/ ConvertToPickup(o)
  PROVE  /\ \A p \in Orders : BillOf(p)' = BillOf(p)
         /\ \A p \in Orders \ {o} : PhaseOf(p)' = PhaseOf(p) /\ ReturnedOf(p)' = ReturnedOf(p)
         /\ ReturnedOf(o) \subseteq ReturnedOf(o)'
<1>1. UNCHANGED <<payment, fee>>
  BY DEF Closing, Moving, ConvertToPickup, termVars
<1>2. \A p \in Orders : BillOf(p)' = BillOf(p)
  BY <1>1 DEF BillOf, Online, ItemsOf
<1>3. ASSUME NEW p \in Orders \ {o}
      PROVE  /\ status'[p] = status[p] /\ feeRefunds'[p] = feeRefunds[p]
             /\ \A i \in ItemsOf(p) : itemRefunds'[i] = itemRefunds[i]
  <2>1. CASE Closing(o)
    <3>1. PICK S \in SUBSET Items : FinalizeCancelledItems(o, S)
      BY <2>1 DEF Closing
    <3>2. status'[p] = status[p] /\ feeRefunds'[p] = feeRefunds[p]
      BY <3>1 DEF FinalizeCancelledItems, Transition, RefundFee, TypeOK
    <3>3. \A i \in ItemsOf(p) : itemRefunds'[i] = itemRefunds[i]
      BY <3>1 DEF FinalizeCancelledItems, RefundItems, ActiveItems, ItemsOf, TypeOK
    <3>4. QED
      BY <3>2, <3>3
  <2>2. CASE Moving(o)
    BY <2>2 DEF Moving, moneyVars, TypeOK
  <2>3. CASE ConvertToPickup(o)
    BY <2>3 DEF ConvertToPickup, TypeOK
  <2>4. QED
    BY <2>1, <2>2, <2>3
<1>4. /\ feeRefunds[o] > 0 => feeRefunds'[o] > 0
      /\ \A i \in Items : itemRefunds[i] > 0 => itemRefunds'[i] > 0
  <2>1. CASE Closing(o)
    <3>1. PICK S \in SUBSET Items : FinalizeCancelledItems(o, S)
      BY <2>1 DEF Closing
    <3>2. feeRefunds[o] > 0 => feeRefunds'[o] > 0
      BY <3>1 DEF FinalizeCancelledItems, RefundFee, TypeOK
    <3>3. \A i \in Items : itemRefunds[i] > 0 => itemRefunds'[i] > 0
      BY <3>1 DEF FinalizeCancelledItems, RefundItems, TypeOK
    <3>4. QED
      BY <3>2, <3>3
  <2>2. CASE Moving(o)
    BY <2>2 DEF Moving, moneyVars
  <2>3. CASE ConvertToPickup(o)
    BY <2>3 DEF ConvertToPickup, TypeOK
  <2>4. QED
    BY <2>1, <2>2, <2>3
<1>5. RefundedLines(o) \subseteq RefundedLines(o)'
  BY <1>4 DEF RefundedLines, ItemsOf
<1>6. QED
  BY <1>1, <1>2, <1>3, <1>5, SameRow DEF ReturnedOf

\* A closed order has given back its whole bill.
ClosedReturnsAll ==
  \A o \in Orders : PhaseOf(o) = "void" => ReturnedOf(o) = BillOf(o)

LEMMA InvClosedReturnsAll ==
  ASSUME Inv
  PROVE  ClosedReturnsAll
<1>. SUFFICES ASSUME NEW o \in Orders, status[o] \in {"CANCELLED", "REFUNDED"}
              PROVE  ReturnedOf(o) = BillOf(o)
  BY DEF ClosedReturnsAll, PhaseOf
<1>1. CASE ~Online(o)
  BY <1>1 DEF ReturnedOf, BillOf
<1>2. CASE Online(o)
  <2>1. ActiveItems(o) = {} /\ status[o] = "REFUNDED"
    BY <1>2 DEF Inv, LedgerInv, ClosedWhenEmpty
  <2>2. \A i \in ItemsOf(o) : i \in Items /\ i \in cancelled /\ OrderOf[i] = o
    BY <2>1 DEF ActiveItems, ItemsOf
  <2>3. \A i \in ItemsOf(o) : itemRefunds[i] = 1
    BY <1>2, <2>2 DEF Inv, LedgerInv, RefundLedger
  <2>4. method[o] \in {"DELIVERY", "PICKUP"}
    BY DEF Inv, TypeOK, FulfilmentMethods
  <2>5. fee[o] = "charged" => feeRefunds[o] = 1
    BY <2>1, <2>4 DEF Inv, LedgerInv, RefundLedger
  <2>6. BillOf(o) \subseteq RefundedLines(o)
    BY <1>2, <2>3, <2>5 DEF BillOf, RefundedLines
  <2>7. QED
    BY <2>6 DEF ReturnedOf
<1>3. QED
  BY <1>1, <1>2

\* An order that still has an active item has not given back its whole bill.
LEMMA ActiveItemStaysBilled ==
  ASSUME Inv, NEW o \in Orders, status[o] \notin {"CANCELLED", "REFUNDED"}, BillOf(o) # {}
  PROVE  ReturnedOf(o) # BillOf(o)
<1>1. Online(o)
  BY DEF BillOf
<1>2. PICK i \in Items : OrderOf[i] = o /\ i \notin cancelled
  BY DEF Inv, LedgerInv, ClosedWhenEmpty, ActiveItems, ItemsOf
<1>3. itemRefunds[i] = 0
  BY <1>2 DEF Inv, LedgerInv, RefundLedger
<1>4. i \in BillOf(o)
  BY <1>1, <1>2 DEF BillOf, ItemsOf
<1>5. i \notin RefundedLines(o)
  BY <1>3, ItemsAssumption DEF RefundedLines
<1>6. QED
  BY <1>4, <1>5 DEF ReturnedOf

LEMMA SettlementInit ==
  ASSUME Init
  PROVE  Settlement!Init
<1>1. \A o \in Orders : PhaseOf(o) = "open"
  BY DEF Init, PhaseOf
<1>2. \A o \in Orders : BillOf(o) \in SUBSET (Items \cup {DeliveryFee})
  BY DEF BillOf, ItemsOf
<1>3. \A o \in Orders : RefundedLines(o) = {}
  BY DEF Init, RefundedLines, ItemsOf
<1>4. QED
  BY <1>1, <1>2, <1>3 DEF Settlement!Init

LEMMA SettlementStep ==
  ASSUME Inv, ClosedReturnsAll', [Next]_vars
  PROVE  [Settlement!Next]_(Settlement!settlementVars)
<1>1. MoneyStep
  BY StepShape DEF Inv
<1>2. CASE Idle
  <2>1. \A o \in Orders : /\ PhaseOf(o)' = PhaseOf(o)
                          /\ BillOf(o)' = BillOf(o)
                          /\ RefundedLines(o)' = RefundedLines(o)
    BY <1>2 DEF Idle, moneyVars, PhaseOf, BillOf, RefundedLines, Online, ItemsOf
  <2>2. QED
    BY <2>1 DEF Settlement!settlementVars
<1>3. ASSUME NEW o \in Orders, Closing(o) \/ Moving(o) \/ ConvertToPickup(o)
      PROVE  [Settlement!Next]_(Settlement!settlementVars)
  <2>1. /\ \A p \in Orders : BillOf(p)' = BillOf(p)
        /\ \A p \in Orders \ {o} : PhaseOf(p)' = PhaseOf(p) /\ ReturnedOf(p)' = ReturnedOf(p)
        /\ ReturnedOf(o) \subseteq ReturnedOf(o)'
    BY <1>3, RowsOfStep DEF Inv
  <2>2. PhaseOf(o) = "open"
    BY <1>3 DEF Closing, Moving, ConvertToPickup, TerminalStatuses, PhaseOf
  <2>3. ReturnedOf(o)' \subseteq BillOf(o)
    BY <2>1 DEF ReturnedOf
  <2>4. CASE PhaseOf(o)' = "open"
    <3>. DEFINE L == ReturnedOf(o)' \ ReturnedOf(o)
                returned == [p \in Orders |-> ReturnedOf(p)]
    <3>1. L \in SUBSET (BillOf(o) \ ReturnedOf(o)) /\ ReturnedOf(o)' = ReturnedOf(o) \cup L
      BY <2>1, <2>3
    <3>2. [p \in Orders |-> ReturnedOf(p)'] = [returned EXCEPT ![o] = @ \cup L]
      BY <2>1, <3>1
    <3>3. /\ [p \in Orders |-> PhaseOf(p)'] = [p \in Orders |-> PhaseOf(p)]
          /\ [p \in Orders |-> BillOf(p)'] = [p \in Orders |-> BillOf(p)]
      BY <2>1, <2>2, <2>4
    <3>4. Settlement!GiveBack(o)
      BY <2>2, <3>1, <3>2, <3>3 DEF Settlement!GiveBack, ReturnedOf
    <3>5. QED
      BY <3>4 DEF Settlement!Next
  <2>5. CASE PhaseOf(o)' = "void"
    <3>1. ReturnedOf(o)' = BillOf(o)'
      BY <2>5 DEF ClosedReturnsAll
    <3>2. Settlement!Void(o)
      BY <2>1, <2>2, <2>5, <3>1 DEF Settlement!Void, ReturnedOf
    <3>3. QED
      BY <3>2 DEF Settlement!Next
  <2>6. CASE PhaseOf(o)' = "fulfilled"
    <3>1. status'[o] = "COMPLETED"
      BY <2>6 DEF PhaseOf
    <3>2. Moving(o)
      <4>1. ~ConvertToPickup(o)
        BY <3>1 DEF ConvertToPickup
      <4>2. ~Closing(o)
        BY <3>1 DEF Closing, FinalizeCancelledItems, Transition, ClosedStatus, TerminalStatuses,
                    Inv, TypeOK
      <4>3. QED
        BY <1>3, <4>1, <4>2
    <3>3. ReturnedOf(o)' = ReturnedOf(o)
      BY <3>2 DEF Moving, moneyVars, ReturnedOf, BillOf, RefundedLines, Online, ItemsOf
    <3>4. BillOf(o) # {} => ReturnedOf(o) # BillOf(o)
      BY <2>2, ActiveItemStaysBilled DEF PhaseOf
    <3>5. Settlement!Fulfil(o)
      BY <2>1, <2>2, <2>6, <3>3, <3>4 DEF Settlement!Fulfil, ReturnedOf
    <3>6. QED
      BY <3>5 DEF Settlement!Next
  <2>7. QED
    BY <2>4, <2>5, <2>6 DEF PhaseOf
<1>4. QED
  BY <1>1, <1>2, <1>3 DEF MoneyStep

\* Whatever sequence of handlers and sweeps runs on however many orders,
\* their money follows the abstract promise of OrderSettlement.
THEOREM SettlementIsImplemented == Spec => SettlementSpec
<1>1. Init => Settlement!Init
  BY SettlementInit
<1>2. Inv => ClosedReturnsAll
  BY InvClosedReturnsAll
<1>3. Inv /\ ClosedReturnsAll' /\ [Next]_vars => [Settlement!Next]_(Settlement!settlementVars)
  BY SettlementStep
<1>4. QED
  BY <1>1, <1>2, <1>3, InductiveInvariant, PTL DEF Spec, SettlementSpec, Settlement!Spec

----------------------------------------------------------------------------
\* The sweeps, with any number of ticks running.  A candidate of the failure
\* timeout is known to be old although its transaction does not look at the age:
\* an attempt is never uncounted, so an order that failed again is a second
\* failure, which the transaction refuses.
SweepTypes ==
  /\ TypeOK
  /\ confirmTodo \in [ConfirmTicks -> SUBSET Orders]
  /\ todo \in [ExceptionTicks -> SUBSET Orders]
  /\ failureTodo \in [ExceptionTicks -> SUBSET Orders]

TimedOut(o) ==
  /\ attempts[o] >= 1
  /\ status[o] = "DELIVERY_FAILED" /\ attempts[o] = 1 => failedAge[o] = Timeout

SweepInv == SweepTypes /\ \A t \in ExceptionTicks : \A o \in failureTodo[t] : TimedOut(o)

SweepEvents == {"branch_order.auto_confirmed_72h", "branch_order.confirm_reminder_48h"}
NoSweepEvent == \A p \in Orders : \A type \in SweepEvents : <<p, type>> \notin enqueued'

\* What a step may do to an order p that the sweeps deal with.
InTime(p) ==
  /\ Enqueues(p, "branch_order.auto_confirmed_72h") => deliveredAge[p] >= AutoConfirm /\ ~reported[p]
  /\ Enqueues(p, "branch_order.confirm_reminder_48h") =>
       deliveredAge[p] >= ConfirmReminder /\ ~reported[p] /\ ~reminded[p]
  /\ status[p] = "DELIVERY_FAILED" /\ status'[p] \in TerminalStatuses => attempts[p] = 1 /\ failedAge[p] = Timeout
OnTime == \A p \in Orders : InTime(p) /\ (TimedOut(p) => TimedOut(p)')

LEMMA OtherEvents ==
  ASSUME \/ enqueued' = {}
         \/ \E o \in Orders : \E type : Enqueue(o, {type}) /\ type \notin SweepEvents
  PROVE  NoSweepEvent
BY DEF Enqueue, NoSweepEvent

\* A step that leaves failures and their clock alone.
LEMMA LeavesFailures ==
  ASSUME TypeOK, NoSweepEvent, UNCHANGED <<attempts, failedAge>>,
         \/ UNCHANGED status
         \/ \E o \in Orders : \E s \in Statuses \ {"DELIVERY_FAILED"} :
              /\ status' = [status EXCEPT ![o] = s]
              /\ status[o] # "DELIVERY_FAILED" \/ s \notin TerminalStatuses
  PROVE  OnTime
<1>1. \A p \in Orders : /\ status'[p] = "DELIVERY_FAILED" => status[p] = "DELIVERY_FAILED"
                        /\ status[p] = "DELIVERY_FAILED" => status'[p] \notin TerminalStatuses
  BY DEF TypeOK, TerminalStatuses
<1> QED BY <1>1 DEF OnTime, InTime, TimedOut, NoSweepEvent, SweepEvents, Enqueues

LEMMA FinalizeLeaves ==
  ASSUME NEW o \in Orders, NEW S, FinalizeCancelledItems(o, S)
  PROVE  \/ UNCHANGED status
         \/ \E s \in {"REFUNDED", "CANCELLED"} : status' = [status EXCEPT ![o] = s]
BY DEF FinalizeCancelledItems, Transition, ClosedStatus

LEMMA ClosingsOnTime ==
  ASSUME TypeOK, NEW o \in Orders, NEW S, FinalizeCancelledItems(o, S), status[o] # "DELIVERY_FAILED", NoSweepEvent,
         UNCHANGED <<attempts, failedAge>>
  PROVE  OnTime
BY FinalizeLeaves, LeavesFailures DEF Statuses

LEMMA CancelsOnTime ==
  ASSUME TypeOK, NEW o \in Orders,
         \/ \E i \in Items : StaffCancelItem(o, i) \/ CustomerCancelItem(o, i)
         \/ StaffCancelOrder(o) \/ CustomerCancelOrder(o) \/ AdminForceCancel(o) \/ ApproveRefund(o)
         \/ ResolveTimeout(o, "SLOT_MISSED")
  PROVE  OnTime
<1>1. "branch_order.cancelled" \notin SweepEvents /\ "branch_order.refund_approved" \notin SweepEvents
      /\ TimeoutEvent(o) \notin SweepEvents
  BY DEF SweepEvents, TimeoutEvent
<1>2. ASSUME NEW i \in Items, NEW allowed \in SUBSET {"PLACED", "PREPARING"}, CancelItem(o, i, allowed) PROVE OnTime
  <2>1. NoSweepEvent
    BY <1>1, <1>2, OtherEvents DEF CancelItem
  <2> QED BY <1>2, <2>1, ClosingsOnTime DEF CancelItem
<1>3. ASSUME NEW allowed \in SUBSET {"PLACED", "PREPARING"}, CancelOrder(o, allowed) PROVE OnTime
  <2>1. NoSweepEvent
    BY <1>1, <1>3, OtherEvents DEF CancelOrder
  <2> QED BY <1>3, <2>1, ClosingsOnTime DEF CancelOrder, CloseWholeOrder
<1>4. CASE ApproveRefund(o)
  <2>1. NoSweepEvent
    BY <1>1, <1>4, OtherEvents DEF ApproveRefund
  <2> QED BY <1>4, <2>1, ClosingsOnTime DEF ApproveRefund, CloseWholeOrder
<1>5. CASE ResolveTimeout(o, "SLOT_MISSED")
  <2>1. NoSweepEvent
    BY <1>1, <1>5, OtherEvents DEF ResolveTimeout
  <2> QED BY <1>5, <2>1, ClosingsOnTime DEF ResolveTimeout, TimeoutAccepted, CloseWholeOrder
<1> QED BY <1>2, <1>3, <1>4, <1>5
        DEF StaffCancelItem, CustomerCancelItem, StaffCancelOrder, CustomerCancelOrder, AdminForceCancel

LEMMA MovesOnTime ==
  ASSUME TypeOK, NEW o \in Orders,
         \/ StartPreparation(o) \/ MarkSent(o) \/ \E operation \in Operations : ReadCodAmount(o, operation)
         \/ MarkDelivered(o) \/ PickupHandover(o) \/ AbortHandover(o) \/ RerequestConfirmation(o)
         \/ ConfirmReceived(o) \/ ReportNotReceived(o) \/ ConvertToPickup(o) \/ RequestRefund(o)
         \/ SendPrepReminder(o) \/ MarkSlotMissed(o)
  PROVE  OnTime
<1>1. NoSweepEvent
  <2>1. \/ enqueued' = {}
        \/ \E type \in {"branch_order.delivered_confirm_requested", "branch_order.confirm_rerequested",
                       "branch_order.not_received_reported", "branch_order.converted_to_pickup",
                       "branch_order.refund_requested", "branch_order.prep_reminder", "branch_order.slot_missed"} :
             Enqueue(o, {type})
    BY DEF StartPreparation, MarkSent, StaffStep, ReadCodAmount, MarkDelivered, PickupHandover,
       AbortHandover, RerequestConfirmation, ConfirmReceived, ReportNotReceived, ConvertToPickup, RequestRefund,
       SendPrepReminder, MarkSlotMissed
  <2> QED BY <2>1, OtherEvents DEF SweepEvents
<1>2. UNCHANGED <<attempts, failedAge>>
  BY DEF StartPreparation, MarkSent, StaffStep, ReadCodAmount, MarkDelivered, PickupHandover,
     AbortHandover, RerequestConfirmation, ConfirmReceived, ReportNotReceived, ConvertToPickup, RequestRefund,
     SendPrepReminder, MarkSlotMissed
<1>3. \/ UNCHANGED status
      \/ \E s \in Statuses \ {"DELIVERY_FAILED"} :
           status' = [status EXCEPT ![o] = s] /\ (status[o] # "DELIVERY_FAILED" \/ s \notin TerminalStatuses)
  <2>1. CASE StartPreparation(o) \/ MarkSent(o) \/ MarkDelivered(o) \/ RequestRefund(o)
    BY <2>1 DEF StartPreparation, MarkSent, StaffStep, MarkDelivered, RequestRefund, Transition, Statuses, TerminalStatuses
  <2>2. CASE PickupHandover(o) \/ ConfirmReceived(o)
    <3>1. \A c : ~CanTransition("DELIVERY_FAILED", "PICKED_UP", method[o], payment[o], c)
                 /\ ~CanTransition("DELIVERY_FAILED", "COMPLETED", method[o], payment[o], c)
      BY DEF CanTransition, Transitions, Rule
    <3> QED BY <2>2, <3>1 DEF PickupHandover, ConfirmReceived, Transition, Statuses
  <2>3. CASE \/ \E operation \in Operations : ReadCodAmount(o, operation)
             \/ AbortHandover(o) \/ RerequestConfirmation(o) \/ ReportNotReceived(o) \/ ConvertToPickup(o)
             \/ SendPrepReminder(o) \/ MarkSlotMissed(o)
    BY <2>3 DEF ReadCodAmount, AbortHandover, RerequestConfirmation, ReportNotReceived, ConvertToPickup,
       SendPrepReminder, MarkSlotMissed
  <2> QED BY <2>1, <2>2, <2>3
<1> QED BY <1>1, <1>2, <1>3, LeavesFailures

LEMMA FailureOnTime == ASSUME TypeOK, NEW o \in Orders, MarkDeliveryFailed(o) PROVE OnTime
<1>1. NoSweepEvent
  BY OtherEvents DEF MarkDeliveryFailed, SweepEvents
<1>2. status[o] = "SENT" /\ attempts' = [attempts EXCEPT ![o] = @ + 1]
  BY DEF MarkDeliveryFailed, CountAttempt
<1>3. \E s \in {"DELIVERY_FAILED", "REFUNDED", "CANCELLED", "SENT"} : status' = [status EXCEPT ![o] = s]
  <2>1. UNCHANGED status => status' = [status EXCEPT ![o] = "SENT"]
    BY <1>2 DEF TypeOK
  <2> QED BY <2>1, FinalizeLeaves DEF MarkDeliveryFailed, CloseWholeOrder, Transition
<1>4. \A p \in Orders \ {o} : status'[p] = status[p] /\ attempts'[p] = attempts[p] /\ failedAge'[p] = failedAge[p]
  BY <1>2, <1>3 DEF TypeOK, MarkDeliveryFailed
<1>5. attempts'[o] = attempts[o] + 1 /\ attempts[o] \in Nat /\ \A p \in Orders : attempts[p] \in Nat
  BY <1>2 DEF TypeOK
<1>6. TimedOut(o) => TimedOut(o)'
  BY <1>5 DEF TimedOut
<1>7. \A p \in Orders \ {o} : TimedOut(p) => TimedOut(p)'
  BY <1>4 DEF TimedOut
<1>8. \A p \in Orders : status[p] = "DELIVERY_FAILED" => status'[p] \notin TerminalStatuses
  BY <1>2, <1>4 DEF TerminalStatuses
<1> QED BY <1>1, <1>6, <1>7, <1>8 DEF OnTime, InTime, NoSweepEvent, SweepEvents, Enqueues

LEMMA RescheduleOnTime == ASSUME TypeOK, NEW o \in Orders, NEW s \in Slots, RescheduleOrder(o, s) PROVE OnTime
<1>1. NoSweepEvent
  <2>1. Enqueue(o, {"branch_order.rescheduled"})
    BY DEF RescheduleOrder
  <2> QED BY <2>1, OtherEvents DEF SweepEvents
<1>2. UNCHANGED attempts /\ status'[o] \in {"SENT", "PLACED", "PREPARING"}
  BY DEF RescheduleOrder, MayReschedule, Transition, TypeOK
<1>3. \A p \in Orders \ {o} : status'[p] = status[p] /\ failedAge'[p] = failedAge[p]
  BY DEF RescheduleOrder, Transition, StopClocks, TypeOK
<1>4. \A p \in Orders : TimedOut(p) => TimedOut(p)'
  BY <1>2, <1>3 DEF TimedOut
<1>5. \A p \in Orders : status[p] = "DELIVERY_FAILED" => status'[p] \notin TerminalStatuses
  BY <1>2, <1>3 DEF TerminalStatuses
<1> QED BY <1>1, <1>4, <1>5 DEF OnTime, InTime, NoSweepEvent, SweepEvents, Enqueues

LEMMA ReconcileOnTime == ASSUME TypeOK, NEW o \in Orders, ReconcileOne(o) PROVE OnTime
<1>1. status[o] = "DELIVERED" /\ deliveredAge[o] # None /\ ~reported[o] /\ UNCHANGED <<attempts, failedAge>>
  BY DEF ReconcileOne, AutoConfirmDue, ConfirmReminderDue, AwaitingConfirmation
<1>2. \E s \in {"COMPLETED", "DELIVERED"} : status' = [status EXCEPT ![o] = s]
  <2>1. UNCHANGED status => status' = [status EXCEPT ![o] = "DELIVERED"]
    BY <1>1 DEF TypeOK
  <2> QED BY <2>1 DEF ReconcileOne, Transition
<1>3. \A p \in Orders : /\ status'[p] = "DELIVERY_FAILED" => status[p] = "DELIVERY_FAILED"
                        /\ status[p] = "DELIVERY_FAILED" => status'[p] \notin TerminalStatuses
  BY <1>1, <1>2 DEF TypeOK, TerminalStatuses
<1>4. ASSUME NEW p \in Orders, Enqueues(p, "branch_order.auto_confirmed_72h") PROVE deliveredAge[p] >= AutoConfirm /\ ~reported[p]
  <2>1. p = o /\ AutoConfirmDue(o)
    BY <1>4 DEF Enqueues, ReconcileOne, Enqueue
  <2> QED BY <1>1, <2>1 DEF AutoConfirmDue
<1>5. ASSUME NEW p \in Orders, Enqueues(p, "branch_order.confirm_reminder_48h")
      PROVE  deliveredAge[p] >= ConfirmReminder /\ ~reported[p] /\ ~reminded[p]
  <2>1. p = o /\ ConfirmReminderDue(o)
    BY <1>5 DEF Enqueues, ReconcileOne, Enqueue
  <2> QED BY <1>1, <2>1, TimeAssumption DEF ConfirmReminderDue
<1>6. \A p \in Orders : TimedOut(p) => TimedOut(p)'
  BY <1>1, <1>3 DEF TimedOut
<1> QED BY <1>3, <1>4, <1>5, <1>6 DEF OnTime, InTime

LEMMA TickOnTime == ASSUME TypeOK, Tick PROVE OnTime
<1>1. NoSweepEvent
  BY OtherEvents DEF Tick
<1>2. UNCHANGED <<status, attempts>> /\ \A p \in Orders : failedAge[p] = Timeout => failedAge'[p] = Timeout
  BY DEF Tick, Older
<1>3. \A p \in Orders : status[p] = "DELIVERY_FAILED" => status'[p] \notin TerminalStatuses
  BY <1>2 DEF TerminalStatuses
<1> QED BY <1>1, <1>2, <1>3 DEF OnTime, InTime, TimedOut, NoSweepEvent, SweepEvents, Enqueues

LEMMA TimeoutOnTime ==
  ASSUME TypeOK, NEW o \in Orders, TimedOut(o), ResolveTimeout(o, "DELIVERY_FAILURE_TIMEOUT") PROVE OnTime
<1>1. NoSweepEvent
  <2>1. Enqueue(o, {TimeoutEvent(o)}) /\ TimeoutEvent(o) \notin SweepEvents
    BY DEF ResolveTimeout, TimeoutEvent, SweepEvents
  <2> QED BY <2>1, OtherEvents
<1>2. status[o] = "DELIVERY_FAILED" /\ attempts[o] = 1 /\ failedAge[o] = Timeout /\ UNCHANGED <<attempts, failedAge>>
  BY DEF ResolveTimeout, TimeoutAccepted, TimedOut
<1>3. UNCHANGED status \/ \E s \in {"REFUNDED", "CANCELLED"} : status' = [status EXCEPT ![o] = s]
  BY FinalizeLeaves DEF ResolveTimeout, CloseWholeOrder
<1>4. \A p \in Orders \ {o} : status'[p] = status[p]
  BY <1>3 DEF TypeOK
<1>5. \A p \in Orders : TimedOut(p) => TimedOut(p)'
  BY <1>2, <1>4 DEF TimedOut
<1>6. \A p \in Orders \ {o} : status[p] = "DELIVERY_FAILED" => status'[p] \notin TerminalStatuses
  BY <1>4 DEF TerminalStatuses
<1> QED BY <1>1, <1>2, <1>5, <1>6 DEF OnTime, InTime, NoSweepEvent, SweepEvents, Enqueues

LEMMA SkipOnTime == ASSUME TypeOK, Skip PROVE OnTime /\ TypeOK'
<1>1. NoSweepEvent
  BY OtherEvents DEF Skip
<1>2. OnTime
  BY <1>1, LeavesFailures DEF Skip
<1>3. TypeOK'
  BY DEF Skip, TypeOK, moneyVars, codVars, confirmVars, slotVars, termVars
<1> QED BY <1>2, <1>3

\* A step of BranchOrder but the failure timeout, for which the tick answers.
LEMMA NextOnTime ==
  ASSUME TypeOK,
         \/ UserNext \/ Tick
         \/ \E o \in Orders : ReconcileOne(o) \/ SendPrepReminder(o) \/ MarkSlotMissed(o) \/ ResolveTimeout(o, "SLOT_MISSED")
  PROVE  OnTime /\ TypeOK'
<1>1. Next
  BY DEF Next, SystemNext, TimeoutReasons
<1>2. TypeOK'
  BY <1>1, TypeStep
<1>3. ASSUME NEW o \in Orders, StaffNext(o) \/ CustomerNext(o) \/ AdminForceCancel(o) PROVE OnTime
  BY <1>3, CancelsOnTime, MovesOnTime, FailureOnTime, RescheduleOnTime DEF StaffNext, CustomerNext
<1> QED BY <1>2, <1>3, CancelsOnTime, MovesOnTime, ReconcileOnTime, TickOnTime DEF UserNext

LEMMA CandidatesTimedOut == ASSUME TypeOK, NEW o \in FailureTimeoutCandidates PROVE o \in Orders /\ TimedOut(o)
BY DEF FailureTimeoutCandidates, TimedOut

LEMMA EnterKeeps ==
  ASSUME SweepInv, NEW t \in ExceptionTicks, NEW from, NEW to, NEW candidates \in SUBSET Orders,
         NEW failures \in SUBSET FailureTimeoutCandidates, Enter(t, from, to, candidates, failures)
  PROVE  OnTime /\ SweepInv'
<1>1. OnTime /\ TypeOK'
  BY SkipOnTime DEF Enter, SweepInv, SweepTypes
<1>2. failures \in SUBSET Orders
  BY DEF FailureTimeoutCandidates
<1>3. SweepTypes'
  BY <1>1, <1>2 DEF Enter, SweepInv, SweepTypes
<1>4. ASSUME NEW v \in ExceptionTicks, NEW o \in failureTodo'[v] PROVE TimedOut(o)'
  <2>1. o \in failures \/ o \in failureTodo[v]
    BY <1>4 DEF Enter, SweepInv, SweepTypes
  <2>2. o \in Orders /\ TimedOut(o)
    BY <2>1, CandidatesTimedOut DEF SweepInv, SweepTypes
  <2> QED BY <1>1, <2>2 DEF OnTime
<1> QED BY <1>1, <1>3, <1>4 DEF SweepInv

\* A tick works off a candidate, or somebody else moves.
LEMMA WorksOff ==
  ASSUME SweepInv, OnTime, TypeOK',
         \/ UNCHANGED confirmTodo
         \/ \E t \in ConfirmTicks : \E C \in SUBSET Orders : confirmTodo' = [confirmTodo EXCEPT ![t] = C],
         \/ UNCHANGED todo
         \/ \E t \in ExceptionTicks : \E C \in SUBSET Orders : todo' = [todo EXCEPT ![t] = C],
         \/ UNCHANGED failureTodo
         \/ \E t \in ExceptionTicks : \E C \in SUBSET failureTodo[t] : failureTodo' = [failureTodo EXCEPT ![t] = C]
  PROVE  SweepInv'
<1>1. SweepTypes'
  BY DEF SweepInv, SweepTypes
<1>2. ASSUME NEW v \in ExceptionTicks, NEW o \in failureTodo'[v] PROVE TimedOut(o)'
  <2>1. o \in failureTodo[v]
    BY <1>2 DEF SweepInv, SweepTypes
  <2>2. o \in Orders /\ TimedOut(o)
    BY <2>1 DEF SweepInv, SweepTypes
  <2> QED BY <2>2 DEF OnTime
<1> QED BY <1>1, <1>2 DEF SweepInv

LEMMA ConfirmTicksKeep ==
  ASSUME SweepInv, NEW t \in ConfirmTicks, StartConfirmTick(t) \/ ConfirmStep(t) PROVE OnTime /\ SweepInv'
<1>1. CASE StartConfirmTick(t)
  <2>1. Skip /\ UNCHANGED <<todo, failureTodo>> /\ confirmTodo' = [confirmTodo EXCEPT ![t] = ConfirmCandidates]
    BY <1>1 DEF StartConfirmTick, Skip
  <2>2. ConfirmCandidates \in SUBSET Orders
    BY DEF ConfirmCandidates
  <2>3. OnTime /\ TypeOK'
    BY <2>1, SkipOnTime DEF SweepInv, SweepTypes
  <2> QED BY <2>1, <2>2, <2>3, WorksOff
<1>2. CASE ConfirmStep(t)
  <2>1. PICK o \in confirmTodo[t] : /\ confirmTodo' = [confirmTodo EXCEPT ![t] = @ \ {o}]
                                    /\ ReconcileOne(o) \/ Skip
                                    /\ UNCHANGED <<todo, failureTodo>>
    BY <1>2 DEF ConfirmStep
  <2>2. o \in Orders /\ confirmTodo[t] \ {o} \in SUBSET Orders
    BY DEF SweepInv, SweepTypes
  <2>3. OnTime /\ TypeOK'
    BY <2>1, <2>2, SkipOnTime, NextOnTime DEF SweepInv, SweepTypes
  <2> QED BY <2>1, <2>2, <2>3, WorksOff
<1> QED BY <1>1, <1>2

LEMMA ExceptionTicksKeep ==
  ASSUME SweepInv, NEW t \in ExceptionTicks, ExceptionStep(t) PROVE OnTime /\ SweepInv'
<1>1. CASE StartExceptionTick(t) \/ QuerySlotMissed(t) \/ QueryTimeouts(t) \/ EndExceptionTick(t)
  <2>1. PrepCandidates \in SUBSET Orders /\ SlotMissedCandidates \in SUBSET Orders /\ SlotTimeoutCandidates \in SUBSET Orders
    BY DEF PrepCandidates, SlotMissedCandidates, SlotTimeoutCandidates
  <2>2. {} \in SUBSET FailureTimeoutCandidates /\ {} \in SUBSET Orders
        /\ FailureTimeoutCandidates \in SUBSET FailureTimeoutCandidates
    OBVIOUS
  <2> QED BY <1>1, <2>1, <2>2, EnterKeeps DEF StartExceptionTick, QuerySlotMissed, QueryTimeouts, EndExceptionTick
<1>2. CASE PrepStep(t) \/ SlotStep(t) \/ SlotTimeoutStep(t)
  <2>1. PICK o \in Orders : /\ todo' = [todo EXCEPT ![t] = @ \ {o}]
                            /\ UNCHANGED <<confirmTodo, failureTodo>>
                            /\ SendPrepReminder(o) \/ MarkSlotMissed(o) \/ ResolveTimeout(o, "SLOT_MISSED") \/ Skip
    BY <1>2 DEF PrepStep, SlotStep, SlotTimeoutStep, Resolve, ResolveOrSkip
  <2>2. todo[t] \ {o} \in SUBSET Orders
    BY DEF SweepInv, SweepTypes
  <2>3. OnTime /\ TypeOK'
    BY <2>1, SkipOnTime, NextOnTime DEF SweepInv, SweepTypes
  <2> QED BY <2>1, <2>2, <2>3, WorksOff
<1>3. CASE FailureTimeoutStep(t)
  <2>1. PICK o \in failureTodo[t] : /\ failureTodo' = [failureTodo EXCEPT ![t] = @ \ {o}]
                                    /\ UNCHANGED <<confirmTodo, todo>>
                                    /\ ResolveTimeout(o, "DELIVERY_FAILURE_TIMEOUT") \/ Skip
    BY <1>3 DEF FailureTimeoutStep, ResolveOrSkip
  <2>2. o \in Orders /\ TimedOut(o) /\ failureTodo[t] \ {o} \in SUBSET failureTodo[t] /\ TypeOK
    BY DEF SweepInv, SweepTypes
  <2>3. OnTime /\ TypeOK'
    <3>1. CASE ResolveTimeout(o, "DELIVERY_FAILURE_TIMEOUT")
      <4>1. Next
        BY <2>2, <3>1 DEF Next, SystemNext, TimeoutReasons
      <4> QED BY <2>2, <3>1, <4>1, TimeoutOnTime, TypeStep
    <3>2. CASE Skip
      BY <2>2, <3>2, SkipOnTime
    <3> QED BY <2>1, <3>1, <3>2
  <2> QED BY <2>1, <2>2, <2>3, WorksOff
<1> QED BY <1>1, <1>2, <1>3 DEF ExceptionStep

LEMMA SweepStep == SweepInv /\ [SweepNext]_sweepVars => SweepInv' /\ (UNCHANGED sweepVars \/ OnTime)
<1> SUFFICES ASSUME SweepInv, [SweepNext]_sweepVars PROVE SweepInv' /\ (UNCHANGED sweepVars \/ OnTime)
  OBVIOUS
<1>1. CASE (UserNext \/ ReconcileOnRead \/ Tick) /\ UNCHANGED tickVars
  <2>1. OnTime /\ TypeOK'
    BY <1>1, NextOnTime DEF ReconcileOnRead, SweepInv, SweepTypes
  <2> QED BY <1>1, <2>1, WorksOff DEF tickVars
<1>2. CASE UNCHANGED sweepVars
  <2>1. SweepTypes' /\ UNCHANGED <<status, attempts, failedAge, failureTodo>>
    BY <1>2, TypeStep DEF sweepVars, tickVars, vars, SweepInv, SweepTypes
  <2> QED BY <1>2, <2>1 DEF SweepInv, TimedOut
<1> QED BY <1>1, <1>2, ConfirmTicksKeep, ExceptionTicksKeep DEF SweepNext

\* No sweep closes or reminds an order before its time, for any number of orders
\* and of ticks running at once, however old their candidates are
\* (reconcileOne(), resolveTimeoutOnce()).
THEOREM DeadlinesAreKept == SweepSpec => SweepsKeepDeadlines
<1>1. SweepInit => SweepInv
  BY TypeInit DEF SweepInit, SweepInv, SweepTypes
<1>2. OnTime => \A o \in Orders : InTime(o)
  BY DEF OnTime
<1>3. SweepInv /\ [SweepNext]_sweepVars =>
        [\A o \in Orders :
           /\ Enqueues(o, "branch_order.auto_confirmed_72h") => deliveredAge[o] >= AutoConfirm /\ ~reported[o]
           /\ Enqueues(o, "branch_order.confirm_reminder_48h") =>
                deliveredAge[o] >= ConfirmReminder /\ ~reported[o] /\ ~reminded[o]
           /\ status[o] = "DELIVERY_FAILED" /\ status'[o] \in TerminalStatuses =>
                failedAge[o] = Timeout /\ attempts[o] = 1]_sweepVars
  BY <1>2, SweepStep DEF InTime
<1>4. SweepInv /\ [SweepNext]_sweepVars => SweepInv'
  BY SweepStep
<1> QED BY <1>1, <1>3, <1>4, PTL DEF SweepSpec, SweepsKeepDeadlines
============================================================================
