--------------------------- MODULE DeliverySlots ---------------------------
(***************************************************************************)
(* Capacity of the delivery calendar.  A slot is a delivery window on one  *)
(* date; its capacity is used by the unexpired checkout_reservation_slots  *)
(* rows and the active branch orders on it.  CheckoutService.reserve(),    *)
(* confirm() and cancelReservation(), the reschedule of an order and the   *)
(* owner's DeliveryWindowsController compete for it.                       *)
(*                                                                         *)
(* Locks: reserve(), reschedule() and the changes of a window hold the     *)
(* window row FOR UPDATE from before they look until they commit, so each  *)
(* is one step once it has that lock.  confirm() takes no lock on the      *)
(* window but the FOR KEY SHARE of its INSERT, and holds its reservation   *)
(* row from its expiry check to its end: it is three steps.  A reservation *)
(* has one DELIVERY group; its orders' other states are BranchOrder's.     *)
(***************************************************************************)
EXTENDS Integers, FiniteSets

CONSTANTS
  Windows,      \* delivery_windows rows
  Dates,        \* the dates that can be booked, all on the windows' day
  Checkouts,    \* checkout_reservations rows, and the branch order of each
  Capacities,   \* capacities an owner may give a window
  Exceptions,   \* what an owner may make of one date: a capacityOverride, Closed
  Closed,       \* isClosed
  Hours,        \* start and end time of a window
  Null          \* SQL NULL, and a row that does not exist

ASSUME CalendarAssumption ==
  /\ Capacities \subseteq Nat \ {0}
  /\ Exceptions \subseteq (Nat \ {0}) \cup {Closed}
  /\ Closed \notin Nat
  /\ IsFiniteSet(Checkouts)
  /\ Null \notin Hours \cup Nat \cup (Windows \X Dates) \cup {Closed}

VARIABLES
  capacity,    \* DeliveryWindow.capacity, Null once the window is deleted
  hours,       \* DeliveryWindow.startMinute and endMinute
  exception,   \* DeliveryWindowException of a slot, or Null
  hold,        \* "none" before it is made, "held", "gone" once deleted
  lapsed,      \* expiresAt is in the past
  slot,        \* its CheckoutReservationSlot row
  tx,          \* its open reserve() or confirm() transaction
  order,       \* deliveryWindowId and scheduledDate of its branch order
  active,      \* the branch order exists and is not terminal
  promised     \* hours of the slot when the customer booked it

calendar == <<capacity, hours, exception>>
orderVars == <<order, active>>
slotVars == <<calendar, hold, lapsed, slot, tx, orderVars, promised>>

Slots == Windows \X Dates
WindowOf(s) == s[1]

SlotsInit ==
  /\ capacity \in [Windows -> Capacities]
  /\ hours \in [Windows -> Hours]
  /\ exception = [s \in Slots |-> Null]
  /\ hold = [r \in Checkouts |-> "none"]
  /\ lapsed = [r \in Checkouts |-> FALSE]
  /\ slot = [r \in Checkouts |-> Null]
  /\ tx = [r \in Checkouts |-> Null]
  /\ order = [r \in Checkouts |-> Null]
  /\ active = [r \in Checkouts |-> FALSE]
  /\ promised = [r \in Checkouts |-> Null]

----------------------------------------------------------------------------
\* Locks and counts

Confirming(r) == tx[r] # Null /\ tx[r].at \in {"checked", "inserted"}

\* SELECT ... FOR UPDATE of the reservation row would wait.
RowLocked(r) == Confirming(r)

\* lockDeliveryWindowRow() would wait for the KEY SHARE of an insert.
WindowShared(w) ==
  \E r \in Checkouts :
    tx[r] # Null /\ tx[r].at = "inserted" /\ WindowOf(tx[r].slot) = w

Exists(w) == capacity[w] # Null

LiveSlots(s) == {r \in Checkouts : slot[r] = s /\ ~lapsed[r]}
ActiveOrders(s) == {r \in Checkouts : order[r] = s /\ active[r]}
Booked(s) == Cardinality(LiveSlots(s)) + Cardinality(ActiveOrders(s))

EffectiveCapacity(s) ==
  IF exception[s] = Null THEN capacity[WindowOf(s)] ELSE exception[s]

\* Slip: active orders are forgotten in the count.
CountsHoldsOnly(s, moving) ==
  /\ Exists(WindowOf(s))
  /\ exception[s] # Closed
  /\ Cardinality(LiveSlots(s)) < EffectiveCapacity(s)

\* Whether the slot takes one more, the order being moved not counted.
HasRoom(s, moving) ==
  /\ Exists(WindowOf(s))
  /\ exception[s] # Closed
  /\ Cardinality(LiveSlots(s)) + Cardinality(ActiveOrders(s) \ moving)
       < EffectiveCapacity(s)

----------------------------------------------------------------------------
\* CheckoutService

\* reserve() reads which expired holds it must wait for ...
DiscoverExpired(r, s) ==
  /\ hold[r] = "none"
  /\ tx[r] = Null
  /\ Exists(WindowOf(s))
  /\ tx' = [tx EXCEPT ![r] =
       [at |-> "discovered", slot |-> s,
        found |-> {x \in Checkouts : slot[x] = s /\ lapsed[x]}]]
  /\ UNCHANGED <<calendar, hold, lapsed, slot, orderVars, promised>>

\* ... then locks them and the window, drops the slot rows expired by now,
\* counts and inserts its own.
ReserveSlot(r) ==
  /\ tx[r] # Null
  /\ tx[r].at = "discovered"
  /\ \A x \in tx[r].found : ~RowLocked(x)
  /\ LET s == tx[r].slot
     IN  /\ ~WindowShared(WindowOf(s))
         /\ HasRoom(s, {})
         /\ slot' = [x \in Checkouts |->
              IF x = r THEN s
              ELSE IF slot[x] = s /\ lapsed[x] THEN Null ELSE slot[x]]
         /\ promised' = [promised EXCEPT ![r] = hours[WindowOf(s)]]
  /\ hold' = [hold EXCEPT ![r] = "held"]
  /\ tx' = [tx EXCEPT ![r] = Null]
  /\ UNCHANGED <<calendar, lapsed, orderVars>>

\* SLOT_CAPACITY_EXCEEDED, SLOT_CLOSED, or any other refusal: rolled back.
ReserveRefused(r) ==
  /\ tx[r] # Null
  /\ tx[r].at = "discovered"
  /\ tx' = [tx EXCEPT ![r] = Null]
  /\ UNCHANGED <<calendar, hold, lapsed, slot, orderVars, promised>>

\* Deletes the reservation row; its slot row goes with it.
DropReservation(r) ==
  /\ hold[r] = "held"
  /\ ~RowLocked(r)
  /\ hold' = [hold EXCEPT ![r] = "gone"]
  /\ slot' = [slot EXCEPT ![r] = Null]
  /\ UNCHANGED <<calendar, lapsed, tx, orderVars, promised>>

\* cancelReservation() at any time, or confirm() of an expired hold
CancelHold(r) == DropReservation(r)

\* confirm() locks the reservation, finds it unexpired and reads its slot.
CheckHold(r) ==
  /\ hold[r] = "held"
  /\ ~RowLocked(r)
  /\ ~lapsed[r]
  /\ tx' = [tx EXCEPT ![r] = [at |-> "checked", slot |-> slot[r], found |-> {}]]
  /\ UNCHANGED <<calendar, hold, lapsed, slot, orderVars, promised>>

\* It takes the payment and inserts the branch order.
ConfirmInsert(r) ==
  /\ tx[r] # Null
  /\ tx[r].at = "checked"
  /\ Exists(WindowOf(tx[r].slot))
  /\ tx' = [tx EXCEPT ![r].at = "inserted"]
  /\ UNCHANGED <<calendar, hold, lapsed, slot, orderVars, promised>>

ConfirmCommit(r) ==
  /\ tx[r] # Null
  /\ tx[r].at = "inserted"
  /\ order' = [order EXCEPT ![r] = tx[r].slot]
  /\ active' = [active EXCEPT ![r] = TRUE]
  /\ hold' = [hold EXCEPT ![r] = "gone"]
  /\ slot' = [slot EXCEPT ![r] = Null]
  /\ tx' = [tx EXCEPT ![r] = Null]
  /\ UNCHANGED <<calendar, lapsed, promised>>

\* A price changed, the card was declined, the process died: rolled back.
ConfirmRolledBack(r) ==
  /\ Confirming(r)
  /\ tx' = [tx EXCEPT ![r] = Null]
  /\ UNCHANGED <<calendar, hold, lapsed, slot, orderVars, promised>>

----------------------------------------------------------------------------
\* Branch orders

\* BranchOrderRescheduleService.reschedule()
Reschedule(r, s) ==
  /\ active[r]
  /\ ~WindowShared(WindowOf(s))
  /\ HasRoom(s, {r})
  /\ order' = [order EXCEPT ![r] = s]
  /\ promised' = [promised EXCEPT ![r] = hours[WindowOf(s)]]
  /\ UNCHANGED <<calendar, hold, lapsed, slot, tx, active>>

\* The order reaches a terminal status (see BranchOrder).
OrderEnds(r) ==
  /\ active[r]
  /\ active' = [active EXCEPT ![r] = FALSE]
  /\ UNCHANGED <<calendar, hold, lapsed, slot, tx, order, promised>>

----------------------------------------------------------------------------
\* DeliveryWindowsController

HasActiveOrders(w) == \E r \in Checkouts : active[r] /\ WindowOf(order[r]) = w
HasOrderHistory(w) ==
  \E r \in Checkouts : order[r] # Null /\ WindowOf(order[r]) = w
HasSlotRows(w) == \E r \in Checkouts : slot[r] # Null /\ WindowOf(slot[r]) = w

\* Slip: a live hold is no reason to refuse.
IgnoresLiveHolds(w) == FALSE

HasLiveHolds(w) ==
  \E r \in Checkouts : slot[r] # Null /\ ~lapsed[r] /\ WindowOf(slot[r]) = w

UpdateWindow(w, h, c) ==
  /\ Exists(w)
  /\ ~WindowShared(w)
  /\ ~HasActiveOrders(w)
  /\ ~HasLiveHolds(w)
  /\ hours' = [hours EXCEPT ![w] = h]
  /\ capacity' = [capacity EXCEPT ![w] = c]
  /\ UNCHANGED <<exception, hold, lapsed, slot, tx, orderVars, promised>>

\* An expired hold's row refuses too: its foreign key is ON DELETE RESTRICT.
RemoveWindow(w) ==
  /\ Exists(w)
  /\ ~WindowShared(w)
  /\ ~HasOrderHistory(w)
  /\ ~HasSlotRows(w)
  /\ capacity' = [capacity EXCEPT ![w] = Null]
  /\ exception' = [s \in Slots |-> IF WindowOf(s) = w THEN Null ELSE exception[s]]
  /\ UNCHANGED <<hours, hold, lapsed, slot, tx, orderVars, promised>>

CreateException(s, x) ==
  /\ Exists(WindowOf(s))
  /\ exception[s] = Null
  /\ exception' = [exception EXCEPT ![s] = x]
  /\ UNCHANGED <<capacity, hours, hold, lapsed, slot, tx, orderVars, promised>>

RemoveException(s) ==
  /\ exception[s] # Null
  /\ exception' = [exception EXCEPT ![s] = Null]
  /\ UNCHANGED <<capacity, hours, hold, lapsed, slot, tx, orderVars, promised>>

----------------------------------------------------------------------------
\* Ten minutes are over, which may well be while confirm() is running.
HoldExpires(r) ==
  /\ hold[r] = "held"
  /\ ~lapsed[r]
  /\ lapsed' = [lapsed EXCEPT ![r] = TRUE]
  /\ UNCHANGED <<calendar, hold, slot, tx, orderVars, promised>>

CheckoutStep(r) ==
  \/ \E s \in Slots : DiscoverExpired(r, s)
  \/ ReserveSlot(r) \/ ReserveRefused(r)
  \/ CancelHold(r)
  \/ CheckHold(r) \/ ConfirmInsert(r) \/ ConfirmCommit(r) \/ ConfirmRolledBack(r)
  \/ HoldExpires(r)

OrderStep(r) == OrderEnds(r) \/ \E s \in Slots : Reschedule(r, s)

OwnerStep(w) ==
  \/ \E h \in Hours, c \in Capacities : UpdateWindow(w, h, c)
  \/ RemoveWindow(w)
  \/ \E d \in Dates :
       \/ \E x \in Exceptions : CreateException(<<w, d>>, x)
       \/ RemoveException(<<w, d>>)

SlotsNext ==
  \/ \E r \in Checkouts : CheckoutStep(r) \/ OrderStep(r)
  \/ \E w \in Windows : OwnerStep(w)

SlotsSpec == SlotsInit /\ [][SlotsNext]_slotVars

----------------------------------------------------------------------------
\* Properties

\* A hold that expired after confirm() had found it unexpired: others no
\* longer count it, and its order appears all the same.
LateCommit(r) == lapsed[r] /\ Confirming(r) /\ ~active[r] /\ active'[r]

\* No step books a slot beyond the capacity it has then, nor on a date that
\* is closed: neither a new hold, nor an order that is moved, nor a hold that
\* becomes an order while others take what it seems to have given up.  The
\* one exception is the late confirm, which looks at no capacity
\* (reserveDeliverySlotAlreadyLocked, reschedule, confirm).
BookingRespectsCapacity ==
  [][\A s \in Slots : Booked(s)' > Booked(s)
       => \/ /\ exception'[s] # Closed
             /\ Booked(s)' <= EffectiveCapacity(s)'
          \/ \E r \in Checkouts : LateCommit(r) /\ order'[r] = s]_slotVars

\* "The customer mid-checkout was promised this exact slot": whoever holds a
\* slot or has ordered on it finds the window there and its hours unchanged,
\* whatever the owner edits or deletes meanwhile.  Only the hours of an order
\* whose hold expired during its confirm() may have been edited under it
\* (assertNoActiveOrders, assertNoActiveReservationSlots).
PromisedHoursKept ==
  \A r \in Checkouts :
    /\ active[r] => /\ Exists(WindowOf(order[r]))
                    /\ lapsed[r] \/ hours[WindowOf(order[r])] = promised[r]
    /\ slot[r] # Null /\ ~lapsed[r]
         => /\ Exists(WindowOf(slot[r]))
            /\ hours[WindowOf(slot[r])] = promised[r]
=============================================================================
