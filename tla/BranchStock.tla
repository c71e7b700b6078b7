---------------------------- MODULE BranchStock ----------------------------
(***************************************************************************)
(* The stock of branches: branch_stock.quantity and reservedQuantity, the  *)
(* holds that make up reservedQuantity (checkout reservations of ten       *)
(* minutes, exchanges approved for a day) and everything that moves them.  *)
(*                                                                         *)
(* Expiry is lazy: the items of an expired reservation keep their units    *)
(* until some transaction needs that stock row and sweeps them.  Such a    *)
(* transaction, a job, first queries the expired reservations on its keys  *)
(* without a lock (Begin...), then locks those reservations and the stock  *)
(* rows, reads their items again, releases them and does its own work.     *)
(* From its locks to its commit nothing can interleave, so that is one     *)
(* step.  A stock row that does not exist is a row of zero units.          *)
(***************************************************************************)
EXTENDS Integers, FiniteSets

CONSTANTS
  Keys,         \* (branch, offer variant) pairs
  Reservations, \* checkout_reservations rows
  Exchanges,    \* returns with desiredOutcome EXCHANGE
  Jobs,         \* transactions that may be open together
  Wants,        \* what a checkout may ask for: units per key
  Units,        \* units of a recorded movement or a restocked return
  Replacement,  \* replacement variant at its branch, per exchange
  Original,     \* the variant that comes back, at the same branch
  MaxQuantity,  \* bound on the units added to a key
  None

ASSUME StockAssumption ==
  /\ IsFiniteSet(Keys) /\ IsFiniteSet(Reservations) /\ IsFiniteSet(Exchanges)
  /\ Wants \subseteq [Keys -> Nat]
  /\ \A want \in Wants : \E k \in Keys : want[k] > 0
  /\ Units \subseteq Nat \ {0}
  /\ Replacement \in [Exchanges -> Keys]
  /\ Original \in [Exchanges -> Keys]
  /\ \A x \in Exchanges : Replacement[x] # Original[x]
  /\ MaxQuantity \in Nat

VARIABLES
  quantity,    \* branch_stock.quantity
  reserved,    \* branch_stock.reservedQuantity
  logged,      \* sum of quantityDelta over the stock_movements rows
  reservation, \* "none" before it is made, "held", "gone" once deleted
  expired,     \* expiresAt is in the past
  items,       \* units in its checkout_reservation_items rows, per key
  wanted,      \* units the customer reserved
  confirming,  \* a confirm() call has passed its first expiry check
  placed,      \* its orders exist
  bought,      \* units in its orders' uncancelled branch_order_items
  exchange,    \* "requested", "held" with its code, or "closed"
  job          \* the open transaction and the expired reservations it saw

stockRow == <<quantity, reserved, logged>>
orders == <<placed, bought>>
stockVars == <<stockRow, reservation, expired, items, wanted, confirming, orders,
               exchange, job>>

Nothing == [k \in Keys |-> 0]
Only(k, n) == [Nothing EXCEPT ![k] = n]

Init ==
  /\ quantity = Nothing
  /\ reserved = Nothing
  /\ logged = Nothing
  /\ reservation = [r \in Reservations |-> "none"]
  /\ expired = [r \in Reservations |-> FALSE]
  /\ items = [r \in Reservations |-> Nothing]
  /\ wanted = [r \in Reservations |-> Nothing]
  /\ confirming = [r \in Reservations |-> FALSE]
  /\ placed = [r \in Reservations |-> FALSE]
  /\ bought = [r \in Reservations |-> Nothing]
  /\ exchange = [x \in Exchanges |-> "requested"]
  /\ job = [j \in Jobs |-> None]

----------------------------------------------------------------------------
\* The shared lock and sweep

ExpiredOn(K) == {r \in Reservations : expired[r] /\ \E k \in K : items[r][k] > 0}

\* The unlocked query.
Begin(j, type, of, K) ==
  /\ job[j] = None
  /\ job' = [job EXCEPT ![j] =
               [type |-> type, of |-> of, keys |-> K, found |-> ExpiredOn(K)]]
  /\ UNCHANGED <<stockRow, reservation, expired, items, wanted, confirming, orders,
                 exchange>>

Running(j, type) == job[j] # None /\ job[j].type = type

\* Of the reservations it locked, those still expired; their items are read
\* again and are gone if a cancel or a confirm came first.
Sweepable(j) == {r \in job[j].found : expired[r]}

Swept(j) ==
  [r \in Reservations |->
     [k \in Keys |-> IF r \in Sweepable(j) /\ k \in job[j].keys THEN 0 ELSE items[r][k]]]

\* Units of key k in a family of items over a set S: every unit is one pair
UnitsIn(S, family, k) == Cardinality(UNION {{r} \X (1..family[r][k]) : r \in S})

ReservedAfterSweep(j, k) ==
  IF k \in job[j].keys THEN reserved[k] - UnitsIn(Sweepable(j), items, k) ELSE reserved[k]

Available(j, k) == quantity[k] - ReservedAfterSweep(j, k)

\* The job commits: its sweep, and its own changes of the rows.
Commit(j, addQuantity, addReserved, addLogged) ==
  /\ quantity' = [k \in Keys |-> quantity[k] + addQuantity[k]]
  /\ reserved' = [k \in Keys |-> ReservedAfterSweep(j, k) + addReserved[k]]
  /\ logged' = [k \in Keys |-> logged[k] + addLogged[k]]
  /\ job' = [job EXCEPT ![j] = None]

\* Any refusal, error or crash: sweep included, nothing has happened.
RollBack(j) ==
  /\ job[j] # None
  /\ job' = [job EXCEPT ![j] = None]
  /\ UNCHANGED <<stockRow, reservation, expired, items, wanted, confirming, orders,
                 exchange>>

----------------------------------------------------------------------------
\* CheckoutService

BeginReserve(j, r, want) ==
  /\ reservation[r] = "none"
  /\ Begin(j, "reserve", [id |-> r, want |-> want], {k \in Keys : want[k] > 0})

Reserve(j) ==
  /\ Running(j, "reserve")
  /\ LET r == job[j].of.id
         want == job[j].of.want
     IN  /\ reservation[r] = "none"
         /\ \A k \in job[j].keys : Available(j, k) >= want[k]
         /\ Commit(j, Nothing, want, Nothing)
         /\ reservation' = [reservation EXCEPT ![r] = "held"]
         /\ items' = [Swept(j) EXCEPT ![r] = want]
         /\ wanted' = [wanted EXCEPT ![r] = want]
  /\ UNCHANGED <<expired, confirming, orders, exchange>>

\* Slip: the units the hold began with, those a sweep took back included.
ReleaseWhatWasWanted(r) == [k \in Keys |-> reserved[k] - wanted[r][k]]

\* releaseReservationHolds(): only the items still there are released.
ReleaseHolds(r) == [k \in Keys |-> reserved[k] - items[r][k]]

\* The reservation row is locked, its holds are released and it is deleted:
\* cancelReservation() at any time, or confirm() of an expired one.
DeleteReservation(r) ==
  /\ reservation[r] = "held"
  /\ reserved' = ReleaseHolds(r)
  /\ items' = [items EXCEPT ![r] = Nothing]
  /\ reservation' = [reservation EXCEPT ![r] = "gone"]
  /\ UNCHANGED <<quantity, logged, expired, wanted, confirming, orders, exchange, job>>

CancelReservation(r) == DeleteReservation(r)

\* confirm()'s own transaction for the expiry check
ConfirmCheck(r) ==
  /\ reservation[r] = "held"
  /\ ~expired[r]
  /\ ~confirming[r]
  /\ confirming' = [confirming EXCEPT ![r] = TRUE]
  /\ UNCHANGED <<stockRow, reservation, expired, items, wanted, orders, exchange, job>>

\* Slip: the second check only looks for an item.
HasItems(r) == \E k \in Keys : items[r][k] > 0

\* The check is repeated under the lock: a sweep may have come in between.
StillWhole(r) == ~expired[r] /\ \E k \in Keys : items[r][k] > 0

ConfirmOrder(r) ==
  /\ confirming[r]
  /\ reservation[r] = "held"
  /\ StillWhole(r)
  /\ \A k \in Keys : items[r][k] <= quantity[k] /\ items[r][k] <= reserved[k]
  /\ quantity' = [k \in Keys |-> quantity[k] - items[r][k]]
  /\ reserved' = [k \in Keys |-> reserved[k] - items[r][k]]
  /\ placed' = [placed EXCEPT ![r] = TRUE]
  /\ bought' = [bought EXCEPT ![r] = items[r]]
  /\ items' = [items EXCEPT ![r] = Nothing]
  /\ reservation' = [reservation EXCEPT ![r] = "gone"]
  /\ confirming' = [confirming EXCEPT ![r] = FALSE]
  /\ UNCHANGED <<logged, expired, wanted, exchange, job>>

\* Expired or gone meanwhile, a price changed, the payment was declined, a
\* crash: rolled back.
ConfirmFails(r) ==
  /\ confirming[r]
  /\ confirming' = [confirming EXCEPT ![r] = FALSE]
  /\ UNCHANGED <<stockRow, reservation, expired, items, wanted, orders, exchange, job>>

----------------------------------------------------------------------------
\* InventoryController.createMovement

BeginMovement(j, k, n) == Begin(j, "movement", [key |-> k, delta |-> n], {k})

EnoughUnheld(j, k, n) == quantity[k] + n - ReservedAfterSweep(j, k) >= 0

\* A decrease is guarded by the conditional UPDATE; an increase, or a
\* resellable return received at the counter, is not.
RecordMovement(j) ==
  /\ Running(j, "movement")
  /\ LET k == job[j].of.key
         n == job[j].of.delta
     IN  /\ n < 0 => EnoughUnheld(j, k, n)
         /\ n > 0 => quantity[k] + n <= MaxQuantity
         /\ Commit(j, Only(k, n), Nothing, Only(k, n))
  /\ items' = Swept(j)
  /\ UNCHANGED <<reservation, expired, wanted, confirming, orders, exchange>>

----------------------------------------------------------------------------
\* BranchOrderCancellationService: the items K of an order are cancelled

BeginCancelItems(j, r, K) ==
  /\ \A k \in K : bought[r][k] > 0
  /\ Begin(j, "cancelItems", r, K)

RestockOf(r, K) == [k \in Keys |-> IF k \in K THEN bought[r][k] ELSE 0]

CancelItems(j) ==
  /\ Running(j, "cancelItems")
  /\ LET r == job[j].of
         K == job[j].keys
     IN  /\ \A k \in K : bought[r][k] > 0
         /\ Commit(j, RestockOf(r, K), Nothing, Nothing)
         /\ bought' = [bought EXCEPT ![r] = [k \in Keys |-> IF k \in K THEN 0 ELSE @[k]]]
  /\ items' = Swept(j)
  /\ UNCHANGED <<reservation, expired, wanted, confirming, placed, exchange>>

----------------------------------------------------------------------------
\* ReturnsService and ReturnSweepService, for exchanges of one unit; the
\* returns row is locked first, so its status is what each of them finds

\* approveReturn()
BeginApprove(j, x) ==
  /\ exchange[x] = "requested"
  /\ Begin(j, "approve", x, {Replacement[x]})

ApproveExchange(j) ==
  /\ Running(j, "approve")
  /\ LET x == job[j].of
     IN  /\ exchange[x] = "requested"
         /\ Available(j, Replacement[x]) >= 1
         /\ Commit(j, Nothing, Only(Replacement[x], 1), Nothing)
         /\ exchange' = [exchange EXCEPT ![x] = "held"]
  /\ items' = Swept(j)
  /\ UNCHANGED <<reservation, expired, wanted, confirming, orders>>

\* redeem() and the sweep race for an exchange whose code runs out.
StillHeld(x) == exchange[x] = "held"

\* fulfillExchange(); a damaged item is not put back on the shelf
BeginFulfil(j, x, resellable) ==
  /\ exchange[x] = "held"
  /\ Begin(j, "fulfil", x, {Replacement[x]} \cup (IF resellable THEN {Original[x]} ELSE {}))

FulfilExchange(j) ==
  /\ Running(j, "fulfil")
  /\ LET x == job[j].of
         back == IF Original[x] \in job[j].keys THEN 1 ELSE 0
         moved == [Only(Replacement[x], -1) EXCEPT ![Original[x]] = back]
     IN  /\ StillHeld(x)
         /\ back = 1 => quantity[Original[x]] < MaxQuantity
         /\ Commit(j, moved, Only(Replacement[x], -1), moved)
         /\ exchange' = [exchange EXCEPT ![x] = "closed"]
  /\ items' = Swept(j)
  /\ UNCHANGED <<reservation, expired, wanted, confirming, orders>>

\* expireCodeOnce()
BeginExpireCode(j, x) ==
  /\ exchange[x] = "held"
  /\ Begin(j, "expireCode", x, {Replacement[x]})

ExpireCode(j) ==
  /\ Running(j, "expireCode")
  /\ LET x == job[j].of
     IN  /\ StillHeld(x)
         /\ Commit(j, Nothing, Only(Replacement[x], -1), Nothing)
         /\ exchange' = [exchange EXCEPT ![x] = "closed"]
  /\ items' = Swept(j)
  /\ UNCHANGED <<reservation, expired, wanted, confirming, orders>>

----------------------------------------------------------------------------
\* Ten minutes are over.
Expire(r) ==
  /\ reservation[r] = "held"
  /\ ~expired[r]
  /\ expired' = [expired EXCEPT ![r] = TRUE]
  /\ UNCHANGED <<stockRow, reservation, items, wanted, confirming, orders, exchange, job>>

BeginStep(j) ==
  \/ \E r \in Reservations, want \in Wants : BeginReserve(j, r, want)
  \/ \E k \in Keys, n \in Units : BeginMovement(j, k, n) \/ BeginMovement(j, k, -n)
  \/ \E r \in Reservations, K \in (SUBSET Keys) \ {{}} : BeginCancelItems(j, r, K)
  \/ \E x \in Exchanges :
       \/ BeginApprove(j, x)
       \/ BeginFulfil(j, x, TRUE) \/ BeginFulfil(j, x, FALSE)
       \/ BeginExpireCode(j, x)

CommitStep(j) ==
  \/ Reserve(j) \/ RecordMovement(j) \/ CancelItems(j)
  \/ ApproveExchange(j) \/ FulfilExchange(j) \/ ExpireCode(j)
  \/ RollBack(j)

ReservationStep(r) ==
  \/ CancelReservation(r)
  \/ ConfirmCheck(r) \/ ConfirmOrder(r) \/ ConfirmFails(r)
  \/ Expire(r)

Next ==
  \/ \E j \in Jobs : BeginStep(j) \/ CommitStep(j)
  \/ \E r \in Reservations : ReservationStep(r)

Spec == Init /\ [][Next]_stockVars

----------------------------------------------------------------------------
\* Properties

Operations ==
  UNION {
    [type : {"reserve"}, of : [id : Reservations, want : Wants],
     keys : SUBSET Keys, found : SUBSET Reservations],
    [type : {"movement"}, of : [key : Keys, delta : Units \cup {-n : n \in Units}],
     keys : SUBSET Keys, found : SUBSET Reservations],
    [type : {"cancelItems"}, of : Reservations,
     keys : SUBSET Keys, found : SUBSET Reservations],
    [type : {"approve", "fulfil", "expireCode"}, of : Exchanges,
     keys : SUBSET Keys, found : SUBSET Reservations] }

HeldForExchange(k) == Cardinality({x \in Exchanges : exchange[x] = "held" /\ Replacement[x] = k})

\* The three books of a stock row agree, whichever of a sweep, a cancel, a
\* confirm, a POS sale, a restock and a code's expiry wrote them, in whatever
\* order (lockAndSweepStockRow, releaseReservationHolds, expireCodeOnce):
\* reservedQuantity is the units of the reservations and approved exchanges; what
\* is on hold is on the shelf; the shelf holds what the movement log says less
\* what the uncancelled order items took.
StockLedger ==
  \A k \in Keys :
    /\ reserved[k] = UnitsIn(Reservations, items, k) + HeldForExchange(k)
    /\ reserved[k] <= quantity[k]
    /\ quantity[k] = logged[k] - UnitsIn(Reservations, bought, k)

\* confirm() "must never silently create an order with fewer items than the
\* customer actually reserved".
OrderIsWhatWasReserved ==
  [][\A r \in Reservations : ~placed[r] /\ placed'[r] => bought'[r] = wanted[r]]_stockVars

\* Nobody but its own customer takes units from a hold that has not expired,
\* not even a sweep of the same stock row for another expired hold.
LiveHoldUntouched ==
  [][\A r \in Reservations :
       reservation[r] = "held" /\ ~expired[r] /\ reservation'[r] = "held"
       => items'[r] = items[r]]_stockVars
=============================================================================
