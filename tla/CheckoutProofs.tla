--------------------------- MODULE CheckoutProofs ---------------------------
(***************************************************************************)
(* Proofs about what checkouts compete for: stock and delivery slots.        *)
(*                                                                         *)
(* Stock, for any stock rows, reservations, exchanges and number of          *)
(* transactions open together: lazy sweeping never takes part of a hold     *)
(* that its customer can still confirm, and the counter of reserved units, the *)
(* shelf and the movement log agree.                                        *)
(*                                                                         *)
(* Slots, for any windows, dates and number of checkouts: the hours that     *)
(* were promised are kept and no booking exceeds the capacity.  A live hold, *)
(* and the confirm() that runs on it, name one slot until it becomes an      *)
(* order, and every change of a window looks for both; a slot's bookings     *)
(* grow only where HasRoom() was asked under the window's lock, or by the    *)
(* late confirm.                                                           *)
(***************************************************************************)
EXTENDS BranchStock, DeliverySlots, FiniteSetTheorems, TLAPS

----------------------------------------------------------------------------
\* Stock: holds

\* What the steps need to know of the variables that describe the holds.
HoldTypes ==
  /\ reservation \in [Reservations -> {"none", "held", "gone"}]
  /\ expired \in [Reservations -> BOOLEAN]
  /\ items \in [Reservations -> [Keys -> Nat]]
  /\ wanted \in [Reservations -> [Keys -> Nat]]
  /\ placed \in [Reservations -> BOOLEAN]
  /\ bought \in [Reservations -> [Keys -> Nat]]
  /\ job \in [Jobs -> Operations \cup {None}]

\* A hold that has not expired still has all its items.
LiveHoldsAreWhole ==
  \A r \in Reservations :
    reservation[r] = "held" /\ ~expired[r] => items[r] = wanted[r]

HoldInv == HoldTypes /\ LiveHoldsAreWhole

\* A reserve() transaction knows its reservation and what it asks for.
LEMMA ReserveJob ==
  ASSUME HoldTypes, NEW j \in Jobs, Running(j, "reserve")
  PROVE  job[j].of.id \in Reservations /\ job[j].of.want \in Wants
BY DEF HoldTypes, Running, Operations

\* A sweep takes nothing from a hold that has not expired.
LEMMA SweepSparesLiveHolds ==
  ASSUME HoldTypes, NEW j \in Jobs
  PROVE  /\ Swept(j) \in [Reservations -> [Keys -> Nat]]
         /\ \A r \in Reservations : ~expired[r] => Swept(j)[r] = items[r]
<1>1. Swept(j) \in [Reservations -> [Keys -> Nat]]
  BY DEF HoldTypes, Swept
<1>2. ASSUME NEW r \in Reservations, ~expired[r]
      PROVE  Swept(j)[r] = items[r]
  <2>1. Swept(j)[r] = [k \in Keys |-> items[r][k]]
    BY <1>2 DEF Swept, Sweepable
  <2>2. QED
    BY <2>1 DEF HoldTypes
<1>3. QED
  BY <1>1, <1>2

\* The jobs that only sweep the holds
SweepOnly(j) ==
  /\ items' = Swept(j)
  /\ job' = [job EXCEPT ![j] = None]
  /\ UNCHANGED <<reservation, expired, wanted>>

LEMMA OtherJobsSweepOnly ==
  ASSUME NEW j \in Jobs,
         \/ RecordMovement(j) \/ CancelItems(j)
         \/ ApproveExchange(j) \/ FulfilExchange(j) \/ ExpireCode(j)
  PROVE  SweepOnly(j) /\ UNCHANGED placed
BY DEF RecordMovement, CancelItems, ApproveExchange, FulfilExchange, ExpireCode,
       Commit, SweepOnly, orders

LEMMA HoldInit ==
  ASSUME Init
  PROVE  HoldInv
BY DEF Init, HoldInv, HoldTypes, LiveHoldsAreWhole, Nothing

\* The query of a transaction opens it and changes nothing else.
LEMMA BeginTypes ==
  ASSUME HoldTypes, NEW j \in Jobs, BeginStep(j)
  PROVE  /\ job' \in [Jobs -> Operations \cup {None}]
         /\ UNCHANGED <<reservation, expired, items, wanted, placed, bought>>
<1>. USE DEF HoldTypes, Begin, ExpiredOn, Operations, orders
<1>1. ASSUME NEW r \in Reservations, NEW want \in Wants, BeginReserve(j, r, want)
      PROVE  job' \in [Jobs -> Operations \cup {None}]
  BY <1>1 DEF BeginReserve
<1>2. ASSUME NEW k \in Keys, NEW n \in Units,
             BeginMovement(j, k, n) \/ BeginMovement(j, k, -n)
      PROVE  job' \in [Jobs -> Operations \cup {None}]
  BY <1>2 DEF BeginMovement
<1>3. ASSUME NEW r \in Reservations, NEW K \in SUBSET Keys, BeginCancelItems(j, r, K)
      PROVE  job' \in [Jobs -> Operations \cup {None}]
  BY <1>3 DEF BeginCancelItems
<1>4. ASSUME NEW x \in Exchanges,
             \/ BeginApprove(j, x)
             \/ BeginFulfil(j, x, TRUE) \/ BeginFulfil(j, x, FALSE)
             \/ BeginExpireCode(j, x)
      PROVE  job' \in [Jobs -> Operations \cup {None}]
  <2>1. Replacement[x] \in Keys /\ Original[x] \in Keys
    BY StockAssumption
  <2>2. CASE BeginApprove(j, x)
    BY <2>1, <2>2 DEF BeginApprove
  <2>3. CASE BeginFulfil(j, x, TRUE)
    BY <2>1, <2>3 DEF BeginFulfil
  <2>4. CASE BeginFulfil(j, x, FALSE)
    BY <2>1, <2>4 DEF BeginFulfil
  <2>5. CASE BeginExpireCode(j, x)
    BY <2>1, <2>5 DEF BeginExpireCode
  <2>6. QED
    BY <1>4, <2>2, <2>3, <2>4, <2>5
<1>5. UNCHANGED <<reservation, expired, items, wanted, placed, bought>>
  BY DEF BeginStep, BeginReserve, BeginMovement, BeginCancelItems, BeginApprove,
         BeginFulfil, BeginExpireCode
<1>6. QED
  BY <1>1, <1>2, <1>3, <1>4, <1>5 DEF BeginStep

\* The transactions on one reservation keep the types of the holds.
LEMMA ReservationTypes ==
  ASSUME HoldTypes, NEW r \in Reservations, ReservationStep(r)
  PROVE  HoldTypes'
<1>. USE DEF HoldTypes, orders, stockRow
<1>1. Nothing \in [Keys -> Nat]
  BY DEF Nothing
<1>2. CASE CancelReservation(r)
  BY <1>1, <1>2 DEF CancelReservation, DeleteReservation
<1>3. CASE ConfirmCheck(r) \/ ConfirmFails(r)
  BY <1>3 DEF ConfirmCheck, ConfirmFails
<1>4. CASE ConfirmOrder(r)
  BY <1>1, <1>4 DEF ConfirmOrder
<1>5. CASE Expire(r)
  BY <1>5 DEF Expire
<1>6. QED
  BY <1>2, <1>3, <1>4, <1>5 DEF ReservationStep

\* So do the commits of the sweeping transactions.
LEMMA CommitTypes ==
  ASSUME HoldTypes, NEW j \in Jobs, CommitStep(j)
  PROVE  HoldTypes'
<1>. USE DEF HoldTypes, orders, stockRow
<1>1. CASE Reserve(j)
  <2>1. job[j].of.id \in Reservations /\ job[j].of.want \in [Keys -> Nat]
    BY <1>1, ReserveJob, StockAssumption DEF Reserve
  <2>2. QED
    BY <1>1, <2>1, SweepSparesLiveHolds DEF Reserve, Commit
<1>2. CASE CancelItems(j)
  BY <1>2, SweepSparesLiveHolds DEF CancelItems, Commit
<1>3. CASE RecordMovement(j) \/ ApproveExchange(j) \/ FulfilExchange(j) \/ ExpireCode(j)
  <2>1. SweepOnly(j) /\ UNCHANGED placed
    BY <1>3, OtherJobsSweepOnly
  <2>2. UNCHANGED bought
    BY <1>3 DEF RecordMovement, ApproveExchange, FulfilExchange, ExpireCode
  <2>3. QED
    BY <2>1, <2>2, SweepSparesLiveHolds DEF SweepOnly
<1>4. CASE RollBack(j)
  BY <1>4 DEF RollBack
<1>5. QED
  BY <1>1, <1>2, <1>3, <1>4 DEF CommitStep

\* No step takes part of a live hold: it is whole, or confirmed, or cancelled.
LEMMA WholeStep ==
  ASSUME HoldInv, [Next]_stockVars
  PROVE  LiveHoldsAreWhole'
<1>. USE DEF HoldInv, LiveHoldsAreWhole
<1>1. ASSUME NEW j \in Jobs, BeginStep(j)
      PROVE  LiveHoldsAreWhole'
  BY <1>1, BeginTypes
<1>2. ASSUME NEW j \in Jobs, Reserve(j)
      PROVE  LiveHoldsAreWhole'
  <2>1. job[j].of.id \in Reservations
    BY <1>2, ReserveJob DEF Reserve
  <2>2. QED
    BY <1>2, <2>1, SweepSparesLiveHolds DEF Reserve, HoldTypes
<1>3. ASSUME NEW j \in Jobs,
             \/ RecordMovement(j) \/ CancelItems(j)
             \/ ApproveExchange(j) \/ FulfilExchange(j) \/ ExpireCode(j)
      PROVE  LiveHoldsAreWhole'
  BY <1>3, OtherJobsSweepOnly, SweepSparesLiveHolds DEF SweepOnly
<1>4. ASSUME NEW j \in Jobs, RollBack(j)
      PROVE  LiveHoldsAreWhole'
  BY <1>4 DEF RollBack
<1>5. ASSUME NEW r \in Reservations, ReservationStep(r)
      PROVE  LiveHoldsAreWhole'
  <2>1. CASE CancelReservation(r) \/ ConfirmOrder(r)
    BY <2>1 DEF CancelReservation, DeleteReservation, ConfirmOrder, HoldTypes
  <2>2. CASE ConfirmCheck(r) \/ ConfirmFails(r)
    BY <2>2 DEF ConfirmCheck, ConfirmFails
  <2>3. CASE Expire(r)
    BY <2>3 DEF Expire, HoldTypes
  <2>4. QED
    BY <1>5, <2>1, <2>2, <2>3 DEF ReservationStep
<1>6. CASE UNCHANGED stockVars
  BY <1>6 DEF stockVars
<1>7. QED
  BY <1>1, <1>2, <1>3, <1>4, <1>5, <1>6 DEF Next, CommitStep

LEMMA HoldStep ==
  ASSUME HoldInv, [Next]_stockVars
  PROVE  HoldInv'
<1>1. ASSUME NEW j \in Jobs, BeginStep(j)
      PROVE  HoldTypes'
  BY <1>1, BeginTypes DEF HoldInv, HoldTypes
<1>2. ASSUME UNCHANGED stockVars
      PROVE  HoldTypes'
  BY <1>2 DEF stockVars, orders, HoldInv, HoldTypes
<1>3. HoldTypes'
  BY <1>1, <1>2, CommitTypes, ReservationTypes DEF Next, HoldInv
<1>4. QED
  BY <1>3, WholeStep DEF HoldInv

\* A hold that can still be confirmed is whole, whatever sweeps ran over the
\* stock rows it shares with expired ones.
THEOREM HoldsStayWhole == Spec => []HoldInv
<1>1. Init => HoldInv
  BY HoldInit
<1>2. HoldInv /\ [Next]_stockVars => HoldInv'
  BY HoldStep
<1>3. QED
  BY <1>1, <1>2, PTL DEF Spec

\* confirm() never creates an order with fewer items than were reserved.
THEOREM OrdersAreWhatWasReserved == Spec => OrderIsWhatWasReserved
<1>1. ASSUME HoldInv, [Next]_stockVars,
             NEW r \in Reservations, ~placed[r], placed'[r]
      PROVE  bought'[r] = wanted[r]
  <2>. USE DEF orders
  <2>1. ASSUME NEW j \in Jobs, BeginStep(j) \/ CommitStep(j)
        PROVE  UNCHANGED placed
    <3>1. CASE BeginStep(j)
      BY <1>1, <3>1, BeginTypes DEF HoldInv
    <3>2. CASE Reserve(j) \/ RollBack(j)
      BY <3>2 DEF Reserve, RollBack
    <3>3. QED
      BY <2>1, <3>1, <3>2, OtherJobsSweepOnly DEF CommitStep
  <2>2. ASSUME NEW q \in Reservations, ReservationStep(q), ~ConfirmOrder(q)
        PROVE  UNCHANGED placed
    BY <2>2 DEF ReservationStep, CancelReservation, DeleteReservation,
                ConfirmCheck, ConfirmFails, Expire
  <2>3. PICK q \in Reservations : ConfirmOrder(q)
    BY <1>1, <2>1, <2>2 DEF Next, stockVars
  <2>4. q = r
    BY <1>1, <2>3 DEF ConfirmOrder, HoldInv, HoldTypes
  <2>5. bought'[r] = items[r]
    BY <1>1, <2>3, <2>4 DEF ConfirmOrder, HoldInv, HoldTypes
  <2>6. reservation[r] = "held" /\ ~expired[r]
    BY <2>3, <2>4 DEF ConfirmOrder, StillWhole
  <2>7. QED
    BY <1>1, <2>5, <2>6 DEF HoldInv, LiveHoldsAreWhole
<1>2. HoldInv /\ [Next]_stockVars
        => [\A r \in Reservations : ~placed[r] /\ placed'[r] => bought'[r] = wanted[r]]_stockVars
  BY <1>1
<1>3. QED
  BY <1>2, HoldsStayWhole, PTL DEF Spec, OrderIsWhatWasReserved

\* A live hold loses units to nobody but its own customer's next step.
THEOREM LiveHoldsAreUntouched == Spec => LiveHoldUntouched
<1>1. ASSUME HoldInv, [Next]_stockVars, NEW r \in Reservations,
             reservation[r] = "held", ~expired[r], reservation'[r] = "held"
      PROVE  items'[r] = items[r]
  <2>1. ASSUME NEW j \in Jobs, BeginStep(j)
        PROVE  items'[r] = items[r]
    BY <1>1, <2>1, BeginTypes DEF HoldInv
  <2>2. ASSUME NEW j \in Jobs, Reserve(j)
        PROVE  items'[r] = items[r]
    <3>1. job[j].of.id \in Reservations /\ job[j].of.id # r
      BY <1>1, <2>2, ReserveJob DEF Reserve, HoldInv
    <3>2. QED
      BY <1>1, <2>2, <3>1, SweepSparesLiveHolds DEF Reserve, HoldInv, HoldTypes
  <2>3. ASSUME NEW j \in Jobs,
               \/ RecordMovement(j) \/ CancelItems(j)
               \/ ApproveExchange(j) \/ FulfilExchange(j) \/ ExpireCode(j)
        PROVE  items'[r] = items[r]
    BY <1>1, <2>3, OtherJobsSweepOnly, SweepSparesLiveHolds DEF SweepOnly, HoldInv
  <2>4. ASSUME NEW j \in Jobs, RollBack(j)
        PROVE  items'[r] = items[r]
    BY <2>4 DEF RollBack
  <2>5. ASSUME NEW q \in Reservations, ReservationStep(q)
        PROVE  items'[r] = items[r]
    <3>1. CASE CancelReservation(q) \/ ConfirmOrder(q)
      <4>1. q # r
        BY <1>1, <3>1 DEF CancelReservation, DeleteReservation, ConfirmOrder,
                          HoldInv, HoldTypes
      <4>2. QED
        BY <1>1, <3>1, <4>1 DEF CancelReservation, DeleteReservation, ConfirmOrder,
                          HoldInv, HoldTypes
    <3>2. CASE ConfirmCheck(q) \/ ConfirmFails(q) \/ Expire(q)
      BY <3>2 DEF ConfirmCheck, ConfirmFails, Expire
    <3>3. QED
      BY <2>5, <3>1, <3>2 DEF ReservationStep
  <2>6. CASE UNCHANGED stockVars
    BY <2>6 DEF stockVars
  <2>7. QED
    BY <1>1, <2>1, <2>2, <2>3, <2>4, <2>5, <2>6 DEF Next, CommitStep
<1>2. HoldInv /\ [Next]_stockVars
        => [\A r \in Reservations :
              reservation[r] = "held" /\ ~expired[r] /\ reservation'[r] = "held"
              => items'[r] = items[r]]_stockVars
  BY <1>1
<1>3. QED
  BY <1>2, HoldsStayWhole, PTL DEF Spec, LiveHoldUntouched

----------------------------------------------------------------------------
\* Stock: the ledger

\* Units, one pair each, add up as cardinalities do.
UnitsOf(S, family, k) == UNION {{r} \X (1..family[r][k]) : r \in S}

LEMMA UnitsMember ==
  ASSUME NEW S, NEW family, NEW k, NEW u
  PROVE  u \in UnitsOf(S, family, k) <=> \E r \in S : \E i \in 1..family[r][k] : u = <<r, i>>
BY DEF UnitsOf

LEMMA UnitsFinite ==
  ASSUME NEW S, IsFiniteSet(S), NEW family, NEW k, \A r \in S : family[r][k] \in Nat
  PROVE  IsFiniteSet(UnitsOf(S, family, k)) /\ UnitsIn(S, family, k) \in Nat
<1> DEFINE Of(r) == {r} \X (1..family[r][k])
           T == {Of(r) : r \in S}
<1>1. \A r \in S : IsFiniteSet(Of(r))
  <2> SUFFICES ASSUME NEW r \in S PROVE IsFiniteSet(Of(r))
    OBVIOUS
  <2>1. IsFiniteSet(1..family[r][k])
    BY FS_Interval
  <2>2. IsFiniteSet({r})
    BY FS_Singleton
  <2> QED BY <2>1, <2>2, FS_Product
<1>2. IsFiniteSet(T)
  <2> HIDE DEF Of
  <2>1. PICK f : f = [r \in S |-> Of(r)]
    OBVIOUS
  <2>2. f \in Surjection(S, T)
    BY <2>1 DEF Surjection
  <2> QED BY <2>2, FS_Surjection
<1>3. \A t \in T : IsFiniteSet(t)
  <2> HIDE DEF Of
  <2> QED BY <1>1
<1>4. IsFiniteSet(UNION T)
  <2> HIDE DEF T
  <2> QED BY <1>2, <1>3, FS_UNION
<1> QED BY <1>4, FS_CardinalityType DEF UnitsOf, UnitsIn

LEMMA UnitsAlike ==
  ASSUME NEW S, NEW family, NEW other, NEW k, \A r \in S : family[r][k] = other[r][k]
  PROVE  UnitsIn(S, family, k) = UnitsIn(S, other, k)
<1>1. ASSUME NEW u PROVE u \in UnitsOf(S, family, k) <=> u \in UnitsOf(S, other, k)
  BY UnitsMember
<1>2. UnitsOf(S, family, k) = UnitsOf(S, other, k)
  BY <1>1
<1> QED BY <1>2 DEF UnitsOf, UnitsIn

LEMMA UnitsNone ==
  ASSUME NEW S, NEW family, NEW k, \A r \in S : family[r][k] = 0
  PROVE  UnitsIn(S, family, k) = 0
<1>1. UnitsOf(S, family, k) = {}
  BY UnitsMember
<1> QED BY <1>1, FS_EmptySet DEF UnitsOf, UnitsIn

LEMMA UnitsOfOne ==
  ASSUME NEW r, NEW family, NEW k, family[r][k] \in Nat
  PROVE  UnitsIn({r}, family, k) = family[r][k]
<1>1. PICK n \in Nat : n = family[r][k]
  OBVIOUS
<1>2. UNION {{s} \X (1..family[s][k]) : s \in {r}} = {r} \X (1..n)
  BY <1>1
<1>3. IsFiniteSet(1..n) /\ Cardinality(1..n) = n
  <2>1. n \in Int /\ 1 \in Int
    OBVIOUS
  <2>2. IsFiniteSet(1..n)
    BY <2>1, FS_Interval
  <2>3. Cardinality(1..n) = IF 1 > n THEN 0 ELSE n - 1 + 1
    BY <2>1, FS_Interval, Zenon
  <2> QED BY <2>2, <2>3
<1>4. IsFiniteSet({r}) /\ Cardinality({r}) = 1
  BY FS_Singleton
<1>5. Cardinality({r} \X (1..n)) = n
  <2>1. PICK A, B : A = {r} /\ B = 1..n
    OBVIOUS
  <2>2. IsFiniteSet(A) /\ Cardinality(A) = 1 /\ IsFiniteSet(B) /\ Cardinality(B) = n
    BY <1>3, <1>4, <2>1
  <2>3. Cardinality(A \X B) = Cardinality(A) * Cardinality(B)
    BY <2>2, FS_Product
  <2>4. Cardinality(A \X B) = n
    BY <2>2, <2>3
  <2> QED BY <2>1, <2>4
<1>6. UnitsIn({r}, family, k) = Cardinality({r} \X (1..n))
  BY <1>2 DEF UnitsIn
<1> QED BY <1>1, <1>5, <1>6

LEMMA UnitsSplit ==
  ASSUME NEW S, IsFiniteSet(S), NEW A \in SUBSET S, NEW family, NEW k, \A r \in S : family[r][k] \in Nat
  PROVE  /\ UnitsIn(S, family, k) = UnitsIn(A, family, k) + UnitsIn(S \ A, family, k)
         /\ UnitsIn(S, family, k) \in Nat /\ UnitsIn(A, family, k) \in Nat /\ UnitsIn(S \ A, family, k) \in Nat
<1>1. IsFiniteSet(A) /\ IsFiniteSet(S \ A)
  BY FS_Subset
<1>2. /\ IsFiniteSet(UnitsOf(A, family, k)) /\ IsFiniteSet(UnitsOf(S \ A, family, k))
      /\ UnitsIn(S, family, k) \in Nat /\ UnitsIn(A, family, k) \in Nat /\ UnitsIn(S \ A, family, k) \in Nat
  BY <1>1, UnitsFinite
<1>3. UnitsOf(A, family, k) \intersect UnitsOf(S \ A, family, k) = {}
  BY UnitsMember
<1>4. UnitsOf(S, family, k) = UnitsOf(A, family, k) \union UnitsOf(S \ A, family, k)
  BY UnitsMember
<1>5. Cardinality(UnitsOf(S, family, k)) = Cardinality(UnitsOf(A, family, k)) + Cardinality(UnitsOf(S \ A, family, k)) - Cardinality({})
  BY <1>2, <1>3, <1>4, FS_Union
<1> QED BY <1>2, <1>5, FS_EmptySet DEF UnitsOf, UnitsIn

\* One reservation's units change.
LEMMA UnitsChanged ==
  ASSUME NEW S, IsFiniteSet(S), NEW r \in S, NEW family, NEW other, NEW k,
         \A s \in S : family[s][k] \in Nat /\ other[s][k] \in Nat,
         \A s \in S \ {r} : other[s][k] = family[s][k]
  PROVE  UnitsIn(S, other, k) = UnitsIn(S, family, k) - family[r][k] + other[r][k]
<1>1. UnitsIn(S, family, k) = UnitsIn({r}, family, k) + UnitsIn(S \ {r}, family, k) /\ UnitsIn(S \ {r}, family, k) \in Nat
  BY UnitsSplit
<1>2. UnitsIn(S, other, k) = UnitsIn({r}, other, k) + UnitsIn(S \ {r}, other, k)
  BY UnitsSplit
<1>3. UnitsIn(S \ {r}, other, k) = UnitsIn(S \ {r}, family, k)
  BY UnitsAlike
<1>4. family[r][k] \in Nat /\ other[r][k] \in Nat
  OBVIOUS
<1>5. UnitsIn({r}, family, k) = family[r][k]
  BY <1>4, UnitsOfOne
<1>6. UnitsIn({r}, other, k) = other[r][k]
  BY <1>4, UnitsOfOne
<1> QED BY <1>1, <1>2, <1>3, <1>4, <1>5, <1>6

\* A sweep takes from the counter of a stock row what it deletes of the items.
LEMMA SweptUnits ==
  ASSUME HoldTypes, NEW j \in Jobs, job[j] # None, NEW k \in Keys
  PROVE  /\ UnitsIn(Reservations, Swept(j), k)
              = IF k \in job[j].keys THEN UnitsIn(Reservations, items, k) - UnitsIn(Sweepable(j), items, k)
                                     ELSE UnitsIn(Reservations, items, k)
         /\ UnitsIn(Reservations, Swept(j), k) <= UnitsIn(Reservations, items, k)
         /\ UnitsIn(Reservations, items, k) \in Nat /\ UnitsIn(Reservations, Swept(j), k) \in Nat
         /\ UnitsIn(Sweepable(j), items, k) \in Nat
<1>1. Swept(j) \in [Reservations -> [Keys -> Nat]] /\ items \in [Reservations -> [Keys -> Nat]] /\ IsFiniteSet(Reservations)
  BY SweepSparesLiveHolds, StockAssumption DEF HoldTypes
<1>2. PICK A : A = Sweepable(j)
  OBVIOUS
<1>3. \A r \in Reservations : Swept(j)[r][k] = IF r \in A /\ k \in job[j].keys THEN 0 ELSE items[r][k]
  BY <1>2 DEF Swept
<1>4. \A r \in Reservations : items[r][k] \in Nat
  BY <1>1
<1>5. \A r \in Reservations : Swept(j)[r][k] \in Nat
  BY <1>1
<1>6. IsFiniteSet(Reservations) /\ A \in SUBSET Reservations
  <2>1. job[j].found \subseteq Reservations
    BY DEF HoldTypes, Operations
  <2> QED BY <1>1, <1>2, <2>1 DEF Sweepable
<1>7. /\ UnitsIn(Reservations, items, k) = UnitsIn(A, items, k) + UnitsIn(Reservations \ A, items, k)
      /\ UnitsIn(Reservations, items, k) \in Nat /\ UnitsIn(A, items, k) \in Nat
      /\ UnitsIn(Reservations \ A, items, k) \in Nat
  BY <1>4, <1>6, UnitsSplit
<1>8. CASE k \in job[j].keys
  <2>1. /\ UnitsIn(Reservations, Swept(j), k) = UnitsIn(A, Swept(j), k) + UnitsIn(Reservations \ A, Swept(j), k)
    BY <1>5, <1>6, UnitsSplit
  <2>2. UnitsIn(A, Swept(j), k) = 0
    <3>1. \A r \in A : Swept(j)[r][k] = 0
      BY <1>3, <1>6, <1>8
    <3> QED BY <3>1, UnitsNone
  <2>3. UnitsIn(Reservations \ A, Swept(j), k) = UnitsIn(Reservations \ A, items, k)
    <3>1. \A r \in Reservations \ A : Swept(j)[r][k] = items[r][k]
      BY <1>3
    <3> QED BY <3>1, UnitsAlike
  <2> QED BY <1>2, <1>7, <1>8, <2>1, <2>2, <2>3
<1>9. CASE k \notin job[j].keys
  <2>1. \A r \in Reservations : Swept(j)[r][k] = items[r][k]
    BY <1>3, <1>9
  <2>2. UnitsIn(Reservations, Swept(j), k) = UnitsIn(Reservations, items, k)
    BY <2>1, UnitsAlike
  <2> QED BY <1>2, <1>7, <1>9, <2>2
<1> QED BY <1>8, <1>9

\* What the books of a stock row rest on: an unheld reservation has no items, one
\* without orders bought nothing, and reserve() locks the rows it asks of.
LedgerRows ==
  /\ quantity \in [Keys -> Int] /\ reserved \in [Keys -> Int] /\ logged \in [Keys -> Int]
  /\ exchange \in [Exchanges -> {"requested", "held", "closed"}]
HoldsAreHeld ==
  \A r \in Reservations, k \in Keys :
    /\ reservation[r] # "held" => items[r][k] = 0
    /\ reservation[r] # "gone" => bought[r][k] = 0
ReserveLocksWhatItWants ==
  \A j \in Jobs : Running(j, "reserve") => \A k \in Keys \ job[j].keys : job[j].of.want[k] = 0

LedgerInv == HoldTypes /\ LedgerRows /\ HoldsAreHeld /\ ReserveLocksWhatItWants /\ StockLedger

LEMMA LedgerNumbers ==
  ASSUME LedgerInv, NEW k \in Keys
  PROVE  /\ UnitsIn(Reservations, items, k) \in Nat /\ UnitsIn(Reservations, bought, k) \in Nat
         /\ HeldForExchange(k) \in Nat
         /\ quantity[k] \in Int /\ reserved[k] \in Int /\ logged[k] \in Int
         /\ reserved[k] = UnitsIn(Reservations, items, k) + HeldForExchange(k)
         /\ reserved[k] <= quantity[k]
         /\ quantity[k] = logged[k] - UnitsIn(Reservations, bought, k)
<1>1. IsFiniteSet(Reservations) /\ IsFiniteSet(Exchanges)
  BY StockAssumption
<1>2. \A r \in Reservations : items[r][k] \in Nat /\ bought[r][k] \in Nat
  BY DEF LedgerInv, HoldTypes
<1>3. UnitsIn(Reservations, items, k) \in Nat /\ UnitsIn(Reservations, bought, k) \in Nat
  BY <1>1, <1>2, UnitsFinite
<1>4. HeldForExchange(k) \in Nat
  <2>1. IsFiniteSet({x \in Exchanges : exchange[x] = "held" /\ Replacement[x] = k})
    BY <1>1, FS_Subset
  <2> QED BY <2>1, FS_CardinalityType DEF HeldForExchange
<1> QED BY <1>3, <1>4 DEF LedgerInv, LedgerRows, StockLedger

LEMMA AfterSweep ==
  ASSUME LedgerInv, NEW j \in Jobs, job[j] # None, NEW k \in Keys
  PROVE  /\ ReservedAfterSweep(j, k) = UnitsIn(Reservations, Swept(j), k) + HeldForExchange(k)
         /\ ReservedAfterSweep(j, k) <= reserved[k] /\ ReservedAfterSweep(j, k) <= quantity[k]
         /\ ReservedAfterSweep(j, k) \in Int /\ UnitsIn(Reservations, Swept(j), k) \in Nat
<1>1. /\ UnitsIn(Reservations, Swept(j), k)
           = IF k \in job[j].keys THEN UnitsIn(Reservations, items, k) - UnitsIn(Sweepable(j), items, k)
                                  ELSE UnitsIn(Reservations, items, k)
      /\ UnitsIn(Reservations, Swept(j), k) <= UnitsIn(Reservations, items, k)
      /\ UnitsIn(Reservations, items, k) \in Nat /\ UnitsIn(Reservations, Swept(j), k) \in Nat
      /\ UnitsIn(Sweepable(j), items, k) \in Nat
  BY SweptUnits DEF LedgerInv
<1>2. /\ HeldForExchange(k) \in Nat /\ reserved[k] \in Int /\ quantity[k] \in Int
      /\ reserved[k] = UnitsIn(Reservations, items, k) + HeldForExchange(k) /\ reserved[k] <= quantity[k]
  BY LedgerNumbers
<1> QED BY <1>1, <1>2 DEF ReservedAfterSweep

LEMMA LedgerCommit ==
  ASSUME LedgerInv, NEW j \in Jobs, job[j] # None,
         NEW q \in [Keys -> Int], NEW a \in [Keys -> Int], NEW l \in [Keys -> Int], Commit(j, q, a, l),
         \A k \in Keys : UnitsIn(Reservations, items', k) + HeldForExchange(k)'
                           = UnitsIn(Reservations, Swept(j), k) + HeldForExchange(k) + a[k],
         \A k \in Keys : ReservedAfterSweep(j, k) + a[k] <= quantity[k] + q[k],
         \A k \in Keys : UnitsIn(Reservations, bought', k) = UnitsIn(Reservations, bought, k) + l[k] - q[k]
  PROVE  StockLedger' /\ quantity' \in [Keys -> Int] /\ reserved' \in [Keys -> Int] /\ logged' \in [Keys -> Int]
<1>1. ASSUME NEW k \in Keys
      PROVE  /\ quantity'[k] = quantity[k] + q[k] /\ reserved'[k] = ReservedAfterSweep(j, k) + a[k]
             /\ logged'[k] = logged[k] + l[k]
             /\ q[k] \in Int /\ a[k] \in Int /\ l[k] \in Int
  BY DEF Commit
<1>2. ASSUME NEW k \in Keys
      PROVE  /\ quantity'[k] \in Int /\ reserved'[k] \in Int /\ logged'[k] \in Int
             /\ reserved'[k] = UnitsIn(Reservations, items', k) + HeldForExchange(k)'
             /\ reserved'[k] <= quantity'[k]
             /\ quantity'[k] = logged'[k] - UnitsIn(Reservations, bought', k)
  BY <1>1, LedgerNumbers, AfterSweep
<1>3. StockLedger'
  BY <1>2 DEF StockLedger
<1>4. quantity' \in [Keys -> Int] /\ reserved' \in [Keys -> Int] /\ logged' \in [Keys -> Int]
  BY <1>2 DEF Commit
<1> QED BY <1>3, <1>4

LEMMA ExchangesHeld ==
  ASSUME LedgerInv, NEW x \in Exchanges, NEW k \in Keys,
         \A y \in Exchanges \ {x} : exchange'[y] = exchange[y]
  PROVE  /\ exchange[x] # "held" /\ exchange'[x] = "held"
              => HeldForExchange(k)' = HeldForExchange(k) + Only(Replacement[x], 1)[k]
         /\ exchange[x] = "held" /\ exchange'[x] # "held"
              => HeldForExchange(k)' = HeldForExchange(k) + Only(Replacement[x], -1)[k]
<1>1. PICK S, T : S = {y \in Exchanges : exchange[y] = "held" /\ Replacement[y] = k}
                  /\ T = {y \in Exchanges : exchange'[y] = "held" /\ Replacement[y] = k}
  OBVIOUS
<1>2. IsFiniteSet(S) /\ IsFiniteSet(T)
  BY <1>1, StockAssumption, FS_Subset
<1>3. HeldForExchange(k) = Cardinality(S) /\ HeldForExchange(k)' = Cardinality(T) /\ Cardinality(S) \in Nat
  BY <1>1, <1>2, FS_CardinalityType DEF HeldForExchange
<1>4. Replacement[x] \in Keys
  BY StockAssumption
<1>5. \A n \in Int : Only(Replacement[x], n)[k] = IF k = Replacement[x] THEN n ELSE 0
  BY <1>4 DEF Only, Nothing
<1>6. CASE k # Replacement[x]
  <2>1. S = T
    BY <1>1, <1>6
  <2> QED BY <1>3, <1>5, <1>6, <2>1
<1>7. CASE k = Replacement[x]
  <2>1. ASSUME exchange[x] # "held", exchange'[x] = "held" PROVE Cardinality(T) = Cardinality(S) + 1
    <3>1. T = S \union {x} /\ x \notin S
      BY <1>1, <1>7, <2>1
    <3> QED BY <1>2, <3>1, FS_AddElement
  <2>2. ASSUME exchange[x] = "held", exchange'[x] # "held" PROVE Cardinality(T) = Cardinality(S) - 1
    <3>1. T = S \ {x} /\ x \in S
      BY <1>1, <1>7, <2>2
    <3> QED BY <1>2, <3>1, FS_RemoveElement
  <2> QED BY <1>3, <1>5, <1>7, <2>1, <2>2
<1> QED BY <1>6, <1>7

LEMMA ReserveLedger ==
  ASSUME LedgerInv, NEW j \in Jobs, Reserve(j)
  PROVE  StockLedger' /\ LedgerRows' /\ HoldsAreHeld'
<1>1. PICK r, want : r = job[j].of.id /\ want = job[j].of.want
  OBVIOUS
<1>2. r \in Reservations /\ want \in [Keys -> Nat]
  BY <1>1, ReserveJob, StockAssumption DEF Reserve, LedgerInv
<1>3. job[j] # None /\ reservation[r] = "none" /\ \A k \in Keys \ job[j].keys : want[k] = 0
  BY <1>1 DEF Reserve, Running, LedgerInv, ReserveLocksWhatItWants
<1>4. /\ Commit(j, Nothing, want, Nothing) /\ items' = [Swept(j) EXCEPT ![r] = want]
      /\ \A k \in job[j].keys : quantity[k] - ReservedAfterSweep(j, k) >= want[k]
      /\ exchange' = exchange /\ bought' = bought /\ reservation' = [reservation EXCEPT ![r] = "held"]
  BY <1>1 DEF Reserve, Available, orders
<1>5. Swept(j) \in [Reservations -> [Keys -> Nat]] /\ IsFiniteSet(Reservations)
  BY SweepSparesLiveHolds, StockAssumption DEF LedgerInv
<1>6. \A k \in Keys : Swept(j)[r][k] = 0
  BY <1>2, <1>3 DEF LedgerInv, HoldsAreHeld, HoldTypes, Swept
<1>7. \A k \in Keys : HeldForExchange(k)' = HeldForExchange(k)
  BY <1>4 DEF HeldForExchange
<1>8. ASSUME NEW k \in Keys PROVE UnitsIn(Reservations, items', k) = UnitsIn(Reservations, Swept(j), k) + want[k]
  <2>1. items'[r][k] = want[k] /\ Swept(j)[r][k] = 0 /\ want[k] \in Nat
    BY <1>2, <1>4, <1>5, <1>6
  <2>2. \A s \in Reservations \ {r} : items'[s][k] = Swept(j)[s][k]
    BY <1>4, <1>5
  <2>3. \A s \in Reservations : Swept(j)[s][k] \in Nat /\ items'[s][k] \in Nat
    BY <1>5, <2>1, <2>2
  <2>4. UnitsIn(Reservations, items', k) = UnitsIn(Reservations, Swept(j), k) - Swept(j)[r][k] + items'[r][k]
    BY <1>2, <1>5, <2>2, <2>3, UnitsChanged
  <2>5. UnitsIn(Reservations, Swept(j), k) \in Nat
    BY <1>3, AfterSweep
  <2> QED BY <2>1, <2>4, <2>5
<1>9. PICK zero : zero = Nothing
  OBVIOUS
<1>10. zero \in [Keys -> Int] /\ want \in [Keys -> Int] /\ \A k \in Keys : zero[k] = 0
  BY <1>2, <1>9 DEF Nothing
<1>11. ASSUME NEW k \in Keys
       PROVE  UnitsIn(Reservations, items', k) + HeldForExchange(k)'
                = UnitsIn(Reservations, Swept(j), k) + HeldForExchange(k) + want[k]
  <2>1. UnitsIn(Reservations, Swept(j), k) \in Nat /\ HeldForExchange(k) \in Nat /\ want[k] \in Nat
    BY <1>2, <1>3, AfterSweep, LedgerNumbers
  <2> QED BY <1>7, <1>8, <2>1
<1>12. ASSUME NEW k \in Keys PROVE ReservedAfterSweep(j, k) + want[k] <= quantity[k] + zero[k]
  <2>1. ReservedAfterSweep(j, k) \in Int /\ ReservedAfterSweep(j, k) <= quantity[k] /\ quantity[k] \in Int /\ want[k] \in Nat
    BY <1>2, <1>3, AfterSweep, LedgerNumbers
  <2>2. k \in job[j].keys \/ want[k] = 0
    BY <1>3
  <2> QED BY <1>4, <1>10, <2>1, <2>2
<1>13. ASSUME NEW k \in Keys PROVE UnitsIn(Reservations, bought', k) = UnitsIn(Reservations, bought, k) + zero[k] - zero[k]
  <2>1. UnitsIn(Reservations, bought, k) \in Nat
    BY LedgerNumbers
  <2> QED BY <1>4, <1>10, <2>1
<1>14. StockLedger' /\ quantity' \in [Keys -> Int] /\ reserved' \in [Keys -> Int] /\ logged' \in [Keys -> Int]
  <2>1. Commit(j, zero, want, zero)
    BY <1>4, <1>9
  <2>2. /\ \A k \in Keys : UnitsIn(Reservations, items', k) + HeldForExchange(k)'
                           = UnitsIn(Reservations, Swept(j), k) + HeldForExchange(k) + want[k]
        /\ \A k \in Keys : ReservedAfterSweep(j, k) + want[k] <= quantity[k] + zero[k]
        /\ \A k \in Keys : UnitsIn(Reservations, bought', k) = UnitsIn(Reservations, bought, k) + zero[k] - zero[k]
    BY <1>11, <1>12, <1>13
  <2>3. job[j] # None /\ zero \in [Keys -> Int] /\ want \in [Keys -> Int]
    BY <1>3, <1>10
  <2> QED BY <2>1, <2>2, <2>3, LedgerCommit
<1>15. HoldsAreHeld'
  <2>1. \A s \in Reservations : s # r => reservation'[s] = reservation[s] /\ items'[s] = Swept(j)[s]
    BY <1>4, <1>5 DEF LedgerInv, HoldTypes
  <2>2. reservation'[r] = "held"
    BY <1>2, <1>4 DEF LedgerInv, HoldTypes
  <2>3. \A s \in Reservations, k \in Keys : items[s][k] = 0 => Swept(j)[s][k] = 0
    BY DEF Swept
  <2> QED BY <1>3, <1>4, <2>1, <2>2, <2>3 DEF LedgerInv, HoldsAreHeld
<1> QED BY <1>4, <1>14, <1>15 DEF LedgerRows, LedgerInv

\* The other transactions only sweep the holds.
LEMMA SweptHolds ==
  ASSUME LedgerInv, NEW j \in Jobs, items' = Swept(j), reservation' = reservation,
         \A r \in Reservations, k \in Keys : bought[r][k] = 0 => bought'[r][k] = 0
  PROVE  HoldsAreHeld'
<1>1. \A r \in Reservations, k \in Keys : items[r][k] = 0 => items'[r][k] = 0
  BY DEF Swept
<1> QED BY <1>1 DEF LedgerInv, HoldsAreHeld

LEMMA SweptCommit ==
  ASSUME LedgerInv, NEW j \in Jobs, job[j] # None, items' = Swept(j),
         NEW q \in [Keys -> Int], NEW a \in [Keys -> Int], Commit(j, q, a, q), bought' = bought,
         \A k \in Keys : HeldForExchange(k)' = HeldForExchange(k) + a[k],
         \A k \in Keys : ReservedAfterSweep(j, k) + a[k] <= quantity[k] + q[k]
  PROVE  StockLedger' /\ quantity' \in [Keys -> Int] /\ reserved' \in [Keys -> Int] /\ logged' \in [Keys -> Int]
<1>1. ASSUME NEW k \in Keys
      PROVE  /\ UnitsIn(Reservations, items', k) + HeldForExchange(k)'
                  = UnitsIn(Reservations, Swept(j), k) + HeldForExchange(k) + a[k]
             /\ UnitsIn(Reservations, bought', k) = UnitsIn(Reservations, bought, k) + q[k] - q[k]
  <2>1. /\ UnitsIn(Reservations, Swept(j), k) \in Nat /\ UnitsIn(Reservations, bought, k) \in Nat
        /\ HeldForExchange(k) \in Nat /\ q[k] \in Int /\ a[k] \in Int
    BY AfterSweep, LedgerNumbers
  <2>2. UnitsIn(Reservations, items', k) = UnitsIn(Reservations, Swept(j), k)
        /\ UnitsIn(Reservations, bought', k) = UnitsIn(Reservations, bought, k)
    OBVIOUS
  <2> QED BY <2>1, <2>2
<1> QED BY <1>1, LedgerCommit

LEMMA RecordMovementLedger ==
  ASSUME LedgerInv, NEW j \in Jobs, RecordMovement(j)
  PROVE  StockLedger' /\ LedgerRows' /\ HoldsAreHeld'
<1>1. PICK key, n : key = job[j].of.key /\ n = job[j].of.delta
  OBVIOUS
<1>2. key \in Keys /\ n \in Int /\ job[j] # None
  <2>1. job[j] # None /\ job[j].type = "movement" /\ job[j] \in Operations
    BY DEF RecordMovement, Running, LedgerInv, HoldTypes
  <2>2. job[j].of \in [key : Keys, delta : Units \cup {-u : u \in Units}]
    BY <2>1 DEF Operations
  <2>3. \A u \in Units : u \in Int /\ -u \in Int
    BY StockAssumption
  <2> QED BY <1>1, <2>1, <2>2, <2>3
<1>3. /\ n < 0 => quantity[key] + n - ReservedAfterSweep(j, key) >= 0
      /\ Commit(j, Only(key, n), Nothing, Only(key, n)) /\ items' = Swept(j)
      /\ exchange' = exchange /\ bought' = bought /\ reservation' = reservation
  BY <1>1 DEF RecordMovement, EnoughUnheld, orders
<1>4. PICK q, a : q = Only(key, n) /\ a = Nothing
  OBVIOUS
<1>5. q \in [Keys -> Int] /\ a \in [Keys -> Int] /\ \A k \in Keys : a[k] = 0 /\ q[k] = IF k = key THEN n ELSE 0
  BY <1>2, <1>4 DEF Only, Nothing
<1>6. ASSUME NEW k \in Keys PROVE HeldForExchange(k)' = HeldForExchange(k) + a[k]
  <2>1. HeldForExchange(k)' = HeldForExchange(k)
    BY <1>3 DEF HeldForExchange
  <2> QED BY <1>5, <2>1, LedgerNumbers
<1>7. ASSUME NEW k \in Keys PROVE ReservedAfterSweep(j, k) + a[k] <= quantity[k] + q[k]
  <2>1. ReservedAfterSweep(j, k) \in Int /\ ReservedAfterSweep(j, k) <= quantity[k] /\ quantity[k] \in Int
    BY <1>2, AfterSweep, LedgerNumbers
  <2> QED BY <1>2, <1>3, <1>5, <2>1
<1>8. StockLedger' /\ quantity' \in [Keys -> Int] /\ reserved' \in [Keys -> Int] /\ logged' \in [Keys -> Int]
  BY <1>2, <1>3, <1>4, <1>5, <1>6, <1>7, SweptCommit
<1>9. HoldsAreHeld'
  BY <1>3, SweptHolds
<1> QED BY <1>3, <1>8, <1>9 DEF LedgerRows, LedgerInv

LEMMA CancelItemsLedger ==
  ASSUME LedgerInv, NEW j \in Jobs, CancelItems(j)
  PROVE  StockLedger' /\ LedgerRows' /\ HoldsAreHeld'
<1>1. PICK r, K : r = job[j].of /\ K = job[j].keys
  OBVIOUS
<1>2. r \in Reservations /\ K \subseteq Keys /\ job[j] # None
  <2>1. job[j] # None /\ job[j].type = "cancelItems" /\ job[j] \in Operations
    BY DEF CancelItems, Running, LedgerInv, HoldTypes
  <2> QED BY <1>1, <2>1 DEF Operations
<1>3. /\ Commit(j, RestockOf(r, K), Nothing, Nothing) /\ items' = Swept(j)
      /\ bought' = [bought EXCEPT ![r] = [k \in Keys |-> IF k \in K THEN 0 ELSE @[k]]]
      /\ exchange' = exchange /\ reservation' = reservation
  BY <1>1 DEF CancelItems
<1>4. bought \in [Reservations -> [Keys -> Nat]] /\ IsFiniteSet(Reservations)
  BY StockAssumption DEF LedgerInv, HoldTypes
<1>5. PICK back, zero : back = RestockOf(r, K) /\ zero = Nothing
  OBVIOUS
<1>6. /\ back \in [Keys -> Int] /\ zero \in [Keys -> Int]
      /\ \A k \in Keys : zero[k] = 0 /\ back[k] = IF k \in K THEN bought[r][k] ELSE 0
  BY <1>2, <1>4, <1>5 DEF RestockOf, Nothing
<1>7. /\ \A s \in Reservations \ {r} : bought'[s] = bought[s]
      /\ \A k \in Keys : bought'[r][k] = IF k \in K THEN 0 ELSE bought[r][k]
  BY <1>2, <1>3, <1>4
<1>8. ASSUME NEW k \in Keys
      PROVE  /\ UnitsIn(Reservations, items', k) + HeldForExchange(k)'
                  = UnitsIn(Reservations, Swept(j), k) + HeldForExchange(k) + zero[k]
             /\ ReservedAfterSweep(j, k) + zero[k] <= quantity[k] + back[k]
             /\ UnitsIn(Reservations, bought', k) = UnitsIn(Reservations, bought, k) + zero[k] - back[k]
  <2>1. /\ UnitsIn(Reservations, Swept(j), k) \in Nat /\ UnitsIn(Reservations, bought, k) \in Nat
        /\ HeldForExchange(k) \in Nat /\ quantity[k] \in Int
        /\ ReservedAfterSweep(j, k) \in Int /\ ReservedAfterSweep(j, k) <= quantity[k]
    BY <1>2, AfterSweep, LedgerNumbers
  <2>2. HeldForExchange(k)' = HeldForExchange(k)
    BY <1>3 DEF HeldForExchange
  <2>3. UnitsIn(Reservations, items', k) = UnitsIn(Reservations, Swept(j), k)
    BY <1>3
  <2>4. \A s \in Reservations : bought[s][k] \in Nat
    BY <1>4
  <2>5. \A s \in Reservations : bought'[s][k] \in Nat
    BY <1>7, <2>4
  <2>6. UnitsIn(Reservations, bought', k) = UnitsIn(Reservations, bought, k) - bought[r][k] + bought'[r][k]
    BY <1>2, <1>4, <1>7, <2>4, <2>5, UnitsChanged
  <2>7. zero[k] = 0 /\ back[k] = bought[r][k] - bought'[r][k] /\ back[k] \in Nat
    BY <1>2, <1>6, <1>7, <2>4
  <2>8. bought[r][k] \in Nat /\ bought'[r][k] \in Nat
    BY <1>2, <2>4, <2>5
  <2> QED BY <2>1, <2>2, <2>3, <2>6, <2>7, <2>8
<1>9. StockLedger' /\ quantity' \in [Keys -> Int] /\ reserved' \in [Keys -> Int] /\ logged' \in [Keys -> Int]
  <2>1. Commit(j, back, zero, zero)
    BY <1>3, <1>5
  <2>2. /\ \A k \in Keys : UnitsIn(Reservations, items', k) + HeldForExchange(k)'
                           = UnitsIn(Reservations, Swept(j), k) + HeldForExchange(k) + zero[k]
        /\ \A k \in Keys : ReservedAfterSweep(j, k) + zero[k] <= quantity[k] + back[k]
        /\ \A k \in Keys : UnitsIn(Reservations, bought', k) = UnitsIn(Reservations, bought, k) + zero[k] - back[k]
    BY <1>8
  <2>3. job[j] # None /\ zero \in [Keys -> Int] /\ back \in [Keys -> Int]
    BY <1>2, <1>6
  <2> QED BY <2>1, <2>2, <2>3, LedgerCommit
<1>10. HoldsAreHeld'
  <2>1. \A s \in Reservations, k \in Keys : bought[s][k] = 0 => bought'[s][k] = 0
    BY <1>7
  <2> QED BY <1>3, <2>1, SweptHolds
<1> QED BY <1>3, <1>9, <1>10 DEF LedgerRows, LedgerInv

LEMMA ExchangeJob ==
  ASSUME LedgerInv, NEW j \in Jobs, Running(j, "approve") \/ Running(j, "fulfil") \/ Running(j, "expireCode")
  PROVE  job[j] # None /\ job[j].of \in Exchanges /\ Replacement[job[j].of] \in Keys /\ Original[job[j].of] \in Keys
         /\ Replacement[job[j].of] # Original[job[j].of]
<1>1. job[j] # None /\ job[j].type \in {"approve", "fulfil", "expireCode"} /\ job[j] \in Operations
  BY DEF Running, LedgerInv, HoldTypes
<1>2. job[j].of \in Exchanges
  BY <1>1 DEF Operations
<1> QED BY <1>1, <1>2, StockAssumption

LEMMA ApproveLedger ==
  ASSUME LedgerInv, NEW j \in Jobs, ApproveExchange(j)
  PROVE  StockLedger' /\ LedgerRows' /\ HoldsAreHeld'
<1>1. PICK x, key : x = job[j].of /\ key = Replacement[x]
  OBVIOUS
<1>2. job[j] # None /\ x \in Exchanges /\ key \in Keys
  BY <1>1, ExchangeJob DEF ApproveExchange
<1>3. /\ exchange[x] = "requested" /\ quantity[key] - ReservedAfterSweep(j, key) >= 1
      /\ Commit(j, Nothing, Only(key, 1), Nothing) /\ items' = Swept(j)
      /\ exchange' = [exchange EXCEPT ![x] = "held"] /\ bought' = bought /\ reservation' = reservation
  BY <1>1 DEF ApproveExchange, Available, orders
<1>4. exchange \in [Exchanges -> {"requested", "held", "closed"}]
  BY DEF LedgerInv, LedgerRows
<1>5. PICK q, a : q = Nothing /\ a = Only(key, 1)
  OBVIOUS
<1>6. q \in [Keys -> Int] /\ a \in [Keys -> Int] /\ \A k \in Keys : q[k] = 0 /\ a[k] = IF k = key THEN 1 ELSE 0
  BY <1>2, <1>5 DEF Only, Nothing
<1>7. ASSUME NEW k \in Keys PROVE HeldForExchange(k)' = HeldForExchange(k) + a[k]
  <2>1. exchange[x] # "held" /\ exchange'[x] = "held" /\ \A y \in Exchanges \ {x} : exchange'[y] = exchange[y]
    BY <1>2, <1>3, <1>4
  <2>2. HeldForExchange(k)' = HeldForExchange(k) + Only(Replacement[x], 1)[k]
    BY <1>2, <2>1, ExchangesHeld
  <2> QED BY <1>1, <1>5, <2>2
<1>8. ASSUME NEW k \in Keys PROVE ReservedAfterSweep(j, k) + a[k] <= quantity[k] + q[k]
  <2>1. ReservedAfterSweep(j, k) \in Int /\ ReservedAfterSweep(j, k) <= quantity[k] /\ quantity[k] \in Int
    BY <1>2, AfterSweep, LedgerNumbers
  <2> QED BY <1>3, <1>6, <2>1
<1>9. StockLedger' /\ quantity' \in [Keys -> Int] /\ reserved' \in [Keys -> Int] /\ logged' \in [Keys -> Int]
  BY <1>2, <1>3, <1>5, <1>6, <1>7, <1>8, SweptCommit
<1>10. HoldsAreHeld'
  BY <1>3, SweptHolds
<1>11. exchange' \in [Exchanges -> {"requested", "held", "closed"}]
  BY <1>3, <1>4
<1> QED BY <1>9, <1>10, <1>11 DEF LedgerRows

\* An exchange's unit leaves the books of holds, and the shelf with it or not.
LEMMA CloseExchange ==
  ASSUME LedgerInv, NEW j \in Jobs, job[j] # None, NEW x \in Exchanges, exchange[x] = "held",
         exchange' = [exchange EXCEPT ![x] = "closed"], items' = Swept(j), bought' = bought, reservation' = reservation,
         NEW q \in [Keys -> Int], \A k \in Keys : q[k] >= Only(Replacement[x], -1)[k],
         Commit(j, q, Only(Replacement[x], -1), q)
  PROVE  StockLedger' /\ LedgerRows' /\ HoldsAreHeld'
<1>1. PICK key, a : key = Replacement[x] /\ a = Only(key, -1)
  OBVIOUS
<1>2. key \in Keys /\ exchange \in [Exchanges -> {"requested", "held", "closed"}]
  BY <1>1, StockAssumption DEF LedgerInv, LedgerRows
<1>3. a \in [Keys -> Int] /\ \A k \in Keys : a[k] = IF k = key THEN -1 ELSE 0
  BY <1>1, <1>2 DEF Only, Nothing
<1>4. ASSUME NEW k \in Keys PROVE HeldForExchange(k)' = HeldForExchange(k) + a[k]
  <2>1. exchange[x] = "held" /\ exchange'[x] # "held" /\ \A y \in Exchanges \ {x} : exchange'[y] = exchange[y]
    BY <1>2
  <2>2. HeldForExchange(k)' = HeldForExchange(k) + Only(Replacement[x], -1)[k]
    BY <2>1, ExchangesHeld
  <2> QED BY <1>1, <2>2
<1>5. ASSUME NEW k \in Keys PROVE ReservedAfterSweep(j, k) + a[k] <= quantity[k] + q[k]
  <2>1. ReservedAfterSweep(j, k) \in Int /\ ReservedAfterSweep(j, k) <= quantity[k] /\ quantity[k] \in Int
    BY AfterSweep, LedgerNumbers
  <2>2. q[k] >= a[k] /\ q[k] \in Int /\ a[k] \in Int
    BY <1>1, <1>3
  <2> QED BY <2>1, <2>2
<1>6. StockLedger' /\ quantity' \in [Keys -> Int] /\ reserved' \in [Keys -> Int] /\ logged' \in [Keys -> Int]
  <2>1. Commit(j, q, a, q)
    BY <1>1
  <2> QED BY <1>3, <1>4, <1>5, <2>1, SweptCommit
<1>7. HoldsAreHeld'
  BY SweptHolds
<1>8. exchange' \in [Exchanges -> {"requested", "held", "closed"}]
  BY <1>2
<1> QED BY <1>6, <1>7, <1>8 DEF LedgerRows

LEMMA FulfilLedger ==
  ASSUME LedgerInv, NEW j \in Jobs, FulfilExchange(j)
  PROVE  StockLedger' /\ LedgerRows' /\ HoldsAreHeld'
<1>1. PICK x, back, moved :
        /\ x = job[j].of /\ back = IF Original[x] \in job[j].keys THEN 1 ELSE 0
        /\ moved = [Only(Replacement[x], -1) EXCEPT ![Original[x]] = back]
  OBVIOUS
<1>2. job[j] # None /\ x \in Exchanges /\ Replacement[x] \in Keys /\ Original[x] \in Keys /\ Replacement[x] # Original[x]
  BY <1>1, ExchangeJob DEF FulfilExchange
<1>3. /\ exchange[x] = "held" /\ Commit(j, moved, Only(Replacement[x], -1), moved)
      /\ items' = Swept(j) /\ exchange' = [exchange EXCEPT ![x] = "closed"] /\ bought' = bought /\ reservation' = reservation
  BY <1>1 DEF FulfilExchange, StillHeld, orders
<1>4. PICK a : a = Only(Replacement[x], -1)
  OBVIOUS
<1>5. a \in [Keys -> Int] /\ \A k \in Keys : a[k] = IF k = Replacement[x] THEN -1 ELSE 0
  BY <1>2, <1>4 DEF Only, Nothing
<1>6. moved = [a EXCEPT ![Original[x]] = back] /\ back \in {0, 1}
  BY <1>1, <1>4
<1>7. moved \in [Keys -> Int] /\ \A k \in Keys : moved[k] >= a[k]
  BY <1>2, <1>5, <1>6
<1> QED BY <1>2, <1>3, <1>4, <1>7, CloseExchange

LEMMA ExpireCodeLedger ==
  ASSUME LedgerInv, NEW j \in Jobs, ExpireCode(j)
  PROVE  StockLedger' /\ LedgerRows' /\ HoldsAreHeld'
<1>1. PICK x : x = job[j].of
  OBVIOUS
<1>2. job[j] # None /\ x \in Exchanges /\ Replacement[x] \in Keys
  BY <1>1, ExchangeJob DEF ExpireCode
<1>3. /\ exchange[x] = "held" /\ Commit(j, Nothing, Only(Replacement[x], -1), Nothing)
      /\ items' = Swept(j) /\ exchange' = [exchange EXCEPT ![x] = "closed"] /\ bought' = bought /\ reservation' = reservation
  BY <1>1 DEF ExpireCode, StillHeld, orders
<1>4. PICK a, q : a = Only(Replacement[x], -1) /\ q = Nothing
  OBVIOUS
<1>5. q \in [Keys -> Int] /\ \A k \in Keys : q[k] = 0 /\ a[k] = IF k = Replacement[x] THEN -1 ELSE 0
  BY <1>2, <1>4 DEF Only, Nothing
<1>6. \A k \in Keys : q[k] >= a[k]
  BY <1>5
<1>7. Commit(j, q, Only(Replacement[x], -1), q)
  BY <1>3, <1>4
<1>8. \A k \in Keys : q[k] >= Only(Replacement[x], -1)[k]
  BY <1>4, <1>6
<1> QED BY <1>2, <1>3, <1>5, <1>7, <1>8, CloseExchange

\* The holds of r end: its units leave the counter, and the shelf if it is confirmed.
LEMMA EndHoldLedger ==
  ASSUME LedgerInv, NEW r \in Reservations, reservation[r] = "held",
         reserved' = [k \in Keys |-> reserved[k] - items[r][k]], items' = [items EXCEPT ![r] = Nothing],
         reservation' = [reservation EXCEPT ![r] = "gone"], logged' = logged, exchange' = exchange,
         \/ quantity' = quantity /\ bought' = bought
         \/ quantity' = [k \in Keys |-> quantity[k] - items[r][k]] /\ bought' = [bought EXCEPT ![r] = items[r]]
  PROVE  StockLedger' /\ LedgerRows' /\ HoldsAreHeld'
<1>1. /\ items \in [Reservations -> [Keys -> Nat]] /\ bought \in [Reservations -> [Keys -> Nat]]
      /\ reservation \in [Reservations -> {"none", "held", "gone"}]
      /\ IsFiniteSet(Reservations) /\ \A k \in Keys : Nothing[k] = 0
  BY StockAssumption DEF LedgerInv, HoldTypes, Nothing
<1>2. /\ \A k \in Keys : items'[r][k] = 0 /\ bought[r][k] = 0
      /\ \A s \in Reservations \ {r} : items'[s] = items[s] /\ bought'[s] = bought[s] /\ reservation'[s] = reservation[s]
      /\ reservation'[r] = "gone"
  BY <1>1 DEF LedgerInv, HoldsAreHeld
<1>3. ASSUME NEW k \in Keys
      PROVE  /\ quantity'[k] \in Int /\ reserved'[k] \in Int
             /\ reserved'[k] = UnitsIn(Reservations, items', k) + HeldForExchange(k)'
             /\ reserved'[k] <= quantity'[k]
             /\ quantity'[k] = logged'[k] - UnitsIn(Reservations, bought', k)
  <2>1. /\ UnitsIn(Reservations, items, k) \in Nat /\ UnitsIn(Reservations, bought, k) \in Nat
        /\ HeldForExchange(k) \in Nat
        /\ quantity[k] \in Int /\ reserved[k] \in Int /\ logged[k] \in Int
        /\ reserved[k] = UnitsIn(Reservations, items, k) + HeldForExchange(k)
        /\ reserved[k] <= quantity[k]
        /\ quantity[k] = logged[k] - UnitsIn(Reservations, bought, k)
    BY LedgerNumbers
  <2>2. HeldForExchange(k)' = HeldForExchange(k)
    BY DEF HeldForExchange
  <2>3. \A s \in Reservations : items[s][k] \in Nat /\ bought[s][k] \in Nat
    BY <1>1
  <2>4. items'[r][k] = 0 /\ bought[r][k] = 0 /\ reserved'[k] = reserved[k] - items[r][k] /\ logged'[k] = logged[k]
    BY <1>2
  <2>5. \A s \in Reservations \ {r} : items'[s][k] = items[s][k] /\ bought'[s][k] = bought[s][k]
    BY <1>2
  <2>6. \/ quantity'[k] = quantity[k] /\ bought'[r][k] = 0
        \/ quantity'[k] = quantity[k] - items[r][k] /\ bought'[r][k] = items[r][k]
    BY <1>1, <2>4
  <2>7. \A s \in Reservations : items'[s][k] \in Nat /\ bought'[s][k] \in Nat
    BY <2>3, <2>4, <2>5, <2>6
  <2>8. UnitsIn(Reservations, items', k) = UnitsIn(Reservations, items, k) - items[r][k] + items'[r][k]
    <3>1. PICK left : left = items'
      OBVIOUS
    <3>2. \A s \in Reservations : items[s][k] \in Nat /\ left[s][k] \in Nat
      BY <2>3, <2>7, <3>1
    <3>3. \A s \in Reservations \ {r} : left[s][k] = items[s][k]
      BY <2>5, <3>1
    <3>4. UnitsIn(Reservations, left, k) = UnitsIn(Reservations, items, k) - items[r][k] + left[r][k]
      BY <1>1, <3>2, <3>3, UnitsChanged
    <3> QED BY <3>1, <3>4
  <2>9. UnitsIn(Reservations, bought', k) = UnitsIn(Reservations, bought, k) - bought[r][k] + bought'[r][k]
    <3>1. \A s \in Reservations : bought[s][k] \in Nat /\ bought'[s][k] \in Nat
      BY <2>3, <2>7
    <3>2. \A s \in Reservations \ {r} : bought'[s][k] = bought[s][k]
      BY <2>5
    <3> QED BY <1>1, <3>1, <3>2, UnitsChanged
  <2>10. items[r][k] \in Nat
    BY <2>3
  <2> QED BY <2>1, <2>2, <2>4, <2>6, <2>8, <2>9, <2>10
<1>4. StockLedger'
  BY <1>3 DEF StockLedger
<1>5. LedgerRows'
  <2>1. quantity' \in [Keys -> Int] /\ reserved' \in [Keys -> Int]
    BY <1>3 DEF LedgerInv, LedgerRows
  <2> QED BY <2>1 DEF LedgerInv, LedgerRows
<1>6. HoldsAreHeld'
  BY <1>2 DEF LedgerInv, HoldsAreHeld
<1> QED BY <1>4, <1>5, <1>6

LEMMA ReservationLedger ==
  ASSUME LedgerInv, NEW r \in Reservations, ReservationStep(r)
  PROVE  StockLedger' /\ LedgerRows' /\ HoldsAreHeld' /\ UNCHANGED job
<1>1. CASE CancelReservation(r)
  <2>1. /\ reservation[r] = "held" /\ reserved' = [k \in Keys |-> reserved[k] - items[r][k]]
        /\ items' = [items EXCEPT ![r] = Nothing] /\ reservation' = [reservation EXCEPT ![r] = "gone"]
        /\ UNCHANGED <<quantity, logged, bought, exchange, job>>
    BY <1>1 DEF CancelReservation, DeleteReservation, ReleaseHolds, orders
  <2> QED BY <2>1, EndHoldLedger
<1>2. CASE ConfirmOrder(r)
  <2>1. /\ reservation[r] = "held" /\ reserved' = [k \in Keys |-> reserved[k] - items[r][k]]
        /\ items' = [items EXCEPT ![r] = Nothing] /\ reservation' = [reservation EXCEPT ![r] = "gone"]
        /\ quantity' = [k \in Keys |-> quantity[k] - items[r][k]] /\ bought' = [bought EXCEPT ![r] = items[r]]
        /\ UNCHANGED <<logged, exchange, job>>
    BY <1>2 DEF ConfirmOrder
  <2> QED BY <2>1, EndHoldLedger
<1>3. CASE ConfirmCheck(r) \/ ConfirmFails(r) \/ Expire(r)
  <2>1. UNCHANGED <<quantity, reserved, logged, items, bought, reservation, exchange, job>>
    BY <1>3 DEF ConfirmCheck, ConfirmFails, Expire, stockRow, orders
  <2> QED BY <2>1 DEF StockLedger, LedgerRows, HoldsAreHeld, LedgerInv, HeldForExchange
<1> QED BY <1>1, <1>2, <1>3 DEF ReservationStep

LEMMA ReserveKeysStay ==
  ASSUME LedgerInv, NEW j \in Jobs, BeginStep(j) \/ CommitStep(j) PROVE ReserveLocksWhatItWants'
<1>1. job \in [Jobs -> Operations \cup {None}]
  BY DEF LedgerInv, HoldTypes
<1>2. CASE CommitStep(j)
  <2>1. job' = [job EXCEPT ![j] = None]
    <3>1. CASE Reserve(j) \/ RollBack(j)
      BY <3>1 DEF Reserve, RollBack, Commit
    <3>2. CASE ~(Reserve(j) \/ RollBack(j))
      BY <1>2, <3>2, OtherJobsSweepOnly DEF CommitStep, SweepOnly
    <3> QED BY <3>1, <3>2
  <2> QED BY <1>1, <2>1 DEF LedgerInv, ReserveLocksWhatItWants, Running
<1>3. ASSUME NEW r \in Reservations, NEW want \in Wants, BeginReserve(j, r, want) PROVE ReserveLocksWhatItWants'
  <2>1. PICK o, K : o = [id |-> r, want |-> want] /\ K = {k \in Keys : want[k] > 0}
    OBVIOUS
  <2>2. job' = [job EXCEPT ![j] = [type |-> "reserve", of |-> o, keys |-> K, found |-> ExpiredOn(K)]]
    BY <1>3, <2>1 DEF BeginReserve, Begin
  <2>3. want \in [Keys -> Nat]
    BY StockAssumption
  <2>4. \A k \in Keys \ K : o.want[k] = 0
    BY <2>1, <2>3
  <2> QED BY <1>1, <2>2, <2>4 DEF LedgerInv, ReserveLocksWhatItWants, Running
<1>4. ASSUME NEW type \in {"movement", "cancelItems", "approve", "fulfil", "expireCode"}, NEW o, NEW K, Begin(j, type, o, K)
      PROVE  ReserveLocksWhatItWants'
  BY <1>1, <1>4 DEF Begin, LedgerInv, ReserveLocksWhatItWants, Running
<1>5. CASE BeginStep(j)
  BY <1>3, <1>4, <1>5 DEF BeginStep, BeginMovement, BeginCancelItems, BeginApprove, BeginFulfil, BeginExpireCode
<1> QED BY <1>2, <1>5

LEMMA LedgerStep ==
  ASSUME LedgerInv, [Next]_stockVars PROVE LedgerInv'
<1>1. HoldTypes'
  <2>1. ASSUME NEW j \in Jobs, BeginStep(j) PROVE HoldTypes'
    BY <2>1, BeginTypes DEF LedgerInv, HoldTypes
  <2>2. ASSUME UNCHANGED stockVars PROVE HoldTypes'
    BY <2>2 DEF stockVars, orders, LedgerInv, HoldTypes
  <2> QED BY <2>1, <2>2, CommitTypes, ReservationTypes DEF Next, LedgerInv
<1>2. ASSUME UNCHANGED <<quantity, reserved, logged, items, bought, reservation, exchange>>
      PROVE  StockLedger' /\ LedgerRows' /\ HoldsAreHeld'
  BY <1>2 DEF StockLedger, LedgerRows, HoldsAreHeld, LedgerInv, HeldForExchange
<1>3. ASSUME NEW j \in Jobs, BeginStep(j) PROVE LedgerInv'
  <2>1. UNCHANGED <<stockRow, exchange>>
    BY <1>3 DEF BeginStep, BeginReserve, BeginMovement, BeginCancelItems, BeginApprove, BeginFulfil, BeginExpireCode, Begin
  <2>2. UNCHANGED <<quantity, reserved, logged, items, bought, reservation, exchange>>
    BY <1>3, <2>1, BeginTypes DEF LedgerInv, stockRow
  <2> QED BY <1>1, <1>2, <1>3, <2>2, ReserveKeysStay DEF LedgerInv
<1>4. ASSUME NEW j \in Jobs, CommitStep(j) PROVE LedgerInv'
  <2>1. CASE RollBack(j)
    <3>1. UNCHANGED <<quantity, reserved, logged, items, bought, reservation, exchange>>
      BY <2>1 DEF RollBack, stockRow, orders
    <3> QED BY <1>1, <1>2, <1>4, <3>1, ReserveKeysStay DEF LedgerInv
  <2>2. CASE ~RollBack(j)
    <3>1. StockLedger' /\ LedgerRows' /\ HoldsAreHeld'
      BY <1>4, <2>2, ReserveLedger, RecordMovementLedger, CancelItemsLedger, ApproveLedger, FulfilLedger, ExpireCodeLedger
         DEF CommitStep
    <3> QED BY <1>1, <1>4, <3>1, ReserveKeysStay DEF LedgerInv
  <2> QED BY <2>1, <2>2
<1>5. ASSUME NEW r \in Reservations, ReservationStep(r) PROVE LedgerInv'
  BY <1>1, <1>5, ReservationLedger DEF LedgerInv, ReserveLocksWhatItWants, Running
<1>6. CASE UNCHANGED stockVars
  <2>1. UNCHANGED <<quantity, reserved, logged, items, bought, reservation, exchange, job>>
    BY <1>6 DEF stockVars, stockRow, orders
  <2> QED BY <1>1, <1>2, <2>1 DEF LedgerInv, ReserveLocksWhatItWants, Running
<1> QED BY <1>3, <1>4, <1>5, <1>6 DEF Next

\* The three books of every stock row agree: what is reserved is on hold, what is on
\* hold is on the shelf, and the shelf is the log less what was bought, whatever
\* sweeps, checkouts, movements and exchanges overlap (stock-lock.util.ts).
THEOREM StockLedgerHolds == Spec => []StockLedger
<1>1. Init => LedgerInv
  <2> SUFFICES ASSUME Init PROVE LedgerInv
    OBVIOUS
  <2>1. HoldTypes
    BY HoldInit DEF HoldInv
  <2>2. LedgerRows /\ HoldsAreHeld /\ ReserveLocksWhatItWants
    BY DEF Init, LedgerRows, HoldsAreHeld, ReserveLocksWhatItWants, Running, Nothing
  <2>3. ASSUME NEW k \in Keys
        PROVE  /\ UnitsIn(Reservations, items, k) = 0 /\ UnitsIn(Reservations, bought, k) = 0
               /\ HeldForExchange(k) = 0 /\ reserved[k] = 0 /\ quantity[k] = 0 /\ logged[k] = 0
    <3>1. \A r \in Reservations : items[r][k] = 0 /\ bought[r][k] = 0
      BY DEF Init, Nothing
    <3>2. {x \in Exchanges : exchange[x] = "held" /\ Replacement[x] = k} = {}
      BY DEF Init
    <3>3. HeldForExchange(k) = 0
      BY <3>2, FS_EmptySet DEF HeldForExchange
    <3>4. reserved[k] = 0 /\ quantity[k] = 0 /\ logged[k] = 0
      BY DEF Init, Nothing
    <3> QED BY <3>1, <3>3, <3>4, UnitsNone
  <2> QED BY <2>1, <2>2, <2>3 DEF LedgerInv, StockLedger
<1>2. LedgerInv /\ [Next]_stockVars => LedgerInv'
  BY LedgerStep
<1>3. LedgerInv => StockLedger
  BY DEF LedgerInv
<1> QED BY <1>1, <1>2, <1>3, PTL DEF Spec

----------------------------------------------------------------------------
\* Delivery slots

Transaction == [at : {"discovered", "checked", "inserted"}, slot : Slots, found : SUBSET Checkouts]

SlotTypes ==
  /\ capacity \in [Windows -> (Nat \ {0}) \cup {Null}]
  /\ hours \in [Windows -> Hours]
  /\ exception \in [Slots -> Nat \cup {Closed, Null}]
  /\ hold \in [Checkouts -> {"none", "held", "gone"}]
  /\ lapsed \in [Checkouts -> BOOLEAN]
  /\ slot \in [Checkouts -> Slots \cup {Null}]
  /\ tx \in [Checkouts -> Transaction \cup {Null}]
  /\ order \in [Checkouts -> Slots \cup {Null}]
  /\ active \in [Checkouts -> BOOLEAN]
  /\ promised \in [Checkouts -> Hours \cup {Null}]

\* What becomes of one checkout, from nothing to a hold to an order.
Course(r) ==
  /\ hold[r] = "none" => slot[r] = Null /\ ~lapsed[r]
  /\ hold[r] # "gone" => order[r] = Null /\ ~active[r]
  /\ hold[r] = "held" /\ ~lapsed[r] => slot[r] # Null
  /\ hold[r] = "gone" => slot[r] = Null
  /\ active[r] => order[r] # Null

\* What its open transaction may rely on.
InProgress(r) ==
  /\ tx[r] # Null /\ tx[r].at = "discovered" => hold[r] = "none"
  /\ Confirming(r) => hold[r] = "held" /\ (~lapsed[r] => slot[r] = tx[r].slot)
  /\ tx[r] # Null /\ tx[r].at = "inserted" => Exists(WindowOf(tx[r].slot))

SlotInv == SlotTypes /\ (\A r \in Checkouts : Course(r) /\ InProgress(r)) /\ PromisedHoursKept

LEMMA SlotInit == SlotsInit => SlotInv
BY CalendarAssumption DEF SlotsInit, SlotInv, SlotTypes, Course, InProgress, Confirming, PromisedHoursKept, Exists, Slots

----------------------------------------------------------------------------
\* Steps of one checkout

LEMMA DiscoverKeeps ==
  ASSUME SlotInv, NEW r \in Checkouts, NEW s \in Slots, DiscoverExpired(r, s)
  PROVE  SlotInv'
<1> USE CalendarAssumption DEF SlotInv, SlotTypes, DiscoverExpired, calendar, orderVars
<1>1. SlotTypes'
  BY DEF Transaction, Slots, Exists, HasRoom, WindowOf, Confirming, Course
<1>2. \A x \in Checkouts : Course(x)'
  BY DEF Course, InProgress, Confirming, Transaction, Slots, RowLocked
<1>3. \A x \in Checkouts : InProgress(x)'
  BY DEF Course, InProgress, Confirming, Transaction, Slots, RowLocked, Exists, WindowOf, WindowShared
<1>4. PromisedHoursKept'
  BY DEF PromisedHoursKept, Course, InProgress, Confirming, Transaction, Slots, Exists, WindowOf, HasRoom
<1> QED BY <1>1, <1>2, <1>3, <1>4

LEMMA ReserveKeeps ==
  ASSUME SlotInv, NEW r \in Checkouts, ReserveSlot(r)
  PROVE  SlotInv'
<1> USE CalendarAssumption DEF SlotInv, SlotTypes, ReserveSlot, calendar, orderVars
<1>1. SlotTypes'
  BY DEF Transaction, Slots, Exists, HasRoom, WindowOf, Confirming, Course
<1>2. \A x \in Checkouts : Course(x)'
  BY DEF Course, InProgress, Confirming, Transaction, Slots, RowLocked
<1>3. \A x \in Checkouts : InProgress(x)'
  BY DEF Course, InProgress, Confirming, Transaction, Slots, RowLocked, Exists, WindowOf, WindowShared
<1>4. PromisedHoursKept'
  BY DEF PromisedHoursKept, Course, InProgress, Confirming, Transaction, Slots, Exists, WindowOf, HasRoom
<1> QED BY <1>1, <1>2, <1>3, <1>4

LEMMA RollBackKeeps ==
  ASSUME SlotInv, NEW r \in Checkouts, ReserveRefused(r) \/ ConfirmRolledBack(r)
  PROVE  SlotInv'
<1> USE CalendarAssumption DEF SlotInv, SlotTypes, ReserveRefused, ConfirmRolledBack, calendar, orderVars
<1>1. SlotTypes'
  BY DEF Transaction, Slots, Exists, HasRoom, WindowOf, Confirming, Course
<1>2. \A x \in Checkouts : Course(x)'
  BY DEF Course, InProgress, Confirming, Transaction, Slots, RowLocked
<1>3. \A x \in Checkouts : InProgress(x)'
  BY DEF Course, InProgress, Confirming, Transaction, Slots, RowLocked, Exists, WindowOf, WindowShared
<1>4. PromisedHoursKept'
  BY DEF PromisedHoursKept, Course, InProgress, Confirming, Transaction, Slots, Exists, WindowOf, HasRoom
<1> QED BY <1>1, <1>2, <1>3, <1>4

LEMMA DropKeeps ==
  ASSUME SlotInv, NEW r \in Checkouts, DropReservation(r)
  PROVE  SlotInv'
<1> USE CalendarAssumption DEF SlotInv, SlotTypes, DropReservation, calendar, orderVars
<1>1. SlotTypes'
  BY DEF Transaction, Slots, Exists, HasRoom, WindowOf, Confirming, Course
<1>2. \A x \in Checkouts : Course(x)'
  BY DEF Course, InProgress, Confirming, Transaction, Slots, RowLocked
<1>3. \A x \in Checkouts : InProgress(x)'
  BY DEF Course, InProgress, Confirming, Transaction, Slots, RowLocked, Exists, WindowOf, WindowShared
<1>4. PromisedHoursKept'
  BY DEF PromisedHoursKept, Course, InProgress, Confirming, Transaction, Slots, Exists, WindowOf, HasRoom
<1> QED BY <1>1, <1>2, <1>3, <1>4

LEMMA CheckKeeps ==
  ASSUME SlotInv, NEW r \in Checkouts, CheckHold(r)
  PROVE  SlotInv'
<1> USE CalendarAssumption DEF SlotInv, SlotTypes, CheckHold, calendar, orderVars
<1>1. SlotTypes'
  BY DEF Transaction, Slots, Exists, HasRoom, WindowOf, Confirming, Course
<1>2. \A x \in Checkouts : Course(x)'
  BY DEF Course, InProgress, Confirming, Transaction, Slots, RowLocked
<1>3. \A x \in Checkouts : InProgress(x)'
  BY DEF Course, InProgress, Confirming, Transaction, Slots, RowLocked, Exists, WindowOf, WindowShared
<1>4. PromisedHoursKept'
  BY DEF PromisedHoursKept, Course, InProgress, Confirming, Transaction, Slots, Exists, WindowOf, HasRoom
<1> QED BY <1>1, <1>2, <1>3, <1>4

LEMMA InsertKeeps ==
  ASSUME SlotInv, NEW r \in Checkouts, ConfirmInsert(r)
  PROVE  SlotInv'
<1> USE CalendarAssumption DEF SlotInv, SlotTypes, ConfirmInsert, calendar, orderVars
<1>0. tx' \in [Checkouts -> Transaction \cup {Null}]
  <2>1. tx[r] \in Transaction
    BY DEF Confirming
  <2>2. [tx[r] EXCEPT !.at = "inserted"] \in Transaction
    BY <2>1 DEF Transaction
  <2> QED BY <2>2
<1>1. SlotTypes'
  BY <1>0
<1>2. \A x \in Checkouts : Course(x)'
  BY DEF Course, InProgress, Confirming, Transaction, Slots, RowLocked
<1>3. \A x \in Checkouts : InProgress(x)'
  BY DEF Course, InProgress, Confirming, Transaction, Slots, RowLocked, Exists, WindowOf, WindowShared
<1>4. PromisedHoursKept'
  BY DEF PromisedHoursKept, Course, InProgress, Confirming, Transaction, Slots, Exists, WindowOf, HasRoom
<1> QED BY <1>1, <1>2, <1>3, <1>4

LEMMA CommitKeeps ==
  ASSUME SlotInv, NEW r \in Checkouts, ConfirmCommit(r)
  PROVE  SlotInv'
<1> USE CalendarAssumption DEF SlotInv, SlotTypes, ConfirmCommit, calendar, orderVars
<1>1. SlotTypes'
  BY DEF Transaction, Slots, Exists, HasRoom, WindowOf, Confirming, Course
<1>2. \A x \in Checkouts : Course(x)'
  BY DEF Course, InProgress, Confirming, Transaction, Slots, RowLocked
<1>3. \A x \in Checkouts : InProgress(x)'
  BY DEF Course, InProgress, Confirming, Transaction, Slots, RowLocked, Exists, WindowOf, WindowShared
<1>4. PromisedHoursKept'
  BY DEF PromisedHoursKept, Course, InProgress, Confirming, Transaction, Slots, Exists, WindowOf, HasRoom
<1> QED BY <1>1, <1>2, <1>3, <1>4

LEMMA ExpireKeeps ==
  ASSUME SlotInv, NEW r \in Checkouts, HoldExpires(r)
  PROVE  SlotInv'
<1> USE CalendarAssumption DEF SlotInv, SlotTypes, HoldExpires, calendar, orderVars
<1>1. SlotTypes'
  BY DEF Transaction, Slots, Exists, HasRoom, WindowOf, Confirming, Course
<1>2. \A x \in Checkouts : Course(x)'
  BY DEF Course, InProgress, Confirming, Transaction, Slots, RowLocked
<1>3. \A x \in Checkouts : InProgress(x)'
  BY DEF Course, InProgress, Confirming, Transaction, Slots, RowLocked, Exists, WindowOf, WindowShared
<1>4. PromisedHoursKept'
  BY DEF PromisedHoursKept, Course, InProgress, Confirming, Transaction, Slots, Exists, WindowOf, HasRoom
<1> QED BY <1>1, <1>2, <1>3, <1>4

LEMMA RescheduleKeeps ==
  ASSUME SlotInv, NEW r \in Checkouts, NEW s \in Slots, Reschedule(r, s)
  PROVE  SlotInv'
<1> USE CalendarAssumption DEF SlotInv, SlotTypes, Reschedule, calendar, orderVars
<1>1. SlotTypes'
  BY DEF Transaction, Slots, Exists, HasRoom, WindowOf, Confirming, Course
<1>2. \A x \in Checkouts : Course(x)'
  BY DEF Course, InProgress, Confirming, Transaction, Slots, RowLocked
<1>3. \A x \in Checkouts : InProgress(x)'
  BY DEF Course, InProgress, Confirming, Transaction, Slots, RowLocked, Exists, WindowOf, WindowShared
<1>4. PromisedHoursKept'
  BY DEF PromisedHoursKept, Course, InProgress, Confirming, Transaction, Slots, Exists, WindowOf, HasRoom
<1> QED BY <1>1, <1>2, <1>3, <1>4

LEMMA EndKeeps ==
  ASSUME SlotInv, NEW r \in Checkouts, OrderEnds(r)
  PROVE  SlotInv'
<1> USE CalendarAssumption DEF SlotInv, SlotTypes, OrderEnds, calendar, orderVars
<1>1. SlotTypes'
  BY DEF Transaction, Slots, Exists, HasRoom, WindowOf, Confirming, Course
<1>2. \A x \in Checkouts : Course(x)'
  BY DEF Course, InProgress, Confirming, Transaction, Slots, RowLocked
<1>3. \A x \in Checkouts : InProgress(x)'
  BY DEF Course, InProgress, Confirming, Transaction, Slots, RowLocked, Exists, WindowOf, WindowShared
<1>4. PromisedHoursKept'
  BY DEF PromisedHoursKept, Course, InProgress, Confirming, Transaction, Slots, Exists, WindowOf, HasRoom
<1> QED BY <1>1, <1>2, <1>3, <1>4

----------------------------------------------------------------------------
\* Steps of the owner

LEMMA UpdateKeeps ==
  ASSUME SlotInv, NEW w \in Windows, NEW h \in Hours, NEW c \in Capacities, UpdateWindow(w, h, c)
  PROVE  SlotInv'
<1> USE CalendarAssumption DEF SlotInv, SlotTypes, UpdateWindow, calendar, orderVars
<1>1. SlotTypes'
  BY DEF Slots, Exists
<1>2. \A x \in Checkouts : Course(x)'
  BY DEF Course
<1>3. \A x \in Checkouts : InProgress(x)'
  BY DEF InProgress, Confirming, Transaction, Slots, Exists, WindowOf, WindowShared
<1>4. PromisedHoursKept'
  BY DEF PromisedHoursKept, Course, Slots, Exists, WindowOf, HasActiveOrders, HasOrderHistory, HasLiveHolds, HasSlotRows
<1> QED BY <1>1, <1>2, <1>3, <1>4

LEMMA RemoveKeeps ==
  ASSUME SlotInv, NEW w \in Windows, RemoveWindow(w)
  PROVE  SlotInv'
<1> USE CalendarAssumption DEF SlotInv, SlotTypes, RemoveWindow, calendar, orderVars
<1>1. SlotTypes'
  BY DEF Slots, Exists
<1>2. \A x \in Checkouts : Course(x)'
  BY DEF Course
<1>3. \A x \in Checkouts : InProgress(x)'
  BY DEF InProgress, Confirming, Transaction, Slots, Exists, WindowOf, WindowShared
<1>4. PromisedHoursKept'
  BY DEF PromisedHoursKept, Course, Slots, Exists, WindowOf, HasActiveOrders, HasOrderHistory, HasLiveHolds, HasSlotRows
<1> QED BY <1>1, <1>2, <1>3, <1>4

LEMMA ExceptionKeeps ==
  ASSUME SlotInv, NEW w \in Windows, NEW d \in Dates, (\E x \in Exceptions : CreateException(<<w, d>>, x)) \/ RemoveException(<<w, d>>)
  PROVE  SlotInv'
<1> USE CalendarAssumption DEF SlotInv, SlotTypes, CreateException, RemoveException, calendar, orderVars
<1>1. SlotTypes'
  <2>1. <<w, d>> \in Slots
    BY DEF Slots
  <2>2. exception' \in [Slots -> Nat \cup {Closed, Null}]
    <3>1. CASE \E x \in Exceptions : CreateException(<<w, d>>, x)
      <4>1. PICK x \in Exceptions : exception' = [exception EXCEPT ![<<w, d>>] = x]
        BY <3>1
      <4>2. x \in Nat \cup {Closed, Null}
        OBVIOUS
      <4> QED BY <2>1, <4>1, <4>2
    <3>2. CASE RemoveException(<<w, d>>)
      BY <2>1, <3>2
    <3> QED BY <3>1, <3>2
  <2> QED BY <2>2
<1>2. \A x \in Checkouts : Course(x)'
  BY DEF Course
<1>3. \A x \in Checkouts : InProgress(x)'
  BY DEF InProgress, Confirming, Transaction, Slots, Exists, WindowOf, WindowShared
<1>4. PromisedHoursKept'
  BY DEF PromisedHoursKept, Course, Slots, Exists, WindowOf, HasActiveOrders, HasOrderHistory, HasLiveHolds, HasSlotRows
<1> QED BY <1>1, <1>2, <1>3, <1>4

LEMMA SlotStep == SlotInv /\ [SlotsNext]_slotVars => SlotInv'
<1> SUFFICES ASSUME SlotInv, [SlotsNext]_slotVars PROVE SlotInv'
  OBVIOUS
<1>1. ASSUME NEW r \in Checkouts, CheckoutStep(r) PROVE SlotInv'
  BY <1>1, DiscoverKeeps, ReserveKeeps, RollBackKeeps, DropKeeps, CheckKeeps, InsertKeeps, CommitKeeps, ExpireKeeps
    DEF CheckoutStep, CancelHold
<1>2. ASSUME NEW r \in Checkouts, OrderStep(r) PROVE SlotInv'
  BY <1>2, RescheduleKeeps, EndKeeps DEF OrderStep
<1>3. ASSUME NEW w \in Windows, OwnerStep(w) PROVE SlotInv'
  BY <1>3, UpdateKeeps, RemoveKeeps, ExceptionKeeps DEF OwnerStep
<1>4. CASE UNCHANGED slotVars
  BY <1>4 DEF slotVars, calendar, orderVars, SlotInv, SlotTypes, Course, InProgress, Confirming, PromisedHoursKept, Exists
<1> QED BY <1>1, <1>2, <1>3, <1>4 DEF SlotsNext

LEMMA SlotInvHolds == SlotsSpec => []SlotInv
<1>1. SlotInv /\ [SlotsNext]_slotVars => SlotInv'
  BY SlotStep
<1> QED BY <1>1, SlotInit, PTL DEF SlotsSpec

\* The owner may edit and delete windows as he likes: no customer who holds a
\* slot or has ordered on it finds other hours than those that were promised.
THEOREM PromisedHoursAreKept == SlotsSpec => []PromisedHoursKept
<1>1. SlotInv => PromisedHoursKept
  BY DEF SlotInv
<1> QED BY <1>1, SlotInvHolds, PTL

----------------------------------------------------------------------------
\* Bookings

LEMMA BookingsAreFinite ==
  ASSUME NEW s
  PROVE  /\ IsFiniteSet(LiveSlots(s)) /\ Cardinality(LiveSlots(s)) \in Nat
         /\ IsFiniteSet(ActiveOrders(s)) /\ Cardinality(ActiveOrders(s)) \in Nat
         /\ IsFiniteSet(LiveSlots(s)') /\ Cardinality(LiveSlots(s)') \in Nat
         /\ IsFiniteSet(ActiveOrders(s)') /\ Cardinality(ActiveOrders(s)') \in Nat
<1>1. ASSUME NEW T \in SUBSET Checkouts PROVE IsFiniteSet(T) /\ Cardinality(T) \in Nat
  BY <1>1, CalendarAssumption, FS_Subset, FS_CardinalityType
<1>2. /\ LiveSlots(s) \subseteq Checkouts /\ ActiveOrders(s) \subseteq Checkouts
      /\ LiveSlots(s)' \subseteq Checkouts /\ ActiveOrders(s)' \subseteq Checkouts
  BY DEF LiveSlots, ActiveOrders
<1> QED BY <1>1, <1>2

\* A slot that loses bookings, or keeps them, books nobody.
LEMMA FewerBookings ==
  ASSUME NEW s, LiveSlots(s)' \subseteq LiveSlots(s), ActiveOrders(s)' \subseteq ActiveOrders(s)
  PROVE  ~(Booked(s)' > Booked(s))
<1>1. Cardinality(LiveSlots(s)') <= Cardinality(LiveSlots(s))
  BY BookingsAreFinite, FS_Subset
<1>2. Cardinality(ActiveOrders(s)') <= Cardinality(ActiveOrders(s))
  BY BookingsAreFinite, FS_Subset
<1> QED BY <1>1, <1>2, BookingsAreFinite DEF Booked

\* What BookingRespectsCapacity asks of a step.
Respects(s) ==
  Booked(s)' > Booked(s)
    => \/ /\ exception'[s] # Closed
          /\ Booked(s)' <= EffectiveCapacity(s)'
       \/ \E r \in Checkouts : LateCommit(r) /\ order'[r] = s

LEMMA RoomIsANumber ==
  ASSUME SlotTypes, NEW s \in Slots, Exists(WindowOf(s)), exception[s] # Closed
  PROVE  EffectiveCapacity(s) \in Nat
BY CalendarAssumption DEF SlotTypes, Slots, Exists, WindowOf, EffectiveCapacity

LEMMA ReserveRespects ==
  ASSUME SlotInv, NEW r \in Checkouts, ReserveSlot(r), NEW s \in Slots
  PROVE  Respects(s)
<1> USE DEF SlotInv, SlotTypes
<1>1. hold[r] = "none" /\ slot[r] = Null /\ ~lapsed[r] /\ tx[r].slot \in Slots
  BY DEF ReserveSlot, InProgress, Course, Transaction
<1>2. ActiveOrders(s)' = ActiveOrders(s)
  BY DEF ReserveSlot, orderVars, ActiveOrders
<1>3. CASE s # tx[r].slot
  <2>1. LiveSlots(s)' \subseteq LiveSlots(s)
    BY <1>1, <1>3, CalendarAssumption DEF ReserveSlot, LiveSlots, Slots
  <2> QED BY <1>2, <2>1, FewerBookings DEF Respects
<1>4. CASE s = tx[r].slot
  <2>1. LiveSlots(s)' = LiveSlots(s) \cup {r} /\ r \notin LiveSlots(s)
    BY <1>1, <1>4, CalendarAssumption DEF ReserveSlot, LiveSlots, Slots
  <2>2. Cardinality(LiveSlots(s)') = Cardinality(LiveSlots(s)) + 1
    BY <2>1, BookingsAreFinite, FS_AddElement
  <2>3. HasRoom(s, {}) /\ EffectiveCapacity(s)' = EffectiveCapacity(s) /\ exception' = exception
    BY <1>4 DEF ReserveSlot, calendar, EffectiveCapacity
  <2>4. ActiveOrders(s) \ {} = ActiveOrders(s) /\ EffectiveCapacity(s) \in Nat
    BY <2>3, RoomIsANumber DEF HasRoom
  <2>5. Booked(s)' <= EffectiveCapacity(s)'
    BY <1>2, <2>2, <2>3, <2>4, BookingsAreFinite DEF HasRoom, Booked
  <2> QED BY <2>3, <2>5 DEF Respects, HasRoom
<1> QED BY <1>3, <1>4

LEMMA RescheduleRespects ==
  ASSUME SlotInv, NEW r \in Checkouts, NEW t \in Slots, Reschedule(r, t), NEW s \in Slots
  PROVE  Respects(s)
<1> USE DEF SlotInv, SlotTypes
<1>1. LiveSlots(s)' = LiveSlots(s)
  BY DEF Reschedule, LiveSlots
<1>2. CASE s # t
  <2>1. ActiveOrders(s)' \subseteq ActiveOrders(s)
    BY <1>2 DEF Reschedule, ActiveOrders
  <2> QED BY <1>1, <2>1, FewerBookings DEF Respects
<1>3. CASE s = t
  <2>1. ActiveOrders(s)' = (ActiveOrders(s) \ {r}) \cup {r}
    BY <1>3 DEF Reschedule, ActiveOrders
  <2>2. IsFiniteSet(ActiveOrders(s) \ {r}) /\ Cardinality(ActiveOrders(s) \ {r}) \in Nat
    BY BookingsAreFinite, FS_RemoveElement, FS_CardinalityType
  <2>3. Cardinality(ActiveOrders(s)') = Cardinality(ActiveOrders(s) \ {r}) + 1
    <3>1. r \notin ActiveOrders(s) \ {r}
      OBVIOUS
    <3> QED BY <2>1, <2>2, <3>1, FS_AddElement
  <2>4. HasRoom(s, {r}) /\ EffectiveCapacity(s)' = EffectiveCapacity(s) /\ exception' = exception
    BY <1>3 DEF Reschedule, calendar, EffectiveCapacity
  <2>5. EffectiveCapacity(s) \in Nat
    BY <2>4, RoomIsANumber DEF HasRoom
  <2>6. Booked(s)' <= EffectiveCapacity(s)'
    BY <1>1, <2>2, <2>3, <2>4, <2>5, BookingsAreFinite DEF HasRoom, Booked
  <2> QED BY <2>4, <2>6 DEF Respects, HasRoom
<1> QED BY <1>2, <1>3

\* A hold that becomes its order in time books nothing; a late one is excepted.
LEMMA CommitRespects ==
  ASSUME SlotInv, NEW r \in Checkouts, ConfirmCommit(r), NEW s \in Slots
  PROVE  Respects(s)
<1> USE DEF SlotInv, SlotTypes
<1>1. Confirming(r) /\ ~active[r] /\ order[r] = Null /\ tx[r].slot \in Slots
  BY DEF ConfirmCommit, Confirming, Course, InProgress, Transaction
<1>2. order'[r] = tx[r].slot /\ active'[r]
  BY DEF ConfirmCommit
<1>3. CASE s # tx[r].slot
  <2>1. LiveSlots(s)' \subseteq LiveSlots(s) /\ ActiveOrders(s)' \subseteq ActiveOrders(s)
    BY <1>3, CalendarAssumption DEF ConfirmCommit, LiveSlots, ActiveOrders, Slots
  <2> QED BY <2>1, FewerBookings DEF Respects
<1>4. CASE s = tx[r].slot /\ lapsed[r]
  BY <1>1, <1>2, <1>4 DEF Respects, LateCommit
<1>5. CASE s = tx[r].slot /\ ~lapsed[r]
  <2>1. r \in LiveSlots(s) /\ LiveSlots(s)' = LiveSlots(s) \ {r}
    BY <1>1, <1>5, CalendarAssumption DEF ConfirmCommit, LiveSlots, InProgress, Slots
  <2>2. r \notin ActiveOrders(s) /\ ActiveOrders(s)' = ActiveOrders(s) \cup {r}
    BY <1>1, <1>5 DEF ConfirmCommit, ActiveOrders
  <2>3. Cardinality(LiveSlots(s)') = Cardinality(LiveSlots(s)) - 1
    BY <2>1, BookingsAreFinite, FS_RemoveElement
  <2>4. Cardinality(ActiveOrders(s)') = Cardinality(ActiveOrders(s)) + 1
    BY <2>2, BookingsAreFinite, FS_AddElement
  <2>5. Booked(s)' = Booked(s) /\ Booked(s) \in Nat
    BY <2>3, <2>4, BookingsAreFinite DEF Booked
  <2> QED BY <2>5 DEF Respects
<1> QED BY <1>3, <1>4, <1>5

LEMMA OthersRespect ==
  ASSUME SlotInv, NEW s \in Slots, UNCHANGED slot, UNCHANGED order,
         \A r \in Checkouts : (lapsed[r] => lapsed'[r]) /\ (active'[r] => active[r])
  PROVE  Respects(s)
<1>1. LiveSlots(s)' \subseteq LiveSlots(s) /\ ActiveOrders(s)' \subseteq ActiveOrders(s)
  BY DEF LiveSlots, ActiveOrders
<1> QED BY <1>1, FewerBookings DEF Respects

LEMMA DropRespects ==
  ASSUME SlotInv, NEW r \in Checkouts, DropReservation(r), NEW s \in Slots
  PROVE  Respects(s)
<1>1. LiveSlots(s)' \subseteq LiveSlots(s)
  BY CalendarAssumption DEF DropReservation, LiveSlots, SlotInv, SlotTypes, Slots
<1>2. ActiveOrders(s)' \subseteq ActiveOrders(s)
  BY DEF DropReservation, orderVars, ActiveOrders
<1> QED BY <1>1, <1>2, FewerBookings DEF Respects

\* No new hold, no order that is moved and no hold that becomes an order in time
\* exceeds the capacity the slot has then, however many customers compete.
THEOREM CapacityIsRespected == SlotsSpec => BookingRespectsCapacity
<1>1. ASSUME SlotInv, SlotsNext, NEW s \in Slots PROVE Respects(s)
  <2>1. ASSUME NEW r \in Checkouts, CheckoutStep(r) PROVE Respects(s)
    <3>1. CASE \E t \in Slots : DiscoverExpired(r, t)
      BY <1>1, <3>1, OthersRespect DEF DiscoverExpired, orderVars
    <3>2. CASE ReserveSlot(r) \/ CancelHold(r) \/ ConfirmCommit(r)
      BY <1>1, <3>2, ReserveRespects, DropRespects, CommitRespects DEF CancelHold
    <3>3. CASE ReserveRefused(r) \/ CheckHold(r) \/ ConfirmInsert(r) \/ ConfirmRolledBack(r)
      BY <1>1, <3>3, OthersRespect DEF ReserveRefused, CheckHold, ConfirmInsert, ConfirmRolledBack, orderVars
    <3>4. CASE HoldExpires(r)
      BY <1>1, <3>4, OthersRespect DEF HoldExpires, orderVars, SlotInv, SlotTypes
    <3> QED BY <2>1, <3>1, <3>2, <3>3, <3>4 DEF CheckoutStep
  <2>2. ASSUME NEW r \in Checkouts, OrderStep(r) PROVE Respects(s)
    <3>1. CASE OrderEnds(r)
      BY <1>1, <3>1, OthersRespect DEF OrderEnds, SlotInv, SlotTypes
    <3> QED BY <1>1, <2>2, <3>1, RescheduleRespects DEF OrderStep
  <2>3. ASSUME NEW w \in Windows, OwnerStep(w) PROVE Respects(s)
    BY <1>1, <2>3, OthersRespect DEF OwnerStep, UpdateWindow, RemoveWindow, CreateException, RemoveException, orderVars
  <2> QED BY <1>1, <2>1, <2>2, <2>3 DEF SlotsNext
<1>2. SlotInv /\ [SlotsNext]_slotVars => [\A s \in Slots : Respects(s)]_slotVars
  BY <1>1
<1>3. SlotsSpec => [][\A s \in Slots : Respects(s)]_slotVars
  BY <1>2, SlotInvHolds, PTL DEF SlotsSpec
<1> QED BY <1>3, PTL DEF BookingRespectsCapacity, Respects
=============================================================================
