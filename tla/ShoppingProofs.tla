--------------------------- MODULE ShoppingProofs ---------------------------
(***************************************************************************)
(* Proofs about the small components of the shop, each under its own        *)
(* specification and for any number of concurrent requests: the address book *)
(* and the cart (Shoppers), reviews (Reviews), the tree of categories and the *)
(* limits (Assortment), settings (Settings), listings by page (Pages), restock *)
(* alerts (Restock), what customers are shown (Storefront), and the quote     *)
(* against the reservation (CheckoutRules).                                   *)
(*                                                                         *)
(* Requests that hold a lock exclude each other, so what a request has read   *)
(* under its lock is still so when it commits; the last three are about what   *)
(* is computed in two places, and rest on facts about least elements and sums.  *)
(***************************************************************************)
EXTENDS Shoppers, Reviews, Assortment, Pages, Settings, Restock, Storefront, CheckoutRules,
        FiniteSetTheorems, SequenceTheorems, TLAPS

----------------------------------------------------------------------------
\* Transactions

Alone ==
  /\ DOMAIN running = Requests /\ DOMAIN held = Requests
  /\ \A r, s \in Requests : r # s => held[r] \intersect held[s] = {}

LEMMA NothingRunsAlone ==
  ASSUME NothingRuns PROVE Alone /\ \A r \in Requests : running[r] = Idle /\ held[r] = {}
BY DEF NothingRuns, Alone

LEMMA RunsAlone ==
  ASSUME Alone, NEW r \in Requests, NEW q, NEW locks, Runs(r, q, locks), FreeFor(r, locks)
  PROVE  /\ Alone' /\ running'[r] = q /\ held'[r] = locks
         /\ \A s \in Requests \ {r} : running'[s] = running[s] /\ held'[s] = held[s]
BY DEF Alone, Runs, FreeFor

LEMMA BeginsAlone ==
  ASSUME Alone, NEW r \in Requests, NEW q, NEW locks, Begins(r, q, locks)
  PROVE  /\ Alone' /\ running'[r] = q /\ held'[r] = locks
         /\ \A s \in Requests \ {r} : running'[s] = running[s] /\ held'[s] = held[s] /\ held[s] \intersect locks = {}
<1>1. Runs(r, q, locks) /\ FreeFor(r, locks)
  BY DEF Begins, Free, FreeFor
<1> QED BY <1>1, RunsAlone DEF FreeFor

LEMMA EndsAlone ==
  ASSUME Alone, NEW r \in Requests, Runs(r, Idle, {})
  PROVE  /\ Alone' /\ running'[r] = Idle /\ held'[r] = {}
         /\ \A s \in Requests \ {r} : running'[s] = running[s] /\ held'[s] = held[s] /\ held[s] \intersect held[r] = {}
<1>1. FreeFor(r, {})
  BY DEF FreeFor
<1> QED BY <1>1, RunsAlone DEF Alone

LEMMA WritesAlone ==
  ASSUME Alone, NEW locks, Writes(locks)
  PROVE  Alone' /\ UNCHANGED <<running, held>> /\ \A s \in Requests : held[s] \intersect locks = {}
BY DEF Alone, Writes, Free

(* A set of naturals has a least element.                                       *)
LEMMA LeastElement ==
  ASSUME NEW S \in SUBSET Nat, S # {}
  PROVE  \E a \in S : \A b \in S : a <= b
<1> DEFINE T == {0..x : x \in S}
<1>1. PICK B \in T : \A D \in T : <<D, B>> \notin StrictSubsetOrdering(Nat)
  <2>1. \A x \in S : IsFiniteSet(0..x) /\ 0..x \subseteq Nat
    BY FS_Interval
  <2>2. T \subseteq FiniteSubsetsOf(Nat) /\ T # {}
    BY <2>1 DEF FiniteSubsetsOf
  <2> HIDE DEF T
  <2> QED BY <2>2, FS_StrictSubsetOrderingWellFounded, WFMin
<1>2. PICK x \in S : B = 0..x
  OBVIOUS
<1>3. \A y \in S : x <= y
  <2> SUFFICES ASSUME NEW y \in S, y < x PROVE FALSE
    OBVIOUS
  <2>1. 0..y \in T /\ 0..y \subseteq Nat /\ 0..x \subseteq Nat
    OBVIOUS
  <2>2. 0..y \subseteq 0..x /\ 0..y # 0..x
    <3>1. x \in 0..x /\ x \notin 0..y
      OBVIOUS
    <3> QED BY <3>1
  <2> HIDE DEF T
  <2>3. <<0..y, 0..x>> \in StrictSubsetOrdering(Nat)
    BY Zenon, <2>1, <2>2 DEF StrictSubsetOrdering
  <2> QED BY Zenon, <1>1, <1>2, <2>1, <2>3
<1> QED BY <1>3

----------------------------------------------------------------------------
\* The address book and the cart

Hold == [stage : {"none", "reserved", "ordered", "finished"}, to : Addresses \union {0}, line : Nat, units : Nat]
Line == [id : Nat, units : Nat, last : Nat]

ShopperTyped ==
  /\ address \in [Addresses -> {"none", "saved", "archived", "deleted"}]
  /\ checkout \in [Checkouts -> Hold] /\ cart \in Line /\ wanted \in Nat

(* What a request on the book, or a checkout, knows when it commits.              *)
FitsBook(q, locks) ==
  /\ q.op \in {"create", "default", "delete"} => CustomerProfile \in locks /\ q.to \in Addresses
  /\ q.op = "create" => q.first \in BOOLEAN /\ (q.first <=> Saved = {})
  /\ q.op \in {"default", "delete"} => q.to \in Saved
  /\ q.op = "delete" => q.default \in BOOLEAN /\ (q.default <=> q.to \in defaults)
FitsCheckout(q, locks) ==
  /\ q.op = "change" => q.checkout \in Checkouts /\ q.to \in Addresses
  /\ q.op \in {"confirm", "reconcile"} => q.checkout \in Checkouts /\ OrderRow(q.checkout) \in locks
  /\ q.op = "reconcile" =>
       /\ q.matched \in BOOLEAN
       /\ q.matched => LineRow \in locks /\ cart.units > checkout[q.checkout].units

ShopperInv ==
  /\ Alone /\ ShopperTyped /\ OneDefaultAddress /\ CartKeepsTheRest
  /\ \A r \in Requests : FitsBook(running[r], held[r]) /\ FitsCheckout(running[r], held[r])

(* What a step under the locks L leaves to the others.                         *)
ShopperSteady(L) ==
  /\ CustomerProfile \notin L => Saved' = Saved /\ defaults' = defaults
  /\ LineRow \notin L => cart' = cart
  /\ \A c \in Checkouts : OrderRow(c) \notin L => checkout'[c].units = checkout[c].units

LEMMA ShopperFitsStays ==
  ASSUME NEW L, ShopperSteady(L), NEW q, NEW locks, locks \intersect L = {}, FitsBook(q, locks), FitsCheckout(q, locks)
  PROVE  FitsBook(q, locks)' /\ FitsCheckout(q, locks)'
<1>1. FitsBook(q, locks)'
  <2>1. CASE q.op \in {"create", "default", "delete"}
    <3>1. Saved' = Saved /\ defaults' = defaults
      BY <2>1 DEF FitsBook, ShopperSteady
    <3> QED BY <3>1 DEF FitsBook, CustomerProfile
  <2> QED BY <2>1 DEF FitsBook
<1>2. FitsCheckout(q, locks)'
  <2>1. CASE q.op = "reconcile"
    <3>1. checkout'[q.checkout].units = checkout[q.checkout].units
      BY <2>1 DEF FitsCheckout, ShopperSteady
    <3>2. q.matched => cart' = cart
      BY <2>1 DEF FitsCheckout, ShopperSteady
    <3> QED BY <2>1, <3>1, <3>2 DEF FitsCheckout, OrderRow, LineRow
  <2>2. CASE q.op # "reconcile"
    BY <2>2 DEF FitsCheckout, OrderRow
  <2> QED BY <2>1, <2>2
<1> QED BY <1>1, <1>2

LEMMA ShopperUnmoved ==
  ASSUME ShopperInv, UNCHANGED shopper PROVE ShopperTyped' /\ OneDefaultAddress' /\ CartKeepsTheRest' /\ ShopperSteady({})
<1>1. UNCHANGED <<address, defaults, checkout, cart, wanted>>
  BY DEF shopper
<1>2. Saved' = Saved
  BY <1>1 DEF Saved
<1> QED BY <1>1, <1>2 DEF ShopperInv, ShopperTyped, OneDefaultAddress, CartKeepsTheRest, ShopperSteady

LEMMA ShopperGoesOn ==
  ASSUME ShopperInv, NEW r \in Requests, NEW q, NEW locks, Runs(r, q, locks), FreeFor(r, locks), UNCHANGED shopper,
         FitsBook(q, locks), FitsCheckout(q, locks)
  PROVE  ShopperInv'
<1>1. /\ Alone' /\ running'[r] = q /\ held'[r] = locks
      /\ \A s \in Requests \ {r} : running'[s] = running[s] /\ held'[s] = held[s]
  BY RunsAlone DEF ShopperInv
<1>2. ShopperTyped' /\ OneDefaultAddress' /\ CartKeepsTheRest' /\ ShopperSteady({})
  BY ShopperUnmoved
<1>3. ASSUME NEW s \in Requests PROVE FitsBook(running[s], held[s])' /\ FitsCheckout(running[s], held[s])'
  <2>1. PICK x, l : x = running'[s] /\ l = held'[s]
    OBVIOUS
  <2>2. FitsBook(x, l) /\ FitsCheckout(x, l)
    BY <1>1, <2>1 DEF ShopperInv
  <2>3. FitsBook(x, l)' /\ FitsCheckout(x, l)'
    BY <1>2, <2>2, ShopperFitsStays
  <2> QED BY <2>1, <2>3
<1> QED BY <1>1, <1>2, <1>3 DEF ShopperInv

LEMMA ShopperBegins ==
  ASSUME ShopperInv, NEW r \in Requests, NEW q, NEW locks, Begins(r, q, locks), UNCHANGED shopper,
         FitsBook(q, locks), FitsCheckout(q, locks)
  PROVE  ShopperInv'
<1>1. Runs(r, q, locks) /\ FreeFor(r, locks)
  BY DEF Begins, Free, FreeFor
<1> QED BY <1>1, ShopperGoesOn

LEMMA ShopperEnds ==
  ASSUME ShopperInv, NEW r \in Requests, Runs(r, Idle, {}), NEW L, FreeFor(r, L), ShopperSteady(held[r] \union L),
         ShopperTyped', OneDefaultAddress', CartKeepsTheRest'
  PROVE  ShopperInv'
<1>1. /\ Alone' /\ running'[r] = Idle /\ held'[r] = {}
      /\ \A s \in Requests \ {r} : running'[s] = running[s] /\ held'[s] = held[s] /\ held[s] \intersect held[r] = {}
  BY EndsAlone DEF ShopperInv
<1>2. ASSUME NEW s \in Requests \ {r} PROVE FitsBook(running[s], held[s])' /\ FitsCheckout(running[s], held[s])'
  <2>1. PICK x, l : x = running[s] /\ l = held[s]
    OBVIOUS
  <2>2. FitsBook(x, l) /\ FitsCheckout(x, l) /\ l \intersect (held[r] \union L) = {}
    BY <1>1, <2>1 DEF ShopperInv, FreeFor
  <2>3. FitsBook(x, l)' /\ FitsCheckout(x, l)'
    BY <2>2, ShopperFitsStays
  <2> QED BY <1>1, <2>1, <2>3
<1>3. FitsBook(running[r], held[r])' /\ FitsCheckout(running[r], held[r])'
  BY <1>1 DEF FitsBook, FitsCheckout, Idle
<1> QED BY <1>1, <1>2, <1>3 DEF ShopperInv

LEMMA ShopperWrites ==
  ASSUME ShopperInv, NEW L, Writes(L), ShopperSteady(L), ShopperTyped', OneDefaultAddress', CartKeepsTheRest'
  PROVE  ShopperInv'
<1>1. Alone' /\ UNCHANGED <<running, held>> /\ \A s \in Requests : held[s] \intersect L = {}
  BY WritesAlone DEF ShopperInv
<1>2. ASSUME NEW s \in Requests PROVE FitsBook(running[s], held[s])' /\ FitsCheckout(running[s], held[s])'
  <2>1. PICK x, l : x = running[s] /\ l = held[s]
    OBVIOUS
  <2>2. FitsBook(x, l)' /\ FitsCheckout(x, l)'
    BY <1>1, <2>1, ShopperFitsStays DEF ShopperInv
  <2> QED BY <1>1, <2>1, <2>2
<1> QED BY <1>1, <1>2 DEF ShopperInv

(* The address book: one request at a time, and it reads what it writes.          *)
LEMMA BookEnds ==
  ASSUME ShopperInv, NEW r \in Requests, Runs(r, Idle, {}), NEW L, FreeFor(r, L), CustomerProfile \in held[r],
         address' \in [Addresses -> {"none", "saved", "archived", "deleted"}], UNCHANGED <<checkout, cart, wanted>>,
         OneDefaultAddress'
  PROVE  ShopperInv'
<1>1. ShopperTyped' /\ CartKeepsTheRest'
  BY DEF ShopperInv, ShopperTyped, CartKeepsTheRest
<1>2. ShopperSteady(held[r] \union L)
  BY DEF ShopperSteady
<1> QED BY <1>1, <1>2, ShopperEnds

LEMMA BookFits ==
  ASSUME ShopperInv, NEW r \in Requests
  PROVE  ShopperTyped /\ OneDefaultAddress /\ FitsBook(running[r], held[r]) /\ FitsCheckout(running[r], held[r])
BY DEF ShopperInv

LEMMA CreateAddressKeeps ==
  ASSUME ShopperInv, NEW r \in Requests, CreateAddress(r) PROVE ShopperInv'
<1>1. PICK a \in Addresses : Begins(r, [op |-> "create", to |-> a, first |-> Saved = {}], {CustomerProfile}) /\ UNCHANGED shopper
  BY DEF CreateAddress, BookLocks
<1>2. PICK first \in BOOLEAN : first <=> Saved = {}
  OBVIOUS
<1>3. PICK q : q = [op |-> "create", to |-> a, first |-> first]
  OBVIOUS
<1>4. [op |-> "create", to |-> a, first |-> Saved = {}] = q
  BY <1>2, <1>3
<1>5. FitsBook(q, {CustomerProfile}) /\ FitsCheckout(q, {CustomerProfile})
  BY <1>2, <1>3 DEF FitsBook, FitsCheckout
<1> QED BY <1>1, <1>4, <1>5, ShopperBegins

LEMMA AddressCreatedKeeps ==
  ASSUME ShopperInv, NEW r \in Requests, AddressCreated(r) PROVE ShopperInv'
<1>1. PICK q, a : q = running[r] /\ a = q.to
  OBVIOUS
<1>2. /\ q.op = "create" /\ Runs(r, Idle, {}) /\ (q.first => defaults = {}) /\ UNCHANGED <<checkout, cart, wanted>>
      /\ address' = [address EXCEPT ![a] = "saved"] /\ defaults' = IF q.first THEN {a} ELSE defaults
  BY <1>1 DEF AddressCreated, Commits
<1>3. CustomerProfile \in held[r] /\ a \in Addresses /\ q.first \in BOOLEAN /\ (q.first <=> Saved = {})
  BY <1>1, <1>2, BookFits DEF FitsBook
<1>4. address \in [Addresses -> {"none", "saved", "archived", "deleted"}]
  BY BookFits DEF ShopperTyped
<1>5. address' \in [Addresses -> {"none", "saved", "archived", "deleted"}] /\ Saved' = Saved \union {a}
  BY <1>2, <1>3, <1>4 DEF Saved
<1>6. OneDefaultAddress'
  <2>1. CASE q.first
    BY <1>2, <1>5, <2>1, FS_Singleton DEF OneDefaultAddress
  <2>2. CASE ~q.first
    BY <1>2, <1>3, <1>5, <2>2, BookFits DEF OneDefaultAddress
  <2> QED BY <1>3, <2>1, <2>2
<1>7. FreeFor(r, {})
  BY DEF FreeFor
<1> QED BY <1>2, <1>3, <1>5, <1>6, <1>7, BookEnds

LEMMA SetDefaultKeeps ==
  ASSUME ShopperInv, NEW r \in Requests, NEW a \in Addresses, SetDefault(r, a) PROVE ShopperInv'
<1>1. PICK q : q = [op |-> "default", to |-> a]
  OBVIOUS
<1>2. Begins(r, q, {CustomerProfile}) /\ UNCHANGED shopper /\ a \in Saved
  BY <1>1 DEF SetDefault, BookLocks, Saved
<1>3. FitsBook(q, {CustomerProfile}) /\ FitsCheckout(q, {CustomerProfile})
  BY <1>1, <1>2 DEF FitsBook, FitsCheckout
<1> QED BY <1>2, <1>3, ShopperBegins

LEMMA DefaultSetKeeps ==
  ASSUME ShopperInv, NEW r \in Requests, DefaultSet(r) PROVE ShopperInv'
<1>1. PICK q, a : q = running[r] /\ a = q.to
  OBVIOUS
<1>2. /\ q.op = "default" /\ Runs(r, Idle, {}) /\ FreeFor(r, {AddressRow(a)})
      /\ defaults' = {a} /\ UNCHANGED <<address, checkout, cart, wanted>>
  BY <1>1 DEF DefaultSet, Commits
<1>3. CustomerProfile \in held[r] /\ a \in Saved /\ Saved' = Saved
  BY <1>1, <1>2, BookFits DEF FitsBook, Saved
<1>4. address' \in [Addresses -> {"none", "saved", "archived", "deleted"}]
  BY <1>2, BookFits DEF ShopperTyped
<1>5. OneDefaultAddress'
  BY <1>2, <1>3, FS_Singleton DEF OneDefaultAddress
<1> QED BY <1>2, <1>3, <1>4, <1>5, BookEnds

LEMMA DeleteAddressKeeps ==
  ASSUME ShopperInv, NEW r \in Requests, NEW a \in Addresses, DeleteAddress(r, a) PROVE ShopperInv'
<1>1. PICK default \in BOOLEAN : default <=> a \in defaults
  OBVIOUS
<1>2. PICK used : used = (a \in AtStage({"finished"}))
  OBVIOUS
<1>3. PICK q : q = [op |-> "delete", to |-> a, used |-> used, default |-> default]
  OBVIOUS
<1>4. [op |-> "delete", to |-> a, used |-> a \in AtStage({"finished"}), default |-> a \in defaults] = q
  BY <1>1, <1>2, <1>3
<1>5. Begins(r, q, {CustomerProfile}) /\ UNCHANGED shopper /\ a \in Saved
  BY <1>4 DEF DeleteAddress, BookLocks, Saved
<1>6. FitsBook(q, {CustomerProfile}) /\ FitsCheckout(q, {CustomerProfile})
  BY <1>1, <1>3, <1>5 DEF FitsBook, FitsCheckout
<1> QED BY <1>5, <1>6, ShopperBegins

LEMMA OldestIsOfThem ==
  ASSUME ShopperTyped, NEW S \in SUBSET Addresses, S # {} PROVE OldestOf(S) \in S
<1>1. IsFiniteSet(Addresses)
  BY ShopperAssumption, FS_Interval DEF Addresses
<1>2. IsFiniteSet(S)
  BY <1>1, FS_Subset
<1>3. S \in SUBSET Nat
  BY ShopperAssumption DEF Addresses
<1>4. \E a \in S : \A b \in S : a <= b
  BY <1>2, <1>3, LeastElement
<1> QED BY <1>4 DEF OldestOf

LEMMA AddressDeletedKeeps ==
  ASSUME ShopperInv, NEW r \in Requests, AddressDeleted(r) PROVE ShopperInv'
<1>1. PICK q, a, left, kept : q = running[r] /\ a = q.to /\ left = Saved \ {a} /\ kept = defaults \ {a}
  OBVIOUS
<1>2. PICK gone \in {"archived", "deleted"} : gone = IF q.used THEN "archived" ELSE "deleted"
  OBVIOUS
<1>3. /\ q.op = "delete" /\ Runs(r, Idle, {}) /\ FreeFor(r, {AddressRow(a)}) /\ address' = [address EXCEPT ![a] = gone]
      /\ defaults' = IF q.default /\ left # {} THEN {OldestOf(left)} ELSE kept
      /\ UNCHANGED <<checkout, cart, wanted>>
  BY <1>1, <1>2 DEF AddressDeleted, Commits
<1>4. /\ CustomerProfile \in held[r] /\ a \in Addresses /\ a \in Saved /\ q.default \in BOOLEAN
      /\ q.default <=> a \in defaults
  BY <1>1, <1>3, BookFits DEF FitsBook
<1>5. address \in [Addresses -> {"none", "saved", "archived", "deleted"}] /\ OneDefaultAddress
  BY BookFits DEF ShopperTyped
<1>6. address' \in [Addresses -> {"none", "saved", "archived", "deleted"}]
  BY <1>2, <1>3, <1>5
<1>7. Saved' = left
  BY <1>1, <1>2, <1>3, <1>4, <1>5 DEF Saved
<1>8. OneDefaultAddress'
  <2>1. CASE q.default /\ left # {}
    <3>1. left \in SUBSET Addresses
      BY <1>1 DEF Saved
    <3>2. OldestOf(left) \in left
      BY <2>1, <3>1, OldestIsOfThem, BookFits
    <3> QED BY <1>3, <1>7, <2>1, <3>2, FS_Singleton DEF OneDefaultAddress
  <2>2. CASE q.default /\ left = {}
    BY <1>1, <1>3, <1>5, <1>7, <2>2 DEF OneDefaultAddress
  <2>3. CASE ~q.default
    <3>1. kept = defaults /\ kept \subseteq left
      BY <1>1, <1>4, <1>5, <2>3 DEF OneDefaultAddress
    <3> QED BY <1>1, <1>3, <1>4, <1>5, <1>7, <2>3, <3>1 DEF OneDefaultAddress
  <2> QED BY <1>4, <2>1, <2>2, <2>3
<1> QED BY <1>3, <1>4, <1>6, <1>8, BookEnds

(* The cart: what a confirmation takes off the line is what it sold.               *)
LEMMA CartWrites ==
  ASSUME ShopperInv, Writes({LineRow}), cart' \in Line, wanted' \in Nat, cart'.units >= wanted', UNCHANGED <<address, defaults, checkout>>
  PROVE  ShopperInv'
<1>1. ShopperTyped' /\ OneDefaultAddress' /\ CartKeepsTheRest' /\ Saved' = Saved
  BY DEF ShopperInv, ShopperTyped, OneDefaultAddress, CartKeepsTheRest, Saved
<1>2. ShopperSteady({LineRow})
  BY <1>1 DEF ShopperSteady
<1> QED BY <1>1, <1>2, ShopperWrites

LEMMA EmptiedFits ==
  ASSUME cart \in Line PROVE Emptied \in Line /\ Emptied.units = 0
<1>1. PICK x : x = [cart EXCEPT !.id = 0]
  OBVIOUS
<1>2. x \in Line
  BY <1>1 DEF Line
<1>3. Emptied = [x EXCEPT !.units = 0]
  BY <1>1 DEF Emptied
<1> QED BY <1>2, <1>3 DEF Line

LEMMA CartEditsKeep ==
  ASSUME ShopperInv, (\E k \in 1..MaxUnits : AddItem(k) \/ UpdateItem(k)) \/ RemoveItem PROVE ShopperInv'
<1>1. cart \in Line /\ wanted \in Nat /\ cart.units >= wanted
  BY DEF ShopperInv, ShopperTyped, CartKeepsTheRest
<1>2. ASSUME NEW k \in 1..MaxUnits, AddItem(k) PROVE ShopperInv'
  <2>1. PICK row : row = IF cart.id = 0 THEN cart.last + 1 ELSE cart.id
    OBVIOUS
  <2>2. k \in Nat /\ row \in Nat
    BY <1>1, <2>1, ShopperAssumption DEF Line
  <2>3. cart' = [id |-> row, units |-> cart.units + k, last |-> IF row > cart.last THEN row ELSE cart.last] /\ wanted' = wanted + k
    BY <1>2, <2>1 DEF AddItem
  <2>4. cart' \in Line /\ wanted' \in Nat /\ cart'.units >= wanted'
    BY <1>1, <2>2, <2>3 DEF Line
  <2> QED BY <1>2, <2>4, CartWrites DEF AddItem
<1>3. ASSUME NEW k \in 1..MaxUnits, UpdateItem(k) PROVE ShopperInv'
  <2>1. k \in Nat /\ cart' = [cart EXCEPT !.units = k] /\ wanted' = k
    BY <1>3, ShopperAssumption DEF UpdateItem
  <2>2. cart' \in Line /\ wanted' \in Nat /\ cart'.units >= wanted'
    BY <1>1, <2>1 DEF Line
  <2> QED BY <1>3, <2>2, CartWrites DEF UpdateItem
<1>4. ASSUME RemoveItem PROVE ShopperInv'
  <2>1. cart' = Emptied /\ wanted' = 0
    BY <1>4 DEF RemoveItem
  <2>2. cart' \in Line /\ wanted' \in Nat /\ cart'.units >= wanted'
    BY <1>1, <2>1, EmptiedFits
  <2> QED BY <1>4, <2>2, CartWrites DEF RemoveItem
<1> QED BY <1>2, <1>3, <1>4

(* Checkouts, each under the lock of its order.                                  *)
LEMMA CheckoutChanges ==
  ASSUME ShopperInv, NEW c \in Checkouts, NEW w \in Hold, checkout' = [checkout EXCEPT ![c] = w],
         NEW L, OrderRow(c) \notin L => w.units = checkout[c].units, UNCHANGED <<address, defaults, cart, wanted>>
  PROVE  ShopperTyped' /\ OneDefaultAddress' /\ CartKeepsTheRest' /\ ShopperSteady(L)
<1>1. checkout \in [Checkouts -> Hold]
  BY DEF ShopperInv, ShopperTyped
<1>2. checkout' \in [Checkouts -> Hold] /\ \A d \in Checkouts : OrderRow(d) \notin L => checkout'[d].units = checkout[d].units
  BY <1>1
<1>3. Saved' = Saved
  BY DEF Saved
<1> QED BY <1>2, <1>3 DEF ShopperInv, ShopperTyped, OneDefaultAddress, CartKeepsTheRest, ShopperSteady

LEMMA CheckoutWritesKeep ==
  ASSUME ShopperInv, NEW c \in Checkouts, Finish(c) \/ ReleaseHold(c) \/ \E a \in Addresses : Reserve(c, a) PROVE ShopperInv'
<1>1. checkout \in [Checkouts -> Hold] /\ cart \in Line
  BY DEF ShopperInv, ShopperTyped
<1>2. ASSUME NEW w \in Hold, checkout' = [checkout EXCEPT ![c] = w], Writes({OrderRow(c)}), UNCHANGED <<address, defaults, cart, wanted>>
      PROVE  ShopperInv'
  <2>1. ShopperTyped' /\ OneDefaultAddress' /\ CartKeepsTheRest' /\ ShopperSteady({OrderRow(c)})
    BY <1>2, CheckoutChanges
  <2> QED BY <1>2, <2>1, ShopperWrites
<1>3. ASSUME NEW s \in {"finished", "none"}, checkout' = [checkout EXCEPT ![c].stage = s], Writes({OrderRow(c)}),
             UNCHANGED <<address, defaults, cart, wanted>>
      PROVE  ShopperInv'
  <2>1. PICK w : w = [checkout[c] EXCEPT !.stage = s]
    OBVIOUS
  <2>2. w \in Hold /\ checkout' = [checkout EXCEPT ![c] = w]
    BY <1>1, <1>3, <2>1 DEF Hold
  <2> QED BY <1>2, <1>3, <2>2
<1>4. ASSUME NEW a \in Addresses, Reserve(c, a) PROVE ShopperInv'
  <2>1. PICK w : w = [stage |-> "reserved", to |-> a, line |-> cart.id, units |-> cart.units]
    OBVIOUS
  <2>2. w \in Hold
    BY <1>1, <2>1 DEF Hold, Line
  <2> QED BY <1>2, <1>4, <2>1, <2>2 DEF Reserve
<1> QED BY <1>3, <1>4 DEF Finish, ReleaseHold

LEMMA ChangeAddressKeeps ==
  ASSUME ShopperInv, NEW r \in Requests, NEW c \in Checkouts, NEW a \in Addresses, ChangeAddress(r, c, a) PROVE ShopperInv'
<1>1. PICK q, locks : q = [op |-> "change", checkout |-> c, to |-> a] /\ locks = {OrderRow(c), AddressRow(a)}
  OBVIOUS
<1>2. Begins(r, q, locks) /\ UNCHANGED shopper
  BY <1>1 DEF ChangeAddress
<1>3. FitsBook(q, locks) /\ FitsCheckout(q, locks)
  BY <1>1 DEF FitsBook, FitsCheckout
<1> QED BY <1>2, <1>3, ShopperBegins

LEMMA AddressChangedKeeps ==
  ASSUME ShopperInv, NEW r \in Requests, AddressChanged(r) PROVE ShopperInv'
<1>1. PICK q, c, a : q = running[r] /\ c = q.checkout /\ a = q.to
  OBVIOUS
<1>2. /\ q.op = "change" /\ Runs(r, Idle, {}) /\ checkout' = [checkout EXCEPT ![c].to = a]
      /\ UNCHANGED <<address, defaults, cart, wanted>>
  BY <1>1 DEF AddressChanged, Commits
<1>3. c \in Checkouts /\ a \in Addresses
  BY <1>1, <1>2, BookFits DEF FitsCheckout
<1>4. checkout \in [Checkouts -> Hold]
  BY BookFits DEF ShopperTyped
<1>5. PICK w : w = [checkout[c] EXCEPT !.to = a]
  OBVIOUS
<1>6. w \in Hold /\ checkout' = [checkout EXCEPT ![c] = w] /\ w.units = checkout[c].units
  BY <1>2, <1>3, <1>4, <1>5 DEF Hold
<1>7. ShopperTyped' /\ OneDefaultAddress' /\ CartKeepsTheRest' /\ ShopperSteady(held[r] \union {})
  BY <1>2, <1>3, <1>6, CheckoutChanges
<1>8. FreeFor(r, {})
  BY DEF FreeFor
<1> QED BY <1>2, <1>7, <1>8, ShopperEnds

LEMMA ConfirmKeeps ==
  ASSUME ShopperInv, NEW r \in Requests, NEW c \in Checkouts, Confirm(r, c) PROVE ShopperInv'
<1>1. PICK q : q = [op |-> "confirm", checkout |-> c]
  OBVIOUS
<1>2. Begins(r, q, {OrderRow(c)}) /\ UNCHANGED shopper
  BY <1>1 DEF Confirm
<1>3. FitsBook(q, {OrderRow(c)}) /\ FitsCheckout(q, {OrderRow(c)})
  BY <1>1 DEF FitsBook, FitsCheckout
<1> QED BY <1>2, <1>3, ShopperBegins

LEMMA DecrementKeeps ==
  ASSUME ShopperInv, NEW r \in Requests, Decrement(r) PROVE ShopperInv'
<1>1. PICK c : c = running[r].checkout
  OBVIOUS
<1>2. running[r].op = "confirm" /\ c \in Checkouts
  BY <1>1, BookFits DEF Decrement, FitsCheckout
<1>3. PICK ours \in BOOLEAN : ours <=> cart.id = checkout[c].line /\ cart.units > checkout[c].units
  OBVIOUS
<1>4. PICK q, locks : /\ q = [op |-> "reconcile", checkout |-> c, matched |-> ours]
                      /\ locks = {OrderRow(c)} \union IF ours THEN {LineRow} ELSE {}
  OBVIOUS
<1>5. Matches(checkout[c].line, checkout[c].units).some = ours
  BY <1>3 DEF Matches
<1>6. Proceeds(r, q, locks) /\ UNCHANGED shopper
  BY <1>1, <1>4, <1>5 DEF Decrement
<1>7. FitsBook(q, locks) /\ FitsCheckout(q, locks)
  BY <1>2, <1>3, <1>4 DEF FitsBook, FitsCheckout
<1> QED BY <1>6, <1>7, ShopperGoesOn DEF Proceeds

LEMMA ConfirmedKeeps ==
  ASSUME ShopperInv, NEW r \in Requests, Confirmed(r) PROVE ShopperInv'
<1>1. PICK q, c, k : q = running[r] /\ c = q.checkout /\ k = checkout[c].units
  OBVIOUS
<1>2. /\ q.op = "reconcile" /\ Runs(r, Idle, {}) /\ FreeFor(r, {LineRow}) /\ UNCHANGED <<address, defaults>>
      /\ wanted' = (IF wanted > k THEN wanted - k ELSE 0) /\ checkout' = [checkout EXCEPT ![c].stage = "ordered"]
  BY <1>1 DEF Confirmed, Commits
<1>3. c \in Checkouts /\ OrderRow(c) \in held[r] /\ q.matched \in BOOLEAN /\ (q.matched => cart.units > k)
  BY <1>1, <1>2, BookFits DEF FitsCheckout
<1>4. checkout \in [Checkouts -> Hold] /\ cart \in Line /\ wanted \in Nat /\ cart.units >= wanted
  BY DEF ShopperInv, ShopperTyped, CartKeepsTheRest
<1>5. k \in Nat /\ wanted' \in Nat
  BY <1>1, <1>2, <1>3, <1>4 DEF Hold
<1>6. cart' \in Line /\ cart'.units >= wanted'
  <2>1. CASE q.matched
    <3>1. cart' = [cart EXCEPT !.units = cart.units - k]
      BY <1>1, <1>4, <2>1 DEF Confirmed, Line
    <3> QED BY <1>2, <1>3, <1>4, <1>5, <2>1, <3>1 DEF Line
  <2>2. CASE ~q.matched
    <3>1. cart' = IF Matches(checkout[c].line, k).all THEN Emptied ELSE cart
      BY <1>1, <2>2 DEF Confirmed
    <3>2. CASE Matches(checkout[c].line, k).all
      <4>1. cart' = Emptied /\ cart.units <= k
        BY <3>1, <3>2 DEF Matches
      <4>2. cart.units \in Nat /\ wanted' = 0
        BY <1>2, <1>4, <1>5, <4>1 DEF Line
      <4> QED BY <1>4, <4>1, <4>2, EmptiedFits
    <3>3. CASE ~Matches(checkout[c].line, k).all
      BY <1>2, <1>4, <1>5, <3>1, <3>3 DEF Line
    <3> QED BY <3>2, <3>3
  <2> QED BY <1>3, <2>1, <2>2
<1>7. PICK w : w = [checkout[c] EXCEPT !.stage = "ordered"]
  OBVIOUS
<1>8. w \in Hold /\ checkout' = [checkout EXCEPT ![c] = w] /\ w.units = checkout[c].units
  BY <1>2, <1>3, <1>4, <1>7 DEF Hold
<1>9. checkout' \in [Checkouts -> Hold] /\ \A d \in Checkouts : checkout'[d].units = checkout[d].units
  BY <1>3, <1>4, <1>8
<1>10. Saved' = Saved
  BY <1>2 DEF Saved
<1>11. ShopperTyped' /\ OneDefaultAddress' /\ CartKeepsTheRest'
  BY <1>2, <1>5, <1>6, <1>9, <1>10 DEF ShopperInv, ShopperTyped, OneDefaultAddress, CartKeepsTheRest
<1>12. ShopperSteady(held[r] \union {LineRow})
  BY <1>2, <1>9, <1>10 DEF ShopperSteady
<1> QED BY <1>2, <1>11, <1>12, ShopperEnds

LEMMA ShopperAbandons ==
  ASSUME ShopperInv, NEW r \in Requests, Abandons(r), UNCHANGED shopper PROVE ShopperInv'
<1>1. FitsBook(Idle, {}) /\ FitsCheckout(Idle, {})
  BY DEF FitsBook, FitsCheckout, Idle
<1> QED BY <1>1, ShopperGoesOn DEF Abandons, FreeFor

LEMMA ShopperInvHolds == ShopperSpec => []ShopperInv
<1>1. ASSUME ShopperInit, NothingRuns PROVE ShopperInv
  <2>1. [stage |-> "none", to |-> 0, line |-> 0, units |-> 0] \in Hold
    BY DEF Hold
  <2>2. ShopperTyped
    BY <1>1, <2>1 DEF ShopperInit, ShopperTyped, Line
  <2>3. Saved = {} /\ OneDefaultAddress
    BY <1>1 DEF ShopperInit, OneDefaultAddress, Saved
  <2>4. CartKeepsTheRest
    BY <1>1 DEF ShopperInit, CartKeepsTheRest
  <2>5. Alone /\ \A r \in Requests : running[r] = Idle
    BY <1>1, NothingRunsAlone
  <2> QED BY <2>2, <2>3, <2>4, <2>5 DEF ShopperInv, FitsBook, FitsCheckout, Idle
<1>2. ASSUME ShopperInv, ShopperNext PROVE ShopperInv'
  <2>1. ASSUME NEW r \in Requests,
               \/ CreateAddress(r) \/ AddressCreated(r) \/ DefaultSet(r) \/ AddressDeleted(r) \/ AddressChanged(r)
               \/ Decrement(r) \/ Confirmed(r) \/ (Abandons(r) /\ UNCHANGED shopper)
        PROVE  ShopperInv'
    BY <1>2, <2>1, CreateAddressKeeps, AddressCreatedKeeps, DefaultSetKeeps, AddressDeletedKeeps, AddressChangedKeeps,
       DecrementKeeps, ConfirmedKeeps, ShopperAbandons
  <2>2. ASSUME NEW r \in Requests, NEW a \in Addresses, SetDefault(r, a) \/ DeleteAddress(r, a) \/ \E c \in Checkouts : ChangeAddress(r, c, a)
        PROVE  ShopperInv'
    BY <1>2, <2>2, SetDefaultKeeps, DeleteAddressKeeps, ChangeAddressKeeps
  <2>3. ASSUME NEW r \in Requests, NEW c \in Checkouts, Confirm(r, c) PROVE ShopperInv'
    BY <1>2, <2>3, ConfirmKeeps
  <2>4. CASE (\E k \in 1..MaxUnits : AddItem(k) \/ UpdateItem(k)) \/ RemoveItem
    BY <1>2, <2>4, CartEditsKeep
  <2>5. ASSUME NEW c \in Checkouts, Finish(c) \/ ReleaseHold(c) \/ \E a \in Addresses : Reserve(c, a) PROVE ShopperInv'
    BY <1>2, <2>5, CheckoutWritesKeep
  <2> QED BY <1>2, <2>1, <2>2, <2>3, <2>4, <2>5 DEF ShopperNext
<1>3. ASSUME ShopperInv, UNCHANGED <<shopper, transactions>> PROVE ShopperInv'
  <2>1. UNCHANGED <<running, held>>
    BY <1>3 DEF transactions
  <2>2. ShopperTyped' /\ OneDefaultAddress' /\ CartKeepsTheRest' /\ ShopperSteady({})
    BY <1>3, ShopperUnmoved
  <2>3. ASSUME NEW s \in Requests PROVE FitsBook(running[s], held[s])' /\ FitsCheckout(running[s], held[s])'
    <3>1. PICK x, l : x = running[s] /\ l = held[s]
      OBVIOUS
    <3>2. FitsBook(x, l)' /\ FitsCheckout(x, l)'
      BY <1>3, <2>2, <3>1, ShopperFitsStays DEF ShopperInv
    <3> QED BY <2>1, <3>1, <3>2
  <2> QED BY <1>3, <2>1, <2>2, <2>3 DEF ShopperInv, Alone
<1> QED BY <1>1, <1>2, <1>3, PTL DEF ShopperSpec

(* A customer who has saved addresses has exactly one default among them, whichever *)
(* requests on the address book overlap (createAddress(), patchAddress(),          *)
(* deleteAddress()).                                                            *)
THEOREM OneDefaultAddressHolds == ShopperSpec => []OneDefaultAddress
BY ShopperInvHolds, PTL DEF ShopperInv

(* A confirmation takes off the cart no more than it sold, whatever the customer      *)
(* adds, sets or removes meanwhile (the reconciliation in confirm()).              *)
THEOREM CartKeepsTheRestHolds == ShopperSpec => []CartKeepsTheRest
BY ShopperInvHolds, PTL DEF ShopperInv

----------------------------------------------------------------------------
\* Reviews

ReviewsTyped ==
  /\ status \in [ReviewIds -> {"none", "VISIBLE", "REPORTED", "HIDDEN"}]
  /\ reports \in [ReviewIds -> [Reporters -> {"none", "PENDING", "UPHELD", "DISMISSED"}]]

Waits(v) == Pending(v) # {} <=> status[v] = "REPORTED"

(* What a report, or a decision, knows of the review it has locked.               *)
FitsReview(q, locks) ==
  /\ q.op \in {"submit", "report", "decide"} => q.review \in ReviewIds
  /\ q.op \in {"report", "decide"} => ReviewRow(q.review) \in locks
  /\ q.op = "report" => q.by \in Reporters /\ q.read = status[q.review] /\ q.read \in {"VISIBLE", "REPORTED"}

ReviewsInv ==
  /\ Alone /\ ReviewsTyped /\ \A v \in ReviewIds : Waits(v)
  /\ \A r \in Requests : FitsReview(running[r], held[r])

(* A submission takes no lock, but it changes a review that was not there.          *)
ReviewsSteady(L) == \A v \in ReviewIds : ReviewRow(v) \notin L /\ status[v] # "none" => status'[v] = status[v]

LEMMA ReviewFitsStays ==
  ASSUME NEW L, ReviewsSteady(L), NEW q, NEW locks, locks \intersect L = {}, FitsReview(q, locks)
  PROVE  FitsReview(q, locks)'
BY DEF FitsReview, ReviewsSteady, ReviewRow

LEMMA ReviewsGoOn ==
  ASSUME ReviewsInv, NEW r \in Requests, NEW q, NEW locks, Runs(r, q, locks), FreeFor(r, locks), UNCHANGED reviewing,
         FitsReview(q, locks)
  PROVE  ReviewsInv'
<1>1. /\ Alone' /\ running'[r] = q /\ held'[r] = locks
      /\ \A s \in Requests \ {r} : running'[s] = running[s] /\ held'[s] = held[s]
  BY RunsAlone DEF ReviewsInv
<1>2. UNCHANGED <<item, status, reports>>
  BY DEF reviewing
<1>3. ReviewsTyped' /\ \A v \in ReviewIds : Waits(v)'
  BY <1>2 DEF ReviewsInv, ReviewsTyped, Waits, Pending
<1>4. ASSUME NEW s \in Requests PROVE FitsReview(running[s], held[s])'
  <2>1. PICK x, l : x = running'[s] /\ l = held'[s]
    OBVIOUS
  <2>2. FitsReview(x, l)
    BY <1>1, <2>1 DEF ReviewsInv
  <2>3. FitsReview(x, l)'
    BY <1>2, <2>2 DEF FitsReview, ReviewRow
  <2> QED BY <2>1, <2>3
<1> QED BY <1>1, <1>3, <1>4 DEF ReviewsInv

LEMMA ReviewsBegin ==
  ASSUME ReviewsInv, NEW r \in Requests, NEW q, NEW locks, Begins(r, q, locks), UNCHANGED reviewing, FitsReview(q, locks)
  PROVE  ReviewsInv'
<1>1. Runs(r, q, locks) /\ FreeFor(r, locks)
  BY DEF Begins, Free, FreeFor
<1> QED BY <1>1, ReviewsGoOn

(* One review changes, under its lock or as it is submitted.                      *)
LEMMA ReviewsEnd ==
  ASSUME ReviewsInv, NEW r \in Requests, Runs(r, Idle, {}), NEW v \in ReviewIds, ReviewRow(v) \in held[r] \/ status[v] = "none",
         NEW s \in {"VISIBLE", "REPORTED", "HIDDEN"}, status' = [status EXCEPT ![v] = s],
         NEW f \in [Reporters -> {"none", "PENDING", "UPHELD", "DISMISSED"}], reports' = [reports EXCEPT ![v] = f],
         s = "REPORTED" <=> \E c \in Reporters : f[c] = "PENDING"
  PROVE  ReviewsInv'
<1>1. /\ Alone' /\ running'[r] = Idle /\ held'[r] = {}
      /\ \A t \in Requests \ {r} : running'[t] = running[t] /\ held'[t] = held[t] /\ held[t] \intersect held[r] = {}
  BY EndsAlone DEF ReviewsInv
<1>2. ReviewsTyped /\ \A u \in ReviewIds : Waits(u)
  BY DEF ReviewsInv
<1>3. /\ \A u \in ReviewIds : u # v => status'[u] = status[u] /\ reports'[u] = reports[u]
      /\ status'[v] = s /\ reports'[v] = f /\ ReviewsTyped'
  BY <1>2 DEF ReviewsTyped
<1>4. ASSUME NEW u \in ReviewIds PROVE Waits(u)'
  <2>1. CASE u = v
    BY <1>3, <2>1 DEF Waits, Pending
  <2>2. CASE u # v
    BY <1>2, <1>3, <2>2 DEF Waits, Pending
  <2> QED BY <2>1, <2>2
<1>5. ReviewsSteady(held[r])
  BY <1>3 DEF ReviewsSteady
<1>6. ASSUME NEW t \in Requests \ {r} PROVE FitsReview(running[t], held[t])'
  <2>1. PICK x, l : x = running[t] /\ l = held[t]
    OBVIOUS
  <2>2. FitsReview(x, l) /\ l \intersect held[r] = {}
    BY <1>1, <2>1 DEF ReviewsInv
  <2>3. FitsReview(x, l)'
    BY <1>5, <2>2, ReviewFitsStays
  <2> QED BY <1>1, <2>1, <2>3
<1>7. FitsReview(running[r], held[r])'
  BY <1>1 DEF FitsReview, Idle
<1> QED BY <1>1, <1>3, <1>4, <1>6, <1>7 DEF ReviewsInv

LEMMA SubmitKeeps ==
  ASSUME ReviewsInv, NEW r \in Requests, NEW i \in Items, NEW target \in Targets, Submit(r, i, target) PROVE ReviewsInv'
<1>1. PICK v \in ReviewIds : v = <<i, target>>
  BY DEF ReviewIds
<1>2. PICK q : q = [op |-> "submit", review |-> v]
  OBVIOUS
<1>3. Begins(r, q, {}) /\ UNCHANGED reviewing
  BY <1>1, <1>2 DEF Submit
<1>4. FitsReview(q, {})
  BY <1>2 DEF FitsReview
<1> QED BY <1>3, <1>4, ReviewsBegin

LEMMA SubmittedKeeps ==
  ASSUME ReviewsInv, NEW r \in Requests, Submitted(r) PROVE ReviewsInv'
<1>1. PICK v, f : v = running[r].review /\ f = reports[v]
  OBVIOUS
<1>2. /\ running[r].op = "submit" /\ Runs(r, Idle, {}) /\ status[v] = "none"
      /\ status' = [status EXCEPT ![v] = "VISIBLE"] /\ reports' = reports
  BY <1>1 DEF Submitted, Commits
<1>3. v \in ReviewIds /\ ReviewsTyped /\ Waits(v)
  BY <1>1, <1>2 DEF ReviewsInv, FitsReview
<1>4. f \in [Reporters -> {"none", "PENDING", "UPHELD", "DISMISSED"}] /\ reports' = [reports EXCEPT ![v] = f]
  BY <1>1, <1>2, <1>3 DEF ReviewsTyped
<1>5. ~ \E c \in Reporters : f[c] = "PENDING"
  BY <1>1, <1>2, <1>3 DEF Waits, Pending
<1> QED BY <1>2, <1>3, <1>4, <1>5, ReviewsEnd

LEMMA ReportKeeps ==
  ASSUME ReviewsInv, NEW r \in Requests, NEW c \in Reporters, NEW v \in ReviewIds, Report(r, c, v) PROVE ReviewsInv'
<1>1. PICK q : q = [op |-> "report", review |-> v, by |-> c, read |-> status[v]]
  OBVIOUS
<1>2. Begins(r, q, {ReviewRow(v)}) /\ UNCHANGED reviewing /\ status[v] \notin {"none", "HIDDEN"}
  BY <1>1 DEF Report, ReviewLocks
<1>3. status[v] \in {"VISIBLE", "REPORTED"}
  BY <1>2 DEF ReviewsInv, ReviewsTyped
<1>4. FitsReview(q, {ReviewRow(v)})
  BY <1>1, <1>3 DEF FitsReview
<1> QED BY <1>2, <1>4, ReviewsBegin

LEMMA ReportedKeeps ==
  ASSUME ReviewsInv, NEW r \in Requests, Reported(r) PROVE ReviewsInv'
<1>1. PICK q, v, c : q = running[r] /\ v = q.review /\ c = q.by
  OBVIOUS
<1>2. /\ q.op = "report" /\ Runs(r, Idle, {}) /\ reports' = [reports EXCEPT ![v][c] = "PENDING"]
      /\ status' = [status EXCEPT ![v] = IF q.read = "VISIBLE" THEN "REPORTED" ELSE status[v]]
  BY <1>1 DEF Reported, Commits
<1>3. /\ v \in ReviewIds /\ c \in Reporters /\ ReviewRow(v) \in held[r] /\ q.read = status[v]
      /\ q.read \in {"VISIBLE", "REPORTED"} /\ ReviewsTyped
  BY <1>1, <1>2 DEF ReviewsInv, FitsReview
<1>4. status' = [status EXCEPT ![v] = "REPORTED"]
  BY <1>2, <1>3
<1>5. PICK f : f = [reports[v] EXCEPT ![c] = "PENDING"]
  OBVIOUS
<1>6. f \in [Reporters -> {"none", "PENDING", "UPHELD", "DISMISSED"}] /\ f[c] = "PENDING"
  BY <1>3, <1>5 DEF ReviewsTyped
<1>7. reports' = [reports EXCEPT ![v] = f]
  BY <1>2, <1>5
<1>8. \E d \in Reporters : f[d] = "PENDING"
  BY <1>3, <1>6
<1>9. PICK s \in {"VISIBLE", "REPORTED", "HIDDEN"} : s = "REPORTED"
  OBVIOUS
<1>10. status' = [status EXCEPT ![v] = s] /\ Runs(r, Idle, {})
  BY <1>2, <1>4, <1>9
<1> QED BY <1>3, <1>6, <1>7, <1>8, <1>9, <1>10, ReviewsEnd

LEMMA DecideKeeps ==
  ASSUME ReviewsInv, NEW r \in Requests, NEW v \in ReviewIds, NEW decision, Decide(r, v, decision) PROVE ReviewsInv'
<1>1. PICK q : q = [op |-> "decide", review |-> v, decision |-> decision]
  OBVIOUS
<1>2. Begins(r, q, {ReviewRow(v)}) /\ UNCHANGED reviewing
  BY <1>1 DEF Decide, ReviewLocks
<1>3. FitsReview(q, {ReviewRow(v)})
  BY <1>1 DEF FitsReview
<1> QED BY <1>2, <1>3, ReviewsBegin

LEMMA DecidedKeeps ==
  ASSUME ReviewsInv, NEW r \in Requests, Decided(r) PROVE ReviewsInv'
<1>1. PICK q, v, result : q = running[r] /\ v = q.review /\ result = IF q.decision = "uphold" THEN "UPHELD" ELSE "DISMISSED"
  OBVIOUS
<1>2. PICK s \in {"VISIBLE", "REPORTED", "HIDDEN"} : s = IF q.decision = "uphold" THEN "HIDDEN" ELSE "VISIBLE"
  OBVIOUS
<1>3. PICK f : f = [c \in Reporters |-> IF c \in Pending(v) THEN result ELSE reports[v][c]]
  OBVIOUS
<1>4. /\ q.op = "decide" /\ Runs(r, Idle, {}) /\ status' = [status EXCEPT ![v] = s] /\ reports' = [reports EXCEPT ![v] = f]
  BY <1>1, <1>2, <1>3 DEF Decided, Commits
<1>5. v \in ReviewIds /\ ReviewRow(v) \in held[r] /\ ReviewsTyped
  BY <1>1, <1>4 DEF ReviewsInv, FitsReview
<1>6. \A c \in Reporters : f[c] \in {"none", "PENDING", "UPHELD", "DISMISSED"} /\ f[c] # "PENDING"
  BY <1>1, <1>3, <1>5 DEF ReviewsTyped, Pending
<1>7. f \in [Reporters -> {"none", "PENDING", "UPHELD", "DISMISSED"}]
  BY <1>3, <1>6
<1>8. s # "REPORTED"
  BY <1>2
<1> QED BY <1>4, <1>5, <1>6, <1>7, <1>8, ReviewsEnd

LEMMA ReviewsAside ==
  ASSUME ReviewsInv, UNCHANGED <<transactions, status, reports>> PROVE ReviewsInv'
<1>1. UNCHANGED <<running, held>>
  BY DEF transactions
<1>2. Alone' /\ ReviewsTyped' /\ \A v \in ReviewIds : Waits(v)'
  BY <1>1 DEF ReviewsInv, Alone, ReviewsTyped, Waits, Pending
<1>3. ReviewsSteady({})
  BY DEF ReviewsSteady
<1>4. ASSUME NEW s \in Requests PROVE FitsReview(running[s], held[s])'
  <2>1. PICK x, l : x = running[s] /\ l = held[s]
    OBVIOUS
  <2>2. FitsReview(x, l)'
    BY <1>3, <2>1, ReviewFitsStays DEF ReviewsInv
  <2> QED BY <1>1, <2>1, <2>2
<1> QED BY <1>2, <1>4 DEF ReviewsInv

LEMMA ReviewsInvHolds == ReviewsSpec => []ReviewsInv
<1>1. ASSUME ReviewsInit, NothingRuns PROVE ReviewsInv
  <2>1. ReviewsTyped
    BY <1>1 DEF ReviewsInit, ReviewsTyped
  <2>2. \A v \in ReviewIds : Waits(v)
    BY <1>1 DEF ReviewsInit, Waits, Pending
  <2> QED BY <1>1, <2>1, <2>2, NothingRunsAlone DEF ReviewsInv, FitsReview, Idle
<1>2. ASSUME ReviewsInv, ReviewsNext PROVE ReviewsInv'
  <2>1. ASSUME NEW i \in Items, Purchase(i) PROVE ReviewsInv'
    BY <1>2, <2>1, ReviewsAside DEF Purchase
  <2>2. ASSUME NEW i \in Items, NEW r \in Requests, NEW target \in Targets, Submit(r, i, target) PROVE ReviewsInv'
    BY <1>2, <2>2, SubmitKeeps
  <2>3. ASSUME NEW r \in Requests, Submitted(r) \/ Reported(r) \/ Decided(r) PROVE ReviewsInv'
    BY <1>2, <2>3, SubmittedKeeps, ReportedKeeps, DecidedKeeps
  <2>4. ASSUME NEW r \in Requests, Abandons(r), UNCHANGED reviewing PROVE ReviewsInv'
    <3>1. FitsReview(Idle, {}) /\ FreeFor(r, {})
      BY DEF FitsReview, Idle, FreeFor
    <3> QED BY <1>2, <2>4, <3>1, ReviewsGoOn DEF Abandons
  <2>5. ASSUME NEW r \in Requests, NEW v \in ReviewIds,
               (\E c \in Reporters : Report(r, c, v)) \/ \E decision \in {"dismiss", "uphold"} : Decide(r, v, decision)
        PROVE  ReviewsInv'
    BY <1>2, <2>5, ReportKeeps, DecideKeeps
  <2> QED BY <1>2, <2>1, <2>2, <2>3, <2>4, <2>5 DEF ReviewsNext
<1>3. ASSUME ReviewsInv, UNCHANGED <<reviewing, transactions>> PROVE ReviewsInv'
  BY <1>3, ReviewsAside DEF reviewing
<1> QED BY <1>1, <1>2, <1>3, PTL DEF ReviewsSpec

(* A review is shown and not rated exactly while a report against it is open,          *)
(* whichever reports and decisions overlap (report(), decide()).                    *)
THEOREM ReportedWhilePendingHolds == ReviewsSpec => []ReportedWhilePending
<1>1. ReviewsInv => ReportedWhilePending
  <2> SUFFICES ASSUME ReviewsInv PROVE ReportedWhilePending
    OBVIOUS
  <2>1. \A v \in ReviewIds : status[v] \in {"none", "VISIBLE", "REPORTED", "HIDDEN"} /\ (Pending(v) # {} <=> status[v] = "REPORTED")
    BY DEF ReviewsInv, ReviewsTyped, Waits
  <2> QED BY <2>1 DEF ReportedWhilePending, Queue, Listed, Rated
<1> QED BY <1>1, ReviewsInvHolds, PTL

----------------------------------------------------------------------------
\* Categories, sections and comparison sets

AssortmentTyped ==
  /\ parent \in [Categories -> Categories \union {Root, "none", "gone"}]
  /\ members \in [Groups -> SUBSET Entries]

ParentsExist == \A c \in Existing : parent[c] \in Existing \union {Root}

(* A parent under which a category may move: there is a way up from it that does     *)
(* not meet the category; or it was removed, and the move is refused.              *)
MayMove(c, p) ==
  \/ p = Root
  \/ p \in Categories /\ parent[p] = "gone"
  \/ \E S \in SUBSET Existing : p \in S /\ c \notin S /\ \A x \in S : parent[x] \in S \union {Root}

FitsTree(q, locks) ==
  /\ q.op \in {"category", "move", "remove"} => q.category \in Categories
  /\ q.op = "move" => TreeLock \in locks /\ MayMove(q.category, q.under)
FitsGroup(q, locks) ==
  q.op = "add" =>
    /\ q.group \in Groups /\ q.entry \in Entries /\ AddLocks(q.group) \subseteq locks
    /\ q.group \in Stores \union sets /\ Cardinality(members[q.group]) < Limit(q.group)

TreeInv == AssortmentTyped /\ ParentsExist /\ CategoriesFormATree /\ LimitsHold
AssortmentInv == Alone /\ TreeInv /\ \A r \in Requests : FitsTree(running[r], held[r]) /\ FitsGroup(running[r], held[r])

TreeSteady(L) == TreeLock \notin L => \A c, p : MayMove(c, p) => MayMove(c, p)'
GroupsSteady(L) ==
  \A g \in Groups : ~(AddLocks(g) \subseteq L) /\ g \in Stores \union sets => members'[g] \subseteq members[g] /\ g \in Stores \union sets'

LEMMA MembersFinite ==
  ASSUME AssortmentTyped, NEW g \in Groups, NEW S \in SUBSET members[g]
  PROVE  IsFiniteSet(members[g]) /\ IsFiniteSet(S) /\ Cardinality(S) <= Cardinality(members[g]) /\ Cardinality(S) \in Nat /\ Cardinality(members[g]) \in Nat
<1>1. members[g] \in SUBSET Entries
  BY DEF AssortmentTyped
<1>2. IsFiniteSet(members[g])
  BY <1>1, LimitAssumption, FS_Subset
<1>3. IsFiniteSet(S) /\ Cardinality(S) <= Cardinality(members[g])
  BY <1>2, FS_Subset
<1> QED BY <1>2, <1>3, FS_CardinalityType

LEMMA LimitIsNatural == ASSUME NEW g PROVE Limit(g) \in Nat
BY LimitAssumption DEF Limit

LEMMA AssortmentFitsStays ==
  ASSUME AssortmentTyped, NEW L, TreeSteady(L), GroupsSteady(L), NEW q, NEW locks, locks \intersect L = {},
         FitsTree(q, locks), FitsGroup(q, locks)
  PROVE  FitsTree(q, locks)' /\ FitsGroup(q, locks)'
<1>1. FitsTree(q, locks)'
  <2>1. q.op = "move" => MayMove(q.category, q.under)'
    BY DEF FitsTree, TreeSteady
  <2> QED BY <2>1 DEF FitsTree, TreeLock
<1>2. ASSUME q.op = "add" PROVE FitsGroup(q, locks)'
  <2>1. PICK g : g = q.group
    OBVIOUS
  <2>2. g \in Groups /\ AddLocks(g) \subseteq locks /\ g \in Stores \union sets /\ Cardinality(members[g]) < Limit(g) /\ q.entry \in Entries
    BY <1>2, <2>1 DEF FitsGroup
  <2>3. ~(AddLocks(g) \subseteq L)
    BY <2>2 DEF AddLocks
  <2>4. members'[g] \subseteq members[g] /\ g \in Stores \union sets'
    BY <2>2, <2>3 DEF GroupsSteady
  <2>5. Cardinality(members'[g]) <= Cardinality(members[g]) /\ Cardinality(members'[g]) \in Nat /\ Cardinality(members[g]) \in Nat
    BY <2>2, <2>4, MembersFinite
  <2>6. Cardinality(members'[g]) < Limit(g)
    BY <2>2, <2>5, LimitIsNatural
  <2> QED BY <2>1, <2>2, <2>4, <2>6 DEF FitsGroup, AddLocks, SectionsLock, SetRow, Limit
<1> QED BY <1>1, <1>2 DEF FitsGroup

LEMMA AssortmentUnmoved ==
  ASSUME AssortmentInv, UNCHANGED assortment PROVE TreeInv' /\ TreeSteady({}) /\ GroupsSteady({})
<1>1. UNCHANGED <<parent, inUse, members, sets>>
  BY DEF assortment
<1>2. Existing' = Existing
  BY <1>1 DEF Existing
<1>3. TreeInv'
  BY <1>1, <1>2 DEF AssortmentInv, TreeInv, AssortmentTyped, ParentsExist, CategoriesFormATree, LimitsHold, Limit
<1>4. TreeSteady({})
  BY <1>1, <1>2 DEF TreeSteady, MayMove
<1> QED BY <1>1, <1>3, <1>4 DEF GroupsSteady

LEMMA AssortmentGoesOn ==
  ASSUME AssortmentInv, NEW r \in Requests, NEW q, NEW locks, Runs(r, q, locks), FreeFor(r, locks), UNCHANGED assortment,
         FitsTree(q, locks), FitsGroup(q, locks)
  PROVE  AssortmentInv'
<1>1. /\ Alone' /\ running'[r] = q /\ held'[r] = locks
      /\ \A s \in Requests \ {r} : running'[s] = running[s] /\ held'[s] = held[s]
  BY RunsAlone DEF AssortmentInv
<1>2. TreeInv' /\ TreeSteady({}) /\ GroupsSteady({})
  BY AssortmentUnmoved
<1>3. ASSUME NEW s \in Requests PROVE FitsTree(running[s], held[s])' /\ FitsGroup(running[s], held[s])'
  <2>1. PICK x, l : x = running'[s] /\ l = held'[s]
    OBVIOUS
  <2>2. FitsTree(x, l) /\ FitsGroup(x, l)
    BY <1>1, <2>1 DEF AssortmentInv
  <2>3. FitsTree(x, l)' /\ FitsGroup(x, l)'
    BY <1>2, <2>2, AssortmentFitsStays DEF AssortmentInv, TreeInv
  <2> QED BY <2>1, <2>3
<1> QED BY <1>1, <1>2, <1>3 DEF AssortmentInv

LEMMA AssortmentBegins ==
  ASSUME AssortmentInv, NEW r \in Requests, NEW q, NEW locks, Begins(r, q, locks), UNCHANGED assortment,
         FitsTree(q, locks), FitsGroup(q, locks)
  PROVE  AssortmentInv'
<1>1. Runs(r, q, locks) /\ FreeFor(r, locks)
  BY DEF Begins, Free, FreeFor
<1> QED BY <1>1, AssortmentGoesOn

LEMMA AssortmentEnds ==
  ASSUME AssortmentInv, NEW r \in Requests, Runs(r, Idle, {}), TreeSteady(held[r]), GroupsSteady(held[r]), TreeInv'
  PROVE  AssortmentInv'
<1>1. /\ Alone' /\ running'[r] = Idle /\ held'[r] = {}
      /\ \A s \in Requests \ {r} : running'[s] = running[s] /\ held'[s] = held[s] /\ held[s] \intersect held[r] = {}
  BY EndsAlone DEF AssortmentInv
<1>2. ASSUME NEW s \in Requests \ {r} PROVE FitsTree(running[s], held[s])' /\ FitsGroup(running[s], held[s])'
  <2>1. PICK x, l : x = running[s] /\ l = held[s]
    OBVIOUS
  <2>2. FitsTree(x, l) /\ FitsGroup(x, l) /\ l \intersect held[r] = {}
    BY <1>1, <2>1 DEF AssortmentInv
  <2>3. FitsTree(x, l)' /\ FitsGroup(x, l)'
    BY <2>2, AssortmentFitsStays DEF AssortmentInv, TreeInv
  <2> QED BY <1>1, <2>1, <2>3
<1>3. FitsTree(running[r], held[r])' /\ FitsGroup(running[r], held[r])'
  BY <1>1 DEF FitsTree, FitsGroup, Idle
<1> QED BY <1>1, <1>2, <1>3 DEF AssortmentInv

LEMMA AssortmentAside ==
  ASSUME AssortmentInv, UNCHANGED <<running, held>>, NEW L, \A s \in Requests : held[s] \intersect L = {},
         TreeSteady(L), GroupsSteady(L), TreeInv'
  PROVE  AssortmentInv'
<1>1. ASSUME NEW s \in Requests PROVE FitsTree(running[s], held[s])' /\ FitsGroup(running[s], held[s])'
  <2>1. PICK x, l : x = running[s] /\ l = held[s]
    OBVIOUS
  <2>2. FitsTree(x, l) /\ FitsGroup(x, l) /\ l \intersect L = {}
    BY <2>1 DEF AssortmentInv
  <2>3. FitsTree(x, l)' /\ FitsGroup(x, l)'
    BY <2>2, AssortmentFitsStays DEF AssortmentInv, TreeInv
  <2> QED BY <2>1, <2>3
<1> QED BY <1>1 DEF AssortmentInv, Alone

(* The tree: attaching a category under another that is not below it leaves a tree.   *)
LEMMA NotParents ==
  /\ Root \notin Categories /\ "none" \notin Categories /\ "gone" \notin Categories
  /\ Root # "none" /\ Root # "gone" /\ Existing \subseteq Categories /\ Root \notin Existing
BY CategoryAssumption DEF Root, Existing

LEMMA AttachKeepsTree ==
  ASSUME AssortmentTyped, ParentsExist, CategoriesFormATree, NEW c \in Categories, NEW p \in Existing \union {Root},
         MayMove(c, p), parent' = [parent EXCEPT ![c] = p]
  PROVE  ParentsExist' /\ CategoriesFormATree' /\ parent' \in [Categories -> Categories \union {Root, "none", "gone"}]
<1>1. parent \in [Categories -> Categories \union {Root, "none", "gone"}]
  BY DEF AssortmentTyped
<1>2. p \in Categories \union {Root} /\ p \notin {"none", "gone"}
  BY NotParents
<1>3. \A x \in Categories : parent'[x] = IF x = c THEN p ELSE parent[x]
  BY <1>1
<1>4. parent' \in [Categories -> Categories \union {Root, "none", "gone"}]
  BY <1>1, <1>2
<1>5. Existing' = Existing \union {c}
  BY <1>2, <1>3 DEF Existing
<1>6. ParentsExist'
  BY <1>3, <1>5, NotParents DEF ParentsExist
<1>7. ASSUME NEW S \in SUBSET Existing', S # {} PROVE \E x \in S : parent'[x] \notin S
  <2>1. S \subseteq Categories /\ S \subseteq Existing \union {c}
    BY <1>5, NotParents
  <2>2. CASE c \notin S
    <3>1. PICK x \in S : parent[x] \notin S
      BY <1>7, <2>1, <2>2 DEF CategoriesFormATree
    <3> QED BY <1>3, <2>1, <2>2, <3>1
  <2>3. CASE c \in S /\ p \notin S
    BY <1>3, <2>3
  <2>4. CASE c \in S /\ p \in S
    <3>1. p # Root /\ p \in Existing
      BY <2>1, <2>4, NotParents
    <3>2. PICK T \in SUBSET Existing : p \in T /\ c \notin T /\ \A x \in T : parent[x] \in T \union {Root}
      BY <3>1 DEF MayMove, Existing
    <3>3. PICK x \in S \intersect T : parent[x] \notin S \intersect T
      BY <2>4, <3>2 DEF CategoriesFormATree
    <3>4. parent[x] \notin S
      BY <2>1, <3>2, <3>3, NotParents
    <3> QED BY <1>3, <2>1, <3>2, <3>3, <3>4
  <2> QED BY <2>2, <2>3, <2>4
<1> QED BY <1>4, <1>6, <1>7 DEF CategoriesFormATree

LEMMA TreeEnds ==
  ASSUME AssortmentInv, NEW r \in Requests, Runs(r, Idle, {}), UNCHANGED <<inUse, members, sets>>, TreeSteady(held[r]),
         ParentsExist', CategoriesFormATree', parent' \in [Categories -> Categories \union {Root, "none", "gone"}]
  PROVE  AssortmentInv'
<1>1. TreeInv'
  BY DEF AssortmentInv, TreeInv, AssortmentTyped, LimitsHold, Limit
<1>2. GroupsSteady(held[r])
  BY DEF GroupsSteady
<1> QED BY <1>1, <1>2, AssortmentEnds

LEMMA TreeFits ==
  ASSUME AssortmentInv, NEW r \in Requests
  PROVE  /\ AssortmentTyped /\ ParentsExist /\ CategoriesFormATree /\ FitsTree(running[r], held[r]) /\ FitsGroup(running[r], held[r])
         /\ LimitsHold /\ parent \in [Categories -> Categories \union {Root, "none", "gone"}]
BY DEF AssortmentInv, TreeInv, AssortmentTyped

LEMMA CategoryCreatedKeeps ==
  ASSUME AssortmentInv, NEW r \in Requests, CategoryCreated(r) PROVE AssortmentInv'
<1>1. PICK q, c, p : q = running[r] /\ c = q.category /\ p = q.under
  OBVIOUS
<1>2. /\ q.op = "category" /\ Runs(r, Idle, {}) /\ parent[c] = "none" /\ p \in Existing \union {Root}
      /\ parent' = [parent EXCEPT ![c] = p] /\ UNCHANGED <<inUse, members, sets>>
  BY <1>1 DEF CategoryCreated, Commits
<1>3. c \in Categories /\ c \notin Existing
  BY <1>1, <1>2, TreeFits DEF FitsTree, Existing
<1>4. MayMove(c, p)
  <2>1. CASE p \in Existing
    BY <1>3, <2>1, TreeFits DEF MayMove, ParentsExist
  <2> QED BY <1>2, <2>1 DEF MayMove
<1>5. ParentsExist' /\ CategoriesFormATree' /\ parent' \in [Categories -> Categories \union {Root, "none", "gone"}]
  BY <1>2, <1>3, <1>4, TreeFits, AttachKeepsTree
<1>6. \A x \in Categories : x # c => parent'[x] = parent[x]
  BY <1>2, TreeFits
<1>7. Existing \subseteq Existing'
  BY <1>3, <1>6 DEF Existing
<1>8. ASSUME NEW a, NEW b, MayMove(a, b) PROVE MayMove(a, b)'
  <2>1. CASE b = Root
    BY <2>1 DEF MayMove
  <2>2. CASE b \in Categories /\ parent[b] = "gone"
    BY <1>2, <1>6, <2>2 DEF MayMove
  <2>3. ASSUME NEW S \in SUBSET Existing, b \in S, a \notin S, \A x \in S : parent[x] \in S \union {Root} PROVE MayMove(a, b)'
    <3>1. \A x \in S : parent'[x] = parent[x]
      BY <1>3, <1>6 DEF Existing
    <3> QED BY <1>7, <2>3, <3>1 DEF MayMove
  <2> QED BY <1>8, <2>1, <2>2, <2>3 DEF MayMove
<1>9. TreeSteady(held[r])
  BY <1>8 DEF TreeSteady
<1> QED BY <1>2, <1>5, <1>9, TreeEnds

LEMMA CategoryMovedKeeps ==
  ASSUME AssortmentInv, NEW r \in Requests, CategoryMoved(r) PROVE AssortmentInv'
<1>1. PICK q, c, p : q = running[r] /\ c = q.category /\ p = q.under
  OBVIOUS
<1>2. /\ q.op = "move" /\ Runs(r, Idle, {}) /\ p \in Existing \union {Root}
      /\ parent' = [parent EXCEPT ![c] = p] /\ UNCHANGED <<inUse, members, sets>>
  BY <1>1 DEF CategoryMoved, Commits
<1>3. c \in Categories /\ TreeLock \in held[r] /\ MayMove(c, p)
  BY <1>1, <1>2, TreeFits DEF FitsTree
<1>4. ParentsExist' /\ CategoriesFormATree' /\ parent' \in [Categories -> Categories \union {Root, "none", "gone"}]
  BY <1>2, <1>3, TreeFits, AttachKeepsTree
<1>5. TreeSteady(held[r])
  BY <1>3 DEF TreeSteady
<1> QED BY <1>2, <1>4, <1>5, TreeEnds

LEMMA CategoryRemovedKeeps ==
  ASSUME AssortmentInv, NEW r \in Requests, CategoryRemoved(r) PROVE AssortmentInv'
<1>1. PICK c : c = running[r].category
  OBVIOUS
<1>2. /\ Runs(r, Idle, {}) /\ c \in Existing /\ UNCHANGED <<inUse, members, sets>>
      /\ parent' = [x \in Categories |-> IF x = c THEN "gone" ELSE IF parent[x] = c THEN Root ELSE parent[x]]
  BY <1>1 DEF CategoryRemoved, Commits
<1>3. c \in Categories /\ c # Root
  BY <1>2, NotParents
<1>4. parent' \in [Categories -> Categories \union {Root, "none", "gone"}]
  BY <1>2, TreeFits
<1>5. /\ \A x \in Categories : x # c => parent'[x] = IF parent[x] = c THEN Root ELSE parent[x]
      /\ parent'[c] = "gone"
  BY <1>2, <1>3
<1>6. Existing' = Existing \ {c}
  <2>1. \A x \in Categories : x # c => (parent'[x] \in {"none", "gone"} <=> parent[x] \in {"none", "gone"})
    BY <1>3, <1>5, NotParents
  <2> QED BY <1>5, <2>1 DEF Existing
<1>7. ParentsExist'
  BY <1>5, <1>6, TreeFits, NotParents DEF ParentsExist
<1>8. ASSUME NEW S \in SUBSET Existing', S # {} PROVE \E x \in S : parent'[x] \notin S
  <2>1. S \subseteq Existing /\ S \subseteq Categories /\ c \notin S /\ Root \notin S
    BY <1>6, NotParents
  <2>2. PICK x \in S : parent[x] \notin S
    BY <1>8, <2>1, TreeFits DEF CategoriesFormATree
  <2> QED BY <1>5, <2>1, <2>2
<1>9. ASSUME NEW a, NEW b, MayMove(a, b) PROVE MayMove(a, b)'
  <2>1. CASE b = Root
    BY <2>1 DEF MayMove
  <2>2. CASE b \in Categories /\ parent[b] = "gone"
    BY <1>3, <1>5, <2>2, CategoryAssumption DEF MayMove
  <2>3. ASSUME NEW S \in SUBSET Existing, b \in S, a \notin S, \A x \in S : parent[x] \in S \union {Root} PROVE MayMove(a, b)'
    <3>1. CASE b = c
      BY <1>3, <1>5, <3>1 DEF MayMove
    <3>2. CASE b # c
      <4>1. PICK T \in SUBSET Existing' : T = S \ {c}
        BY <1>6
      <4>2. b \in T /\ a \notin T
        BY <2>3, <3>2, <4>1
      <4>3. \A x \in T : parent'[x] \in T \union {Root}
        BY <1>5, <2>3, <4>1, NotParents
      <4> QED BY <4>2, <4>3 DEF MayMove
    <3> QED BY <3>1, <3>2
  <2> QED BY <1>9, <2>1, <2>2, <2>3 DEF MayMove
<1>10. TreeSteady(held[r])
  BY <1>9 DEF TreeSteady
<1>11. CategoriesFormATree'
  BY <1>8 DEF CategoriesFormATree
<1> QED BY <1>2, <1>4, <1>7, <1>10, <1>11, TreeEnds

LEMMA TreeBegins ==
  ASSUME AssortmentInv, NEW r \in Requests, NEW c \in Categories,
         RemoveCategory(r, c) \/ \E p \in Categories \union {Root} : CreateCategory(r, c, p) \/ MoveCategory(r, c, p)
  PROVE  AssortmentInv'
<1>1. ASSUME RemoveCategory(r, c) PROVE AssortmentInv'
  <2>1. PICK q : q = [op |-> "remove", category |-> c]
    OBVIOUS
  <2>2. FitsTree(q, {}) /\ FitsGroup(q, {})
    BY <2>1 DEF FitsTree, FitsGroup
  <2> QED BY <1>1, <2>1, <2>2, AssortmentBegins DEF RemoveCategory
<1>2. ASSUME NEW p, CreateCategory(r, c, p) PROVE AssortmentInv'
  <2>1. PICK q : q = [op |-> "category", category |-> c, under |-> p]
    OBVIOUS
  <2>2. FitsTree(q, {}) /\ FitsGroup(q, {})
    BY <2>1 DEF FitsTree, FitsGroup
  <2> QED BY <1>2, <2>1, <2>2, AssortmentBegins DEF CreateCategory
<1>3. ASSUME NEW p, MoveCategory(r, c, p) PROVE AssortmentInv'
  <2>1. PICK q : q = [op |-> "move", category |-> c, under |-> p]
    OBVIOUS
  <2>2. MayMove(c, p)
    BY <1>3 DEF MoveCategory, WouldCreateCycle, MayMove
  <2>3. FitsTree(q, {TreeLock}) /\ FitsGroup(q, {TreeLock})
    BY <2>1, <2>2 DEF FitsTree, FitsGroup
  <2>4. Begins(r, q, {TreeLock}) /\ UNCHANGED assortment
    BY <1>3, <2>1 DEF MoveCategory, MoveLocks
  <2> QED BY <2>3, <2>4, AssortmentBegins
<1> QED BY <1>1, <1>2, <1>3

(* Sections and sets: who adds holds the lock of the group, others only remove.        *)
LEMMA GroupsLeaveTree ==
  ASSUME AssortmentInv, UNCHANGED parent, members' \in [Groups -> SUBSET Entries],
         \A g \in Groups : Cardinality(members'[g]) <= Limit(g)
  PROVE  TreeInv' /\ \A L : TreeSteady(L)
<1>1. Existing' = Existing
  BY DEF Existing
<1>2. TreeInv'
  BY <1>1 DEF AssortmentInv, TreeInv, AssortmentTyped, ParentsExist, CategoriesFormATree, LimitsHold, Limit
<1>3. \A L : TreeSteady(L)
  BY <1>1 DEF TreeSteady, MayMove
<1> QED BY <1>2, <1>3

LEMMA AddKeeps ==
  ASSUME AssortmentInv, NEW r \in Requests, NEW g \in Groups, NEW x \in Entries, Add(r, g, x) PROVE AssortmentInv'
<1>1. PICK q : q = [op |-> "add", group |-> g, entry |-> x]
  OBVIOUS
<1>2. /\ Begins(r, q, AddLocks(g)) /\ UNCHANGED assortment
      /\ g \in Stores \union sets /\ Cardinality(members[g]) < Limit(g)
  BY <1>1 DEF Add
<1>3. FitsTree(q, AddLocks(g)) /\ FitsGroup(q, AddLocks(g))
  BY <1>1, <1>2 DEF FitsTree, FitsGroup
<1> QED BY <1>2, <1>3, AssortmentBegins

LEMMA AddedKeeps ==
  ASSUME AssortmentInv, NEW r \in Requests, Added(r) PROVE AssortmentInv'
<1>1. PICK q, g, x : q = running[r] /\ g = q.group /\ x = q.entry
  OBVIOUS
<1>2. /\ q.op = "add" /\ Runs(r, Idle, {}) /\ members' = [members EXCEPT ![g] = members[g] \union {x}]
      /\ UNCHANGED <<parent, inUse, sets>>
  BY <1>1 DEF Added, Commits
<1>3. /\ g \in Groups /\ x \in Entries /\ AddLocks(g) \subseteq held[r] /\ Cardinality(members[g]) < Limit(g)
      /\ members \in [Groups -> SUBSET Entries] /\ LimitsHold
  BY <1>1, <1>2, TreeFits DEF FitsGroup, AssortmentTyped
<1>4. /\ members' \in [Groups -> SUBSET Entries] /\ members'[g] = members[g] \union {x}
      /\ \A h \in Groups : h # g => members'[h] = members[h]
  BY <1>2, <1>3
<1>5. IsFiniteSet(members[g]) /\ Cardinality(members[g]) \in Nat
  BY <1>3, TreeFits, MembersFinite
<1>6. Cardinality(members'[g]) <= Cardinality(members[g]) + 1 /\ Cardinality(members'[g]) \in Nat
  <2>1. Cardinality(members[g] \union {x}) = IF x \in members[g] THEN Cardinality(members[g]) ELSE Cardinality(members[g]) + 1
    BY <1>5, FS_AddElement
  <2> QED BY <1>4, <1>5, <2>1
<1>7. Cardinality(members'[g]) <= Limit(g)
  BY <1>3, <1>5, <1>6, LimitIsNatural
<1>8. \A h \in Groups : Cardinality(members'[h]) <= Limit(h)
  BY <1>3, <1>4, <1>7 DEF LimitsHold
<1>9. GroupsSteady(held[r])
  BY <1>2, <1>3, <1>4 DEF GroupsSteady
<1> QED BY <1>2, <1>4, <1>8, <1>9, GroupsLeaveTree, AssortmentEnds

LEMMA GroupWritesKeep ==
  ASSUME AssortmentInv, NEW g \in Groups, NEW L, Writes(L), NEW S \in SUBSET Entries, members' = [members EXCEPT ![g] = S],
         Cardinality(S) <= Limit(g), UNCHANGED parent,
         g \in Stores \union sets /\ ~(AddLocks(g) \subseteq L) => S \subseteq members[g] /\ g \in Stores \union sets',
         \A h \in Groups : h # g /\ h \in sets => h \in sets'
  PROVE  AssortmentInv'
<1>1. members \in [Groups -> SUBSET Entries] /\ LimitsHold
  BY DEF AssortmentInv, TreeInv, AssortmentTyped
<1>2. /\ members' \in [Groups -> SUBSET Entries] /\ members'[g] = S
      /\ \A h \in Groups : h # g => members'[h] = members[h]
  BY <1>1
<1>3. \A h \in Groups : Cardinality(members'[h]) <= Limit(h)
  BY <1>1, <1>2 DEF LimitsHold
<1>4. GroupsSteady(L)
  BY <1>2 DEF GroupsSteady
<1>5. TreeInv' /\ TreeSteady(L)
  BY <1>2, <1>3, GroupsLeaveTree
<1>6. UNCHANGED <<running, held>> /\ \A s \in Requests : held[s] \intersect L = {}
  BY WritesAlone DEF AssortmentInv
<1> QED BY <1>4, <1>5, <1>6, AssortmentAside

LEMMA RemoveKeeps ==
  ASSUME AssortmentInv, NEW g \in Groups, NEW x \in Entries, Remove(g, x) PROVE AssortmentInv'
<1>1. PICK L, S : L = (IF g \in Stores THEN {} ELSE {SetRow(g)}) /\ S = members[g] \ {x}
  OBVIOUS
<1>2. members[g] \in SUBSET Entries /\ Cardinality(members[g]) <= Limit(g)
  BY DEF AssortmentInv, TreeInv, AssortmentTyped, LimitsHold
<1>3. S \in SUBSET Entries /\ S \in SUBSET members[g]
  BY <1>1, <1>2
<1>4. Cardinality(S) <= Limit(g)
  <2>1. Cardinality(S) <= Cardinality(members[g]) /\ Cardinality(S) \in Nat /\ Cardinality(members[g]) \in Nat
    BY <1>3, MembersFinite DEF AssortmentInv, TreeInv
  <2> QED BY <1>2, <2>1, LimitIsNatural
<1>5. Writes(L) /\ members' = [members EXCEPT ![g] = S] /\ UNCHANGED parent /\ UNCHANGED sets
  BY <1>1 DEF Remove
<1> QED BY <1>3, <1>4, <1>5, GroupWritesKeep

LEMMA CreateSetKeeps ==
  ASSUME AssortmentInv, NEW g \in Groups, NEW products \in SUBSET Entries, CreateSet(g, products) PROVE AssortmentInv'
<1>1. /\ g \notin Stores \union sets /\ Cardinality(products) <= MaxItems /\ Writes({}) /\ sets' = sets \union {g}
      /\ members' = [members EXCEPT ![g] = products] /\ UNCHANGED parent
  BY DEF CreateSet
<1>2. Cardinality(products) <= Limit(g) /\ \A h \in Groups : h \in sets => h \in sets'
  BY <1>1 DEF Limit
<1> QED BY <1>1, <1>2, GroupWritesKeep

LEMMA DeleteSetKeeps ==
  ASSUME AssortmentInv, NEW g \in Groups, DeleteSet(g) PROVE AssortmentInv'
<1>1. /\ Writes({SetRow(g)}) /\ sets' = sets \ {g} /\ members' = [members EXCEPT ![g] = {}] /\ UNCHANGED parent
  BY DEF DeleteSet
<1>2. Cardinality({}) <= Limit(g)
  BY FS_EmptySet, LimitIsNatural
<1>3. g \in Stores \union sets /\ ~(AddLocks(g) \subseteq {SetRow(g)}) => g \in Stores \union sets'
  BY DEF AddLocks
<1>4. PICK S \in SUBSET Entries : S = {}
  OBVIOUS
<1>5. members' = [members EXCEPT ![g] = S] /\ Cardinality(S) <= Limit(g) /\ S \subseteq members[g]
  BY <1>1, <1>2, <1>4
<1>6. \A h \in Groups : h # g /\ h \in sets => h \in sets'
  BY <1>1
<1> QED BY <1>1, <1>3, <1>5, <1>6, GroupWritesKeep

LEMMA AssortmentInvHolds == AssortmentSpec => []AssortmentInv
<1>1. ASSUME AssortmentInit, NothingRuns PROVE AssortmentInv
  <2>1. Existing = {} /\ AssortmentTyped
    BY <1>1 DEF AssortmentInit, Existing, AssortmentTyped
  <2>2. ParentsExist /\ CategoriesFormATree
    BY <2>1 DEF ParentsExist, CategoriesFormATree
  <2>3. LimitsHold
    <3> SUFFICES ASSUME NEW g \in Groups PROVE Cardinality(members[g]) <= Limit(g)
      BY DEF LimitsHold
    <3>1. members[g] = {}
      BY <1>1 DEF AssortmentInit
    <3> QED BY <3>1, FS_EmptySet, LimitIsNatural
  <2> QED BY <1>1, <2>1, <2>2, <2>3, NothingRunsAlone DEF AssortmentInv, TreeInv, FitsTree, FitsGroup, Idle
<1>2. ASSUME AssortmentInv, NEW r \in Requests, Abandons(r), UNCHANGED assortment PROVE AssortmentInv'
  <2>1. FitsTree(Idle, {}) /\ FitsGroup(Idle, {}) /\ FreeFor(r, {})
    BY DEF FitsTree, FitsGroup, Idle, FreeFor
  <2> QED BY <1>2, <2>1, AssortmentGoesOn DEF Abandons
<1>3. ASSUME AssortmentInv, UNCHANGED <<running, held, parent, members, sets>> PROVE AssortmentInv'
  <2>1. Existing' = Existing
    BY <1>3 DEF Existing
  <2>2. TreeInv' /\ TreeSteady({}) /\ GroupsSteady({})
    BY <1>3, <2>1 DEF AssortmentInv, TreeInv, AssortmentTyped, ParentsExist, CategoriesFormATree, LimitsHold, Limit,
                      TreeSteady, MayMove, GroupsSteady
  <2> QED BY <1>3, <2>2, AssortmentAside
<1>4. ASSUME AssortmentInv, TreeNext PROVE AssortmentInv'
  <2>1. ASSUME NEW r \in Requests, CategoryCreated(r) \/ CategoryMoved(r) \/ CategoryRemoved(r) PROVE AssortmentInv'
    BY <1>4, <2>1, CategoryCreatedKeeps, CategoryMovedKeeps, CategoryRemovedKeeps
  <2>2. ASSUME NEW r \in Requests, NEW c \in Categories,
               RemoveCategory(r, c) \/ \E p \in Categories \union {Root} : CreateCategory(r, c, p) \/ MoveCategory(r, c, p)
        PROVE  AssortmentInv'
    BY <1>4, <2>2, TreeBegins
  <2>3. ASSUME NEW c \in Categories, CategoryUsed(c) PROVE AssortmentInv'
    BY <1>3, <1>4, <2>3 DEF CategoryUsed, transactions
  <2> QED BY <1>2, <1>4, <2>1, <2>2, <2>3 DEF TreeNext
<1>5. ASSUME AssortmentInv, GroupNext PROVE AssortmentInv'
  <2>1. ASSUME NEW r \in Requests, (\E g \in Groups, x \in Entries : Add(r, g, x)) \/ Added(r) PROVE AssortmentInv'
    BY <1>5, <2>1, AddKeeps, AddedKeeps
  <2>2. ASSUME NEW g \in Groups,
               (\E x \in Entries : Remove(g, x)) \/ DeleteSet(g) \/ \E products \in SUBSET Entries : CreateSet(g, products)
        PROVE  AssortmentInv'
    BY <1>5, <2>2, RemoveKeeps, DeleteSetKeeps, CreateSetKeeps
  <2> QED BY <1>2, <1>5, <2>1, <2>2 DEF GroupNext
<1>6. ASSUME AssortmentInv, UNCHANGED <<assortment, transactions>> PROVE AssortmentInv'
  BY <1>3, <1>6 DEF assortment, transactions
<1> QED BY <1>1, <1>4, <1>5, <1>6, PTL DEF AssortmentSpec

(* From every category the parents lead to a root, whichever requests create, move     *)
(* and remove categories at once (wouldCreateCycle(), update(), remove()).            *)
THEOREM CategoriesFormATreeHolds == AssortmentSpec => []CategoriesFormATree
BY AssortmentInvHolds, PTL DEF AssortmentInv, TreeInv

(* Additions of any number of requests leave a store and a comparison set within         *)
(* their limit (StoreSectionsController.create(), ComparisonSetsService.addItem()).     *)
THEOREM LimitsHoldAlways == AssortmentSpec => []LimitsHold
BY AssortmentInvHolds, PTL DEF AssortmentInv, TreeInv

----------------------------------------------------------------------------
\* Settings and their audit trail

Stored == Values \union {Unset}
Row == [before : Stored, after : Stored]

SettingsTyped == value \in [SettingKinds -> Stored] /\ trail \in [SettingKinds -> Seq(Row)]

(* The rows of one setting from Unset to the value stored.                          *)
Chain(entries, stored) ==
  /\ entries = << >> => stored = Unset
  /\ entries # << >> => entries[1].before = Unset /\ entries[Len(entries)].after = stored
  /\ \A i \in 2..Len(entries) : entries[i].before = entries[i - 1].after

FitsSetting(q, locks) ==
  q.op = "set" =>
    q.kind \in SettingKinds /\ SettingLocks(q.kind) \subseteq locks /\ q.before = value[q.kind] /\ q.before \in Stored /\ q.to \in Stored

SettingsInv ==
  /\ Alone /\ SettingsTyped /\ \A k \in SettingKinds : Chain(trail[k], value[k])
  /\ \A r \in Requests : FitsSetting(running[r], held[r])

LEMMA ChainGrows ==
  ASSUME NEW s \in Seq(Row), NEW before \in Stored, NEW after \in Stored, Chain(s, before)
  PROVE  Append(s, [before |-> before, after |-> after]) \in Seq(Row) /\ Chain(Append(s, [before |-> before, after |-> after]), after)
<1>1. PICK x, t : x = [before |-> before, after |-> after] /\ t = Append(s, x)
  OBVIOUS
<1>2. x \in Row /\ x.before = before /\ x.after = after
  BY <1>1 DEF Row
<1>3. t \in Seq(Row) /\ Len(t) = Len(s) + 1 /\ t[Len(t)] = x /\ Len(s) \in Nat
  BY <1>1, <1>2
<1>4. \A i \in 1..Len(s) : t[i] = s[i]
  BY <1>1, <1>2
<1>5. t # << >> /\ t[Len(t)].after = after
  BY <1>2, <1>3
<1>6. t[1].before = Unset
  <2>1. CASE s = << >>
    BY <1>2, <1>3, <2>1 DEF Chain
  <2>2. CASE s # << >>
    BY <1>3, <1>4, <2>2 DEF Chain
  <2> QED BY <2>1, <2>2
<1>7. ASSUME NEW i \in 2..Len(t) PROVE t[i].before = t[i - 1].after
  <2>1. CASE i \in 2..Len(s)
    BY <1>3, <1>4, <2>1 DEF Chain
  <2>2. CASE i = Len(s) + 1
    <3>1. s # << >> /\ i - 1 = Len(s) /\ Len(s) \in 1..Len(s)
      BY <1>3, <1>7, <2>2
    <3>2. s[Len(s)].after = before
      BY <3>1 DEF Chain
    <3> QED BY <1>2, <1>3, <1>4, <2>2, <3>1, <3>2
  <2> QED BY <1>3, <1>7, <2>1, <2>2
<1>8. Chain(t, after)
  BY <1>5, <1>6, <1>7 DEF Chain
<1> QED BY <1>1, <1>3, <1>8

LEMMA ChainIsStory ==
  ASSUME NEW s \in Seq(Row), NEW stored \in Stored, Chain(s, stored)
  PROVE  LET story == <<[before |-> Unset, after |-> Unset]>> \o s \o <<[before |-> stored, after |-> stored]>>
         IN \A i \in 2..Len(story) : story[i].before = story[i - 1].after
<1>1. PICK first, last : first = [before |-> Unset, after |-> Unset] /\ last = [before |-> stored, after |-> stored]
  OBVIOUS
<1>2. first \in Row /\ last \in Row /\ first.after = Unset /\ last.before = stored
  BY <1>1 DEF Row, Stored
<1>3. PICK one, two : one = <<first>> /\ two = <<last>>
  OBVIOUS
<1>4. one \in Seq(Row) /\ two \in Seq(Row) /\ Len(one) = 1 /\ Len(two) = 1 /\ one[1] = first /\ two[1] = last
  BY <1>2, <1>3
<1>5. PICK t : t = one \o s
  OBVIOUS
<1>6. t \in Seq(Row) /\ Len(t) = Len(s) + 1 /\ t[1] = first /\ \A i \in 2..Len(t) : t[i] = s[i - 1]
  <2>1. /\ t \in Seq(Row) /\ Len(t) = Len(one) + Len(s)
        /\ \A i \in 1..(Len(one) + Len(s)) : t[i] = IF i <= Len(one) THEN one[i] ELSE s[i - Len(one)]
    BY <1>4, <1>5, ConcatProperties
  <2> QED BY <1>4, <2>1
<1>7. PICK story : story = t \o two
  OBVIOUS
<1>8. /\ Len(story) = Len(s) + 2 /\ Len(s) \in Nat /\ story[Len(s) + 2] = last
      /\ \A i \in 1..(Len(s) + 1) : story[i] = t[i]
  <2>1. /\ Len(story) = Len(t) + Len(two)
        /\ \A i \in 1..(Len(t) + Len(two)) : story[i] = IF i <= Len(t) THEN t[i] ELSE two[i - Len(t)]
    BY <1>4, <1>6, <1>7, ConcatProperties
  <2> QED BY <1>4, <1>6, <2>1
<1>9. ASSUME NEW i \in 2..Len(story) PROVE story[i].before = story[i - 1].after
  <2>1. CASE i = 2 /\ s = << >>
    <3>1. story[2] = last /\ story[1] = first /\ stored = Unset
      BY <1>6, <1>8, <2>1 DEF Chain
    <3> QED BY <1>2, <2>1, <3>1
  <2>2. CASE i = 2 /\ s # << >>
    <3>1. story[2] = s[1] /\ story[1] = first /\ s[1].before = Unset
      BY <1>6, <1>8, <2>2 DEF Chain
    <3> QED BY <1>2, <2>2, <3>1
  <2>3. CASE i > 2 /\ i <= Len(s) + 1
    <3>1. story[i] = s[i - 1] /\ story[i - 1] = s[i - 2] /\ i - 1 \in 2..Len(s)
      BY <1>6, <1>8, <2>3
    <3>2. s[i - 1].before = s[(i - 1) - 1].after
      BY <3>1 DEF Chain
    <3> QED BY <1>8, <1>9, <3>1, <3>2
  <2>4. CASE i > 2 /\ i = Len(s) + 2
    <3>1. s # << >> /\ story[i] = last /\ story[i - 1] = s[Len(s)]
      BY <1>6, <1>8, <2>4
    <3>2. s[Len(s)].after = stored
      BY <3>1 DEF Chain
    <3> QED BY <1>2, <3>1, <3>2
  <2> QED BY <1>8, <1>9, <2>1, <2>2, <2>3, <2>4
<1> QED BY <1>1, <1>3, <1>5, <1>7, <1>9

LEMMA SettingsFitsStays ==
  ASSUME NEW L, \A k \in SettingKinds : ~(SettingLocks(k) \subseteq L) => value'[k] = value[k],
         NEW q, NEW locks, locks \intersect L = {}, FitsSetting(q, locks)
  PROVE  FitsSetting(q, locks)'
BY DEF FitsSetting, SettingLocks

LEMMA SettingsGoOn ==
  ASSUME SettingsInv, NEW r \in Requests, NEW q, NEW locks, Runs(r, q, locks), FreeFor(r, locks), UNCHANGED <<value, trail>>,
         FitsSetting(q, locks)
  PROVE  SettingsInv'
<1>1. /\ Alone' /\ running'[r] = q /\ held'[r] = locks
      /\ \A s \in Requests \ {r} : running'[s] = running[s] /\ held'[s] = held[s]
  BY RunsAlone DEF SettingsInv
<1>2. SettingsTyped' /\ \A k \in SettingKinds : Chain(trail'[k], value'[k])
  BY DEF SettingsInv, SettingsTyped
<1>3. ASSUME NEW s \in Requests PROVE FitsSetting(running[s], held[s])'
  <2>1. PICK x, l : x = running'[s] /\ l = held'[s]
    OBVIOUS
  <2>2. FitsSetting(x, l)
    BY <1>1, <2>1 DEF SettingsInv
  <2>3. FitsSetting(x, l)'
    BY <2>2 DEF FitsSetting, SettingLocks
  <2> QED BY <2>1, <2>3
<1> QED BY <1>1, <1>2, <1>3 DEF SettingsInv

LEMMA SetsKeeps ==
  ASSUME SettingsInv, NEW r \in Requests, NEW k \in SettingKinds, NEW v \in Stored, Sets(r, k, v) PROVE SettingsInv'
<1>1. PICK q : q = [op |-> "set", kind |-> k, to |-> v, before |-> value[k]]
  OBVIOUS
<1>2. Begins(r, q, SettingLocks(k)) /\ UNCHANGED <<value, trail>>
  BY <1>1 DEF Sets, settings
<1>3. FitsSetting(q, SettingLocks(k))
  BY <1>1 DEF FitsSetting, SettingsInv, SettingsTyped
<1> QED BY <1>2, <1>3, SettingsGoOn DEF Begins, Free, FreeFor

LEMMA ChangedKeeps ==
  ASSUME SettingsInv, NEW r \in Requests, Changed(r) PROVE SettingsInv'
<1>1. PICK q, k, b, a : q = running[r] /\ k = q.kind /\ b = q.before /\ a = q.to
  OBVIOUS
<1>2. q.op = "set" /\ Runs(r, Idle, {})
  BY <1>1 DEF Changed, Commits
<1>3. k \in SettingKinds /\ SettingLocks(k) \subseteq held[r] /\ b = value[k] /\ b \in Stored /\ a \in Stored
  BY <1>1, <1>2 DEF SettingsInv, FitsSetting
<1>4. SettingsTyped /\ \A j \in SettingKinds : Chain(trail[j], value[j])
  BY DEF SettingsInv
<1>5. CASE UNCHANGED settings
  <2>1. FitsSetting(Idle, {}) /\ FreeFor(r, {})
    BY DEF FitsSetting, Idle, FreeFor
  <2> QED BY <1>2, <1>5, <2>1, SettingsGoOn DEF settings
<1>6. CASE value' = [value EXCEPT ![k] = a] /\ trail' = [trail EXCEPT ![k] = Append(@, [before |-> b, after |-> a])]
  <2>1. PICK t : t = Append(trail[k], [before |-> b, after |-> a])
    OBVIOUS
  <2>2. t \in Seq(Row) /\ Chain(t, a)
    BY <1>3, <1>4, <2>1, ChainGrows DEF SettingsTyped
  <2>3. trail' = [trail EXCEPT ![k] = t]
    BY <1>6, <2>1
  <2>4. /\ SettingsTyped' /\ value'[k] = a /\ trail'[k] = t
        /\ \A j \in SettingKinds : j # k => value'[j] = value[j] /\ trail'[j] = trail[j]
    BY <1>3, <1>4, <1>6, <2>2, <2>3 DEF SettingsTyped
  <2>5. \A j \in SettingKinds : Chain(trail'[j], value'[j])
    BY <1>4, <2>2, <2>4
  <2>6. /\ Alone' /\ running'[r] = Idle /\ held'[r] = {}
        /\ \A s \in Requests \ {r} : running'[s] = running[s] /\ held'[s] = held[s] /\ held[s] \intersect held[r] = {}
    BY <1>2, EndsAlone DEF SettingsInv
  <2>7. ASSUME NEW s \in Requests \ {r} PROVE FitsSetting(running[s], held[s])'
    <3>1. PICK x, l : x = running[s] /\ l = held[s]
      OBVIOUS
    <3>2. FitsSetting(x, l) /\ l \intersect held[r] = {}
      BY <2>6, <3>1 DEF SettingsInv
    <3>3. \A j \in SettingKinds : ~(SettingLocks(j) \subseteq held[r]) => value'[j] = value[j]
      BY <1>3, <2>4
    <3>4. FitsSetting(x, l)'
      BY <3>2, <3>3, SettingsFitsStays
    <3> QED BY <2>6, <3>1, <3>4
  <2>8. FitsSetting(running[r], held[r])'
    BY <2>6 DEF FitsSetting, Idle
  <2> QED BY <2>4, <2>5, <2>6, <2>7, <2>8 DEF SettingsInv
<1> QED BY <1>1, <1>5, <1>6 DEF Changed

LEMMA SettingsAside ==
  ASSUME SettingsInv, UNCHANGED <<running, held, value, trail>> PROVE SettingsInv'
<1>1. ASSUME NEW s \in Requests PROVE FitsSetting(running[s], held[s])'
  <2>1. PICK x, l : x = running[s] /\ l = held[s]
    OBVIOUS
  <2>2. FitsSetting(x, l)'
    BY <2>1 DEF SettingsInv, FitsSetting, SettingLocks
  <2> QED BY <2>1, <2>2
<1> QED BY <1>1 DEF SettingsInv, Alone, SettingsTyped

LEMMA SettingsInvHolds == SettingsSpec => []SettingsInv
<1>1. ASSUME SettingsInit, NothingRuns PROVE SettingsInv
  <2>1. value = [k \in SettingKinds |-> Unset] /\ trail = [k \in SettingKinds |-> << >>]
    BY <1>1 DEF SettingsInit
  <2>2. SettingsTyped
    BY <2>1 DEF SettingsTyped, Stored
  <2>3. ASSUME NEW k \in SettingKinds PROVE Chain(trail[k], value[k])
    <3>1. value[k] = Unset /\ trail[k] = << >> /\ Len(trail[k]) = 0
      BY <2>1
    <3> QED BY <3>1 DEF Chain
  <2> QED BY <1>1, <2>2, <2>3, NothingRunsAlone DEF SettingsInv, FitsSetting, Idle
<1>2. ASSUME SettingsInv, SettingsNext PROVE SettingsInv'
  <2>1. ASSUME NEW r \in Requests, NEW v \in Stored,
               UpdateBranchMinimum(r, v) \/ UpdateZoneMinimum(r, v) \/ SetFlag(r, v) \/ UpdateReturnPolicy(r, v) \/ SetSafetyStock(r, v)
        PROVE  SettingsInv'
    BY <1>2, <2>1, SetsKeeps DEF UpdateBranchMinimum, UpdateZoneMinimum, SetFlag, UpdateReturnPolicy, SetSafetyStock, SettingKinds
  <2>2. ASSUME NEW r \in Requests, Changed(r) PROVE SettingsInv'
    BY <1>2, <2>2, ChangedKeeps
  <2>3. ASSUME NEW r \in Requests, Abandons(r), UNCHANGED settings PROVE SettingsInv'
    <3>1. FitsSetting(Idle, {}) /\ FreeFor(r, {})
      BY DEF FitsSetting, Idle, FreeFor
    <3> QED BY <1>2, <2>3, <3>1, SettingsGoOn DEF Abandons, settings
  <2>4. CASE HalfYearPasses
    BY <1>2, <2>4, SettingsAside DEF HalfYearPasses, transactions
  <2> QED BY <1>2, <2>1, <2>2, <2>3, <2>4 DEF SettingsNext, Stored
<1>3. ASSUME SettingsInv, UNCHANGED <<settings, transactions>> PROVE SettingsInv'
  BY <1>3, SettingsAside DEF settings, transactions
<1> QED BY <1>1, <1>2, <1>3, PTL DEF SettingsSpec

(* The audit log of a setting is an unbroken chain from Unset to the value stored,         *)
(* whichever requests change it at once (update(), setFlag(),                            *)
(* setSafetyStockThreshold()).                                                         *)
THEOREM AuditIsAChainHolds == SettingsSpec => []AuditIsAChain
<1>1. SettingsInv => AuditIsAChain
  <2> SUFFICES ASSUME SettingsInv, NEW k \in SettingKinds
               PROVE  LET story == <<[before |-> Unset, after |-> Unset]>> \o trail[k] \o <<[before |-> value[k], after |-> value[k]]>>
                      IN \A i \in 2..Len(story) : story[i].before = story[i - 1].after
    BY DEF AuditIsAChain
  <2>1. trail[k] \in Seq(Row) /\ value[k] \in Stored /\ Chain(trail[k], value[k])
    BY DEF SettingsInv, SettingsTyped
  <2> QED BY <2>1, ChainIsStory
<1> QED BY <1>1, SettingsInvHolds, PTL

----------------------------------------------------------------------------
\* Listings by page

PageRow == [id : RowIds, at : Times, rank : Times]
DistinctIds(S) == \A x, y \in S : x.id = y.id => x = y

LEMMA PairOrder ==
  ASSUME NEW a \in Int, NEW b \in Int, NEW c \in Int, NEW d \in Int
  PROVE  Precedes(<<a, b>>, <<c, d>>) <=> (a < c \/ (a = c /\ b < d))
<1>1. PICK k, l : k = <<a, b>> /\ l = <<c, d>>
  OBVIOUS
<1>2. Len(k) = 2 /\ k[1] = a /\ k[2] = b /\ l[1] = c /\ l[2] = d
  BY <1>1
<1>3. 1..2 = {1, 2} /\ 1..(1 - 1) = {} /\ 1..(2 - 1) = {1}
  OBVIOUS
<1>4. Precedes(k, l) <=> (k[1] < l[1] \/ (k[1] = l[1] /\ k[2] < l[2]))
  BY <1>2, <1>3 DEF Precedes
<1> QED BY <1>1, <1>2, <1>4

LEMMA TripleOrder ==
  ASSUME NEW a \in Int, NEW b \in Int, NEW c \in Int, NEW d \in Int, NEW e \in Int, NEW f \in Int
  PROVE  Precedes(<<a, b, c>>, <<d, e, f>>) <=> (a < d \/ (a = d /\ (b < e \/ (b = e /\ c < f))))
<1>1. PICK k, l : k = <<a, b, c>> /\ l = <<d, e, f>>
  OBVIOUS
<1>2. Len(k) = 3 /\ k[1] = a /\ k[2] = b /\ k[3] = c /\ l[1] = d /\ l[2] = e /\ l[3] = f
  BY <1>1
<1>3. 1..3 = {1, 2, 3} /\ 1..(1 - 1) = {} /\ 1..(2 - 1) = {1} /\ 1..(3 - 1) = {1, 2}
  OBVIOUS
<1>4. Precedes(k, l) <=> \/ k[1] < l[1]
                         \/ k[1] = l[1] /\ k[2] < l[2]
                         \/ k[1] = l[1] /\ k[2] = l[2] /\ k[3] < l[3]
  BY <1>2, <1>3 DEF Precedes
<1> QED BY <1>1, <1>2, <1>4

(* The last column of every key is the identifier, or its negation.              *)
Tie(list, i) == IF list \in {"closures", "stock", "vendors", "verification", "matches"} THEN i ELSE -i
Triples == {"verification", "matches", "price_asc", "price_desc"}

LEMMA PairKey ==
  ASSUME NEW list \in Listings \ Triples, NEW x \in PageRow
  PROVE  \E a \in Int : KeyOf(list, x) = <<a, Tie(list, x.id)>>
<1>0. x.at \in Nat
  BY PageAssumption DEF PageRow
<1>1. x.at \in Int /\ -x.at \in Int
  BY <1>0
<1>2. KeyOf(list, x) \in {<<x.at, Tie(list, x.id)>>, <<-x.at, Tie(list, x.id)>>}
  BY DEF Listings, Triples, Tie, KeyOf, Closures, StockPage, Vendors, DeadLetters, Notifications, AuditLog, Performance
<1> QED BY <1>1, <1>2

LEMMA TripleKey ==
  ASSUME NEW list \in Triples, NEW x \in PageRow
  PROVE  \E a, b \in Int : KeyOf(list, x) = <<a, b, Tie(list, x.id)>>
<1>0. x.at \in Nat /\ x.rank \in Nat
  BY PageAssumption DEF PageRow
<1>1. x.at \in Int /\ -x.at \in Int /\ x.rank \in Int /\ -x.rank \in Int
  BY <1>0
<1>2. KeyOf(list, x) \in {<<a, b, Tie(list, x.id)>> : a, b \in {x.at, -x.at, x.rank, -x.rank}}
  BY DEF Triples, Tie, KeyOf, VerificationQueue, MatchQueue, ByPrice, ByPriceDown
<1> QED BY <1>1, <1>2

(* Every listing orders rows with distinct identifiers totally.                  *)
LEMMA KeyOrder ==
  ASSUME NEW list \in Listings, NEW x \in PageRow, NEW y \in PageRow, NEW z \in PageRow
  PROVE  /\ KeyOf(list, x) # Start
         /\ ~Precedes(KeyOf(list, x), KeyOf(list, x))
         /\ Precedes(KeyOf(list, x), KeyOf(list, y)) /\ Precedes(KeyOf(list, y), KeyOf(list, z))
            => Precedes(KeyOf(list, x), KeyOf(list, z))
         /\ x.id # y.id => Precedes(KeyOf(list, x), KeyOf(list, y)) \/ Precedes(KeyOf(list, y), KeyOf(list, x))
<1>1. PICK i, j, k : i = Tie(list, x.id) /\ j = Tie(list, y.id) /\ k = Tie(list, z.id)
  OBVIOUS
<1>0. x.id \in Nat /\ y.id \in Nat /\ z.id \in Nat
  BY PageAssumption DEF PageRow
<1>2. i \in Int /\ j \in Int /\ k \in Int /\ (x.id # y.id => i # j)
  BY <1>0, <1>1 DEF Tie
<1>3. CASE list \in Triples
  <2>1. PICK a, b \in Int : KeyOf(list, x) = <<a, b, i>>
    BY <1>1, <1>3, TripleKey
  <2>2. PICK c, d \in Int : KeyOf(list, y) = <<c, d, j>>
    BY <1>1, <1>3, TripleKey
  <2>3. PICK e, f \in Int : KeyOf(list, z) = <<e, f, k>>
    BY <1>1, <1>3, TripleKey
  <2>4. Precedes(KeyOf(list, x), KeyOf(list, x)) <=> (a < a \/ (a = a /\ (b < b \/ (b = b /\ i < i))))
    BY <1>2, <2>1, TripleOrder
  <2>5. Precedes(KeyOf(list, x), KeyOf(list, y)) <=> (a < c \/ (a = c /\ (b < d \/ (b = d /\ i < j))))
    BY <1>2, <2>1, <2>2, TripleOrder
  <2>6. Precedes(KeyOf(list, y), KeyOf(list, x)) <=> (c < a \/ (c = a /\ (d < b \/ (d = b /\ j < i))))
    BY <1>2, <2>1, <2>2, TripleOrder
  <2>7. Precedes(KeyOf(list, y), KeyOf(list, z)) <=> (c < e \/ (c = e /\ (d < f \/ (d = f /\ j < k))))
    BY <1>2, <2>2, <2>3, TripleOrder
  <2>8. Precedes(KeyOf(list, x), KeyOf(list, z)) <=> (a < e \/ (a = e /\ (b < f \/ (b = f /\ i < k))))
    BY <1>2, <2>1, <2>3, TripleOrder
  <2>9. KeyOf(list, x) # Start
    BY <2>1 DEF Start
  <2> QED BY <1>2, <2>4, <2>5, <2>6, <2>7, <2>8, <2>9
<1>4. CASE list \notin Triples
  <2>1. PICK a \in Int : KeyOf(list, x) = <<a, i>>
    BY <1>1, <1>4, PairKey
  <2>2. PICK c \in Int : KeyOf(list, y) = <<c, j>>
    BY <1>1, <1>4, PairKey
  <2>3. PICK e \in Int : KeyOf(list, z) = <<e, k>>
    BY <1>1, <1>4, PairKey
  <2>4. Precedes(KeyOf(list, x), KeyOf(list, x)) <=> (a < a \/ (a = a /\ i < i))
    BY <1>2, <2>1, PairOrder
  <2>5. Precedes(KeyOf(list, x), KeyOf(list, y)) <=> (a < c \/ (a = c /\ i < j))
    BY <1>2, <2>1, <2>2, PairOrder
  <2>6. Precedes(KeyOf(list, y), KeyOf(list, x)) <=> (c < a \/ (c = a /\ j < i))
    BY <1>2, <2>1, <2>2, PairOrder
  <2>7. Precedes(KeyOf(list, y), KeyOf(list, z)) <=> (c < e \/ (c = e /\ j < k))
    BY <1>2, <2>2, <2>3, PairOrder
  <2>8. Precedes(KeyOf(list, x), KeyOf(list, z)) <=> (a < e \/ (a = e /\ i < k))
    BY <1>2, <2>1, <2>3, PairOrder
  <2>9. KeyOf(list, x) # Start
    BY <2>1 DEF Start
  <2> QED BY <1>2, <2>4, <2>5, <2>6, <2>7, <2>8, <2>9
<1> QED BY <1>3, <1>4

(* The last row of a page exists: the one that the most rows precede.             *)
LEMMA LastOfPage ==
  ASSUME NEW list \in Listings, NEW page, page \subseteq PageRow, page # {}, IsFiniteSet(page), DistinctIds(page)
  PROVE  /\ LastOf(list, page) \in page
         /\ \A y \in page : y # LastOf(list, page) => Precedes(KeyOf(list, y), KeyOf(list, LastOf(list, page)))
<1> DEFINE Lower(x, y) == Precedes(KeyOf(list, x), KeyOf(list, y))
           Above(x) == {y \in page : Lower(x, y)}
           T == {Above(x) : x \in page}
<1>1. PICK B \in T : \A C \in T : <<C, B>> \notin StrictSubsetOrdering(page)
  <2>1. T \subseteq SUBSET page /\ T # {}
    OBVIOUS
  <2>2. FiniteSubsetsOf(page) = SUBSET page
    BY FS_FiniteSubsetsOfFinite
  <2>3. T \subseteq FiniteSubsetsOf(page)
    BY <2>1, <2>2
  <2> QED BY <2>1, <2>3, FS_StrictSubsetOrderingWellFounded, WFMin
<1>2. PICK a \in page : B = Above(a)
  OBVIOUS
<1>3. \A x, y, z \in page : ~Lower(x, x) /\ (Lower(x, y) /\ Lower(y, z) => Lower(x, z)) /\ (x # y => Lower(x, y) \/ Lower(y, x))
  BY KeyOrder DEF DistinctIds
<1>4. \A b \in page : Above(b) \in T
  OBVIOUS
<1> HIDE DEF Lower, T
<1>5. ASSUME NEW b \in page, Lower(a, b) PROVE FALSE
  <2>1. Above(b) \subseteq Above(a) /\ b \in Above(a) /\ b \notin Above(b)
    BY <1>3, <1>5
  <2>2. <<Above(b), Above(a)>> \in StrictSubsetOrdering(page)
    BY <2>1 DEF StrictSubsetOrdering
  <2> QED BY <1>1, <1>2, <1>4, <2>2
<1>6. \A y \in page \ {a} : Lower(y, a)
  BY <1>3, <1>5
<1>7. \A y \in page \ {a} : Precedes(KeyOf(list, y), KeyOf(list, a))
  BY <1>6 DEF Lower
<1> QED BY <1>7 DEF LastOf

Walk == [list : Listings \union {"none", "done"}, cursor : {Start} \union {KeyOf(list, x) : list \in Listings, x \in PageRow},
         shown : [RowIds -> Nat], same : SUBSET PageRow]

(* What the client was not shown of the rows that stayed as they were is what lies  *)
(* beyond its cursor.                                                         *)
Ahead(x) == walk.cursor = Start \/ Precedes(walk.cursor, KeyOf(walk.list, x))
PageInv ==
  /\ rows \subseteq PageRow /\ IsFiniteSet(rows) /\ DistinctIds(rows)
  /\ walk \in Walk /\ walk.same \subseteq rows
  /\ walk.list \in Listings => \/ walk.cursor = Start
                               \/ \E c \in PageRow : walk.cursor = KeyOf(walk.list, c)
  /\ walk.list = "none" => walk.cursor = Start /\ walk.same = {} /\ \A i \in RowIds : walk.shown[i] = 0
  /\ walk.list \in Listings =>
       \A x \in walk.same : /\ Ahead(x) => walk.shown[x.id] = 0
                            /\ ~Ahead(x) => walk.shown[x.id] = 1
  /\ walk.list = "done" => \A x \in walk.same : walk.shown[x.id] = 1

LEMMA PageInvSays ==
  ASSUME PageInv PROVE PagesNeitherRepeatNorSkip
<1> SUFFICES ASSUME NEW x \in walk.same
             PROVE  walk.shown[x.id] <= 1 /\ (walk.list = "done" => walk.shown[x.id] = 1)
  BY DEF PagesNeitherRepeatNorSkip
<1>1. walk.list \in Listings \union {"none", "done"}
  BY DEF PageInv, Walk
<1>2. walk.shown[x.id] \in {0, 1}
  BY <1>1 DEF PageInv
<1>3. walk.list = "done" => walk.shown[x.id] = 1
  BY DEF PageInv
<1> QED BY <1>2, <1>3

LEMMA PagesInitSays ==
  ASSUME PagesInit PROVE PageInv
<1>1. walk.list = "none" /\ walk.cursor = Start /\ walk.same = {} /\ walk.shown = [i \in RowIds |-> 0] /\ rows = {}
  BY DEF PagesInit
<1>2. walk \in Walk
  <2>1. PICK z : z = [i \in RowIds |-> 0]
    OBVIOUS
  <2>2. z \in [RowIds -> Nat]
    BY <2>1
  <2> QED BY <2>1, <2>2 DEF PagesInit, Walk
<1>3. IsFiniteSet(rows)
  BY <1>1, FS_EmptySet
<1>4. "none" \notin Listings /\ "none" # "done"
  BY DEF Listings
<1> QED BY <1>1, <1>2, <1>3, <1>4 DEF PageInv, DistinctIds

LEMMA StartWalkKeeps ==
  ASSUME PageInv, NEW list \in Listings, StartWalk(list) PROVE PageInv'
<1>1. walk.list = "none" /\ walk' = [walk EXCEPT !.list = list, !.same = rows] /\ rows' = rows
  BY DEF StartWalk
<1>2. PICK w : w = [walk EXCEPT !.list = list]
  OBVIOUS
<1>3. walk \in Walk /\ rows \subseteq PageRow
  BY DEF PageInv
<1>4. w \in Walk /\ w.list = list /\ w.cursor = walk.cursor /\ w.shown = walk.shown
  BY <1>2, <1>3 DEF Walk
<1>5. walk' = [w EXCEPT !.same = rows]
  BY <1>1, <1>2, <1>3 DEF Walk
<1>6. walk' \in Walk /\ walk'.list = list /\ walk'.cursor = walk.cursor /\ walk'.shown = walk.shown /\ walk'.same = rows
  BY <1>3, <1>4, <1>5 DEF Walk
<1>7. walk'.cursor = Start /\ \A x \in rows : walk'.shown[x.id] = 0
  BY <1>1, <1>3, <1>6 DEF PageInv, PageRow
<1>8. list \notin {"none", "done"}
  BY DEF Listings
<1> QED BY <1>1, <1>3, <1>6, <1>7, <1>8 DEF PageInv, Ahead

LEMMA OneRowChanged ==
  ASSUME NEW S, NEW old, NEW new, IsFiniteSet(S), new = {} \/ \E x : new = {x}
  PROVE  IsFiniteSet((S \ old) \union new)
<1>1. IsFiniteSet(S \ old)
  BY FS_Subset
<1>2. IsFiniteSet(new)
  <2>1. CASE new = {}
    BY <2>1, FS_EmptySet
  <2>2. CASE new # {}
    <3>1. PICK x : new = {x}
      BY <2>2
    <3> QED BY <3>1, FS_Singleton
  <2> QED BY <2>1, <2>2
<1> QED BY <1>1, <1>2, FS_Union

LEMMA RowChangesKeeps ==
  ASSUME PageInv, NEW i \in RowIds, RowChanges(i) PROVE PageInv'
<1> DEFINE old == {x \in rows : x.id = i}
<1>1. \A x : x \in old <=> x \in rows /\ x.id = i
  OBVIOUS
<1>2. PICK new \in {{}} \union {{[id |-> i, at |-> t, rank |-> k]} : t \in Times, k \in Times} :
        rows' = (rows \ old) \union new
  BY DEF RowChanges
<1>3. walk' = [walk EXCEPT !.same = @ \ old]
  BY DEF RowChanges
<1> HIDE DEF old
<1>4. /\ walk' \in Walk /\ walk'.list = walk.list /\ walk'.cursor = walk.cursor /\ walk'.shown = walk.shown
      /\ walk'.same = walk.same \ old
  <2>1. walk \in Walk
    BY DEF PageInv
  <2> QED BY <1>3, <2>1 DEF Walk
<1>5. new = {} \/ \E x \in PageRow : new = {x} /\ x.id = i
  BY DEF PageRow
<1>6. rows' \subseteq PageRow /\ DistinctIds(rows')
  BY <1>1, <1>2, <1>5 DEF PageInv, DistinctIds
<1>7. IsFiniteSet(rows')
  <2>1. IsFiniteSet(rows)
    BY DEF PageInv
  <2>2. new = {} \/ \E x : new = {x}
    BY <1>5
  <2>3. IsFiniteSet((rows \ old) \union new)
    BY <2>1, <2>2, OneRowChanged
  <2> QED BY <1>2, <2>3
<1>8. walk'.same \subseteq rows' /\ walk'.same \subseteq walk.same
  BY <1>2, <1>4 DEF PageInv
<1>9. \A x : Ahead(x)' <=> Ahead(x)
  BY <1>4 DEF Ahead
<1> QED BY <1>4, <1>6, <1>7, <1>8, <1>9 DEF PageInv

(* What a page shows of a row of the listing.                                   *)
LEMMA ShownOnce ==
  ASSUME NEW page, DistinctIds(page)
  PROVE  /\ \A x \in page : Cardinality({z \in page : z.id = x.id}) = 1
         /\ \A i : (\A x \in page : x.id # i) => Cardinality({z \in page : z.id = i}) = 0
         /\ \A i : Cardinality({z \in page : z.id = i}) \in Nat
<1>1. ASSUME NEW x \in page PROVE Cardinality({z \in page : z.id = x.id}) = 1
  <2>1. {z \in page : z.id = x.id} = {x}
    BY DEF DistinctIds
  <2> QED BY <2>1, FS_Singleton
<1>2. ASSUME NEW i, \A x \in page : x.id # i PROVE Cardinality({z \in page : z.id = i}) = 0
  <2>1. {z \in page : z.id = i} = {}
    BY <1>2
  <2> QED BY <2>1, FS_EmptySet
<1>3. ASSUME NEW i PROVE Cardinality({z \in page : z.id = i}) \in Nat
  <2>1. CASE \E x \in page : x.id = i
    BY <1>1, <2>1
  <2>2. CASE ~\E x \in page : x.id = i
    <3>1. \A x \in page : x.id # i
      BY <2>2
    <3>2. Cardinality({z \in page : z.id = i}) = 0
      BY <1>2, <3>1
    <3> QED BY <3>2
  <2> QED BY <2>1, <2>2
<1> QED BY <1>1, <1>2, <1>3

LEMMA NextPageSays ==
  ASSUME PageInv, NextPage
  PROVE  \E page :
           LET S == Remaining(walk.list, walk.cursor)
           IN /\ walk.list \in Listings /\ rows' = rows /\ IsPage(walk.list, S, page)
              /\ walk' = [list   |-> IF page = S THEN "done" ELSE walk.list,
                          cursor |-> IF page = S THEN walk.cursor ELSE KeyOf(walk.list, LastOf(walk.list, page)),
                          shown  |-> [i \in RowIds |-> walk.shown[i] + Cardinality({x \in page : x.id = i})],
                          same   |-> walk.same]
<1> DEFINE S == Remaining(walk.list, walk.cursor)
<1>1. PICK page : /\ IsPage(walk.list, S, page)
                  /\ walk' =
                       [walk EXCEPT
                          !.shown = [i \in RowIds |-> @[i] + Cardinality({x \in page : x.id = i})],
                          !.list = IF page = S THEN "done" ELSE @,
                          !.cursor = IF page = S THEN @ ELSE KeyOf(walk.list, LastOf(walk.list, page))]
  BY Zenon DEF NextPage
<1> HIDE DEF S
<1>2. PICK shown, list, cursor :
        /\ shown = [i \in RowIds |-> walk.shown[i] + Cardinality({x \in page : x.id = i})]
        /\ list = IF page = S THEN "done" ELSE walk.list
        /\ cursor = IF page = S THEN walk.cursor ELSE KeyOf(walk.list, LastOf(walk.list, page))
  OBVIOUS
<1>3. walk' = [walk EXCEPT !.shown = shown, !.list = list, !.cursor = cursor]
  BY <1>1, <1>2
<1>4. walk = [list |-> walk.list, cursor |-> walk.cursor, shown |-> walk.shown, same |-> walk.same]
  BY DEF PageInv, Walk
<1>5. walk' = [list |-> list, cursor |-> cursor, shown |-> shown, same |-> walk.same]
  <2>1. PICK w : w = walk
    OBVIOUS
  <2>2. PICK u : u = [w EXCEPT !.shown = shown]
    OBVIOUS
  <2>3. PICK v : v = [u EXCEPT !.list = list]
    OBVIOUS
  <2>4. walk' = [v EXCEPT !.cursor = cursor]
    BY <1>3, <2>1, <2>2, <2>3
  <2>5. w = [list |-> w.list, cursor |-> w.cursor, shown |-> w.shown, same |-> w.same]
    BY <1>4, <2>1
  <2>6. u = [list |-> w.list, cursor |-> w.cursor, shown |-> shown, same |-> w.same]
    BY <2>2, <2>5
  <2>7. v = [list |-> list, cursor |-> w.cursor, shown |-> shown, same |-> w.same]
    BY <2>3, <2>6
  <2> QED BY <2>1, <2>4, <2>7
<1>6. walk.list \in Listings /\ rows' = rows
  BY DEF NextPage
<1>7. /\ walk.list \in Listings /\ rows' = rows /\ IsPage(walk.list, S, page)
      /\ walk' = [list   |-> IF page = S THEN "done" ELSE walk.list,
                  cursor |-> IF page = S THEN walk.cursor ELSE KeyOf(walk.list, LastOf(walk.list, page)),
                  shown  |-> [i \in RowIds |-> walk.shown[i] + Cardinality({x \in page : x.id = i})],
                  same   |-> walk.same]
  BY <1>1, <1>2, <1>5, <1>6, Zenon
<1> QED BY <1>7, Zenon DEF S

(* Who lies beyond the cursor after a page that is not the last one.               *)
LEMMA BeyondThePage ==
  ASSUME PageInv, NEW list, list = walk.list, list \in Listings,
         NEW S, S = Remaining(list, walk.cursor), NEW page, IsPage(list, S, page), page # S,
         NEW last, last = LastOf(list, page)
  PROVE  /\ last \in PageRow
         /\ \A x \in rows : Precedes(KeyOf(list, last), KeyOf(list, x)) <=> x \in S /\ x \notin page
<1> DEFINE Lower(x, y) == Precedes(KeyOf(list, x), KeyOf(list, y))
<1>1. S \subseteq rows /\ rows \subseteq PageRow /\ page \subseteq S /\ IsFiniteSet(rows) /\ DistinctIds(rows)
  BY DEF Remaining, IsPage, PageInv
<1>2. IsFiniteSet(page) /\ DistinctIds(page) /\ page \subseteq PageRow
  BY <1>1, FS_Subset DEF DistinctIds
<1>3. page # {}
  <2>1. Cardinality(page) = PageSize /\ PageSize # 0
    BY PageAssumption DEF IsPage
  <2> QED BY <2>1, FS_EmptySet
<1>4. last \in page /\ \A y \in page : y # last => Lower(y, last)
  BY <1>2, <1>3, LastOfPage
<1>5. \A x, y, z \in PageRow : ~Lower(x, x) /\ (Lower(x, y) /\ Lower(y, z) => Lower(x, z))
  BY KeyOrder
<1>6. \A x \in page, y \in S \ page : Lower(x, y)
  BY DEF IsPage
<1>7. ASSUME NEW x \in rows, x \in page PROVE ~Lower(last, x)
  BY <1>2, <1>4, <1>5, <1>7
<1>8. ASSUME NEW x \in rows, x \notin S PROVE ~Lower(last, x)
  <2>1. walk.cursor # Start /\ ~Precedes(walk.cursor, KeyOf(list, x))
    BY <1>8 DEF Remaining, After
  <2>2. PICK c \in PageRow : walk.cursor = KeyOf(list, c)
    BY <2>1 DEF PageInv
  <2>3. Lower(c, last) /\ ~Lower(c, x)
    BY <1>1, <1>4, <2>1, <2>2 DEF Remaining, After
  <2> QED BY <1>1, <1>4, <1>5, <2>3
<1>9. \A x \in rows : Lower(last, x) <=> x \in S /\ x \notin page
  BY <1>4, <1>6, <1>7, <1>8
<1> QED BY <1>2, <1>4, <1>9

LEMMA NextPageKeeps ==
  ASSUME PageInv, NextPage PROVE PageInv'
<1>1. PICK list, S : list = walk.list /\ S = Remaining(list, walk.cursor)
  OBVIOUS
<1>2. PICK page :
        /\ list \in Listings /\ rows' = rows /\ IsPage(list, S, page)
        /\ walk' = [list   |-> IF page = S THEN "done" ELSE list,
                    cursor |-> IF page = S THEN walk.cursor ELSE KeyOf(list, LastOf(list, page)),
                    shown  |-> [i \in RowIds |-> walk.shown[i] + Cardinality({x \in page : x.id = i})],
                    same   |-> walk.same]
  BY <1>1, NextPageSays, Zenon
<1>3. /\ walk'.list = IF page = S THEN "done" ELSE list
      /\ walk'.cursor = IF page = S THEN walk.cursor ELSE KeyOf(list, LastOf(list, page))
      /\ walk'.shown = [i \in RowIds |-> walk.shown[i] + Cardinality({x \in page : x.id = i})]
      /\ walk'.same = walk.same
  BY <1>2
<1>4. S \subseteq rows /\ page \subseteq S /\ rows \subseteq PageRow /\ DistinctIds(rows) /\ walk.same \subseteq rows
  BY <1>1, <1>2 DEF Remaining, IsPage, PageInv
<1>5. DistinctIds(page)
  BY <1>4 DEF DistinctIds
<1>6. walk.shown \in [RowIds -> Nat] /\ walk.same \in SUBSET PageRow /\ walk.cursor \in {Start} \union {KeyOf(l, x) : l \in Listings, x \in PageRow}
  BY DEF PageInv, Walk
<1>7. walk'.shown \in [RowIds -> Nat]
  <2>1. \A i \in RowIds : Cardinality({x \in page : x.id = i}) \in Nat
    BY <1>5, ShownOnce
  <2> QED BY <1>3, <1>6, <2>1
<1>8. ASSUME NEW x \in walk.same PROVE walk'.shown[x.id] = IF x \in S /\ x \notin page THEN 0 ELSE 1
  <2>1. x \in rows /\ x.id \in RowIds
    BY <1>4 DEF PageRow
  <2>2. walk'.shown[x.id] = walk.shown[x.id] + Cardinality({z \in page : z.id = x.id})
    BY <1>3, <2>1
  <2>3. walk.shown[x.id] = IF x \in S THEN 0 ELSE 1
    <3>1. x \in S <=> Ahead(x)
      BY <1>1, <2>1 DEF Remaining, After, Ahead
    <3> QED BY <1>1, <1>2, <3>1 DEF PageInv
  <2>4. Cardinality({z \in page : z.id = x.id}) = IF x \in page THEN 1 ELSE 0
    <3>1. CASE x \in page
      BY <1>5, <3>1, ShownOnce
    <3>2. CASE x \notin page
      <4>1. \A z \in page : z.id # x.id
        BY <1>4, <2>1, <3>2 DEF DistinctIds
      <4>2. {z \in page : z.id = x.id} = {}
        BY <4>1
      <4> QED BY <3>2, <4>2, FS_EmptySet
    <3> QED BY <3>1, <3>2
  <2> QED BY <1>4, <2>2, <2>3, <2>4
<1>9. "done" \notin Listings /\ "none" \notin Listings /\ "none" # "done"
  BY DEF Listings
<1>10. CASE page = S
  <2>1. walk'.list = "done" /\ walk'.cursor = walk.cursor
    BY <1>3, <1>10
  <2>2. \A x \in walk'.same : walk'.shown[x.id] = 1
    BY <1>3, <1>8, <1>10
  <2>3. walk' \in Walk
    BY <1>2, <1>3, <1>6, <1>7, <2>1 DEF Walk
  <2> QED BY <1>2, <1>3, <1>4, <1>9, <2>1, <2>2, <2>3 DEF PageInv
<1>11. CASE page # S
  <2>1. PICK last : last = LastOf(list, page)
    OBVIOUS
  <2>2. /\ last \in PageRow
        /\ \A x \in rows : Precedes(KeyOf(list, last), KeyOf(list, x)) <=> x \in S /\ x \notin page
    BY <1>1, <1>2, <1>11, <2>1, BeyondThePage
  <2>3. walk'.list = list /\ walk'.cursor = KeyOf(list, last)
    BY <1>3, <1>11, <2>1
  <2>4. \A x \in walk.same : Ahead(x)' <=> x \in S /\ x \notin page
    <3>1. KeyOf(list, last) # Start
      BY <1>2, <2>2, KeyOrder
    <3> QED BY <1>4, <2>2, <2>3, <3>1 DEF Ahead
  <2>5. walk' \in Walk
    BY <1>2, <1>3, <1>6, <1>7, <2>2, <2>3 DEF Walk
  <2>6. \A x \in walk'.same : (Ahead(x)' => walk'.shown[x.id] = 0) /\ (~Ahead(x)' => walk'.shown[x.id] = 1)
    BY <1>3, <1>8, <2>4
  <2> QED BY <1>2, <1>3, <1>4, <1>9, <2>2, <2>3, <2>5, <2>6 DEF PageInv
<1> QED BY <1>10, <1>11

(* A row that was there when the client asked for its first page and has not changed *)
(* since is shown once by the last page and never twice, whatever rows come and go,   *)
(* in each of the eleven listings with a cursor.                                *)
THEOREM PagesNeitherRepeatNorSkipHolds ==
  PagesSpec => []PagesNeitherRepeatNorSkip
<1>1. PagesInit /\ NothingRuns => PageInv
  BY PagesInitSays
<1>2. PageInv /\ [PagesNext]_<<paging, transactions>> => PageInv'
  <2> SUFFICES ASSUME PageInv, [PagesNext]_<<paging, transactions>> PROVE PageInv'
    OBVIOUS
  <2>1. CASE \E list \in Listings : StartWalk(list)
    BY <2>1, StartWalkKeeps
  <2>2. CASE NextPage
    BY <2>2, NextPageKeeps
  <2>3. CASE \E i \in RowIds : RowChanges(i)
    BY <2>3, RowChangesKeeps
  <2>4. CASE UNCHANGED <<paging, transactions>>
    <3>1. UNCHANGED <<rows, walk>>
      BY <2>4 DEF paging
    <3> QED BY <3>1 DEF PageInv, Ahead
  <2> QED BY <2>1, <2>2, <2>3, <2>4 DEF PagesNext
<1>3. PageInv => PagesNeitherRepeatNorSkip
  BY PageInvSays
<1> QED BY <1>1, <1>2, <1>3, PTL DEF PagesSpec

----------------------------------------------------------------------------
\* The quote and the reservation

OfferLine == [wanted : Nat, price : Nat, buyable : BOOLEAN]
RackRow == [units : Int, held : Int, swapped : Nat, lapsed : Int]

QuoteShaped(q) == \E a, cs, f : q = [addressed |-> a, choices |-> cs, fresh |-> f] /\ f \in BOOLEAN
BasketShaped(k) ==
  \E s, c, ls, f : /\ k = [stage |-> s, choice |-> c, lines |-> ls, fee |-> f]
                   /\ s = "reserved" => ls \in [Lines -> OfferLine]

RulesTyped ==
  /\ offer \in [Lines -> OfferLine] /\ rack \in [Depots -> [Lines -> RackRow]]
  /\ QuoteShaped(quoted) /\ BasketShaped(basket)

(* A group of lines, a branch and a method the quote shows no blocker for, with an *)
(* address or without one.                                                      *)
Possible(x, addressed) ==
  /\ x.branch \in Depots /\ x.lines \subseteq Lines /\ x.method \in {"PICKUP", "DELIVERY"}
  /\ depot[x.branch].serving /\ Purchasable(x.lines)
  /\ \A l \in x.lines : Offered(x.branch, l) >= offer[l].wanted
  /\ Unblocked([lines |-> x.lines], x.branch, x.method, addressed)

RulesInv ==
  /\ RulesTyped
  /\ quoted.fresh => \A choice \in quoted.choices : \A x \in choice : Possible(x, quoted.addressed)

LEMMA PossibleIsGranted ==
  ASSUME RulesTyped, NEW x, NEW addressed, Possible(x, addressed),
         x.method = "DELIVERY" => Located(addressed) \/ Deliverable(x), \A l \in x.lines : ~(rack[x.branch][l].swapped > 0)
  PROVE  MayReserve(x)
<1>1. \A l \in x.lines : rack[x.branch][l].units - Reserved(x.branch, l) >= offer[l].wanted
  <2> SUFFICES ASSUME NEW l \in x.lines PROVE rack[x.branch][l].units - Reserved(x.branch, l) >= offer[l].wanted
    OBVIOUS
  <2>1. rack[x.branch][l] \in RackRow /\ offer[l] \in OfferLine
    BY DEF Possible, RulesTyped
  <2>2. Offered(x.branch, l) >= offer[l].wanted
    BY DEF Possible
  <2>3. rack[x.branch][l].swapped = 0
    BY <2>1 DEF RackRow
  <2> QED BY <2>1, <2>2, <2>3 DEF Offered, Reserved, RackRow, OfferLine
<1>2. CASE x.method = "PICKUP"
  BY <1>1, <1>2 DEF Possible, Unblocked, MayReserve
<1>3. CASE x.method = "DELIVERY"
  BY <1>1, <1>3 DEF Possible, Unblocked, Located, Deliverable, MayReserve, HasSlot
<1> QED BY <1>2, <1>3 DEF Possible

(* Of the branches that have enough of a line one has most, and is the oldest of    *)
(* these: the branches are finitely many and ordered.                            *)
LEMMA AssignedIsCandidate ==
  ASSUME RulesTyped, NEW l \in Lines, Candidates(l) # {} PROVE Assigned(l) \in Candidates(l)
<1> DEFINE Fuller(b, c) == Offered(b, l) > Offered(c, l) \/ (Offered(b, l) = Offered(c, l) /\ b <= c)
           C == Candidates(l)
           Above(a) == {b \in C : Fuller(b, a) /\ b # a}
           T == {Above(a) : a \in C}
<1>1. C \subseteq Depots /\ IsFiniteSet(C) /\ \A b \in C : b \in Nat /\ Offered(b, l) \in Int
  <2>1. C \subseteq Depots
    BY DEF Candidates, Serving
  <2>2. IsFiniteSet(C) /\ \A b \in C : b \in Nat
    BY <2>1, CheckoutAssumption, FS_Subset
  <2>3. ASSUME NEW b \in C PROVE Offered(b, l) \in Int
    <3>1. rack[b][l] \in RackRow
      BY <2>1 DEF RulesTyped
    <3> QED BY <3>1 DEF RackRow, Offered
  <2> QED BY <2>1, <2>2, <2>3
<1>2. \A a, b, c \in C : (Fuller(a, b) /\ Fuller(b, c) => Fuller(a, c)) /\ (Fuller(a, b) /\ Fuller(b, a) => a = b)
                         /\ (Fuller(a, b) \/ Fuller(b, a))
  BY <1>1
<1> HIDE DEF Fuller, C
<1>3. PICK B \in T : \A D \in T : <<D, B>> \notin StrictSubsetOrdering(C)
  <2>1. T \subseteq SUBSET C /\ T # {}
    BY DEF C
  <2>2. FiniteSubsetsOf(C) = SUBSET C
    BY <1>1, FS_FiniteSubsetsOfFinite
  <2> HIDE DEF T
  <2>3. T \subseteq FiniteSubsetsOf(C)
    BY <2>1, <2>2
  <2>4. IsWellFoundedOn(StrictSubsetOrdering(C), FiniteSubsetsOf(C))
    BY <1>1, FS_StrictSubsetOrderingWellFounded
  <2> QED BY <2>1, <2>3, <2>4, WFMin
<1>4. PICK a \in C : B = Above(a)
  OBVIOUS
<1>5. ASSUME NEW b \in Above(a) PROVE FALSE
  <2>1. b \in C /\ Above(b) \in T
    OBVIOUS
  <2>2. Fuller(b, a) /\ b # a
    OBVIOUS
  <2>3. ASSUME NEW c \in Above(b) PROVE c \in Above(a)
    <3>1. c \in C /\ Fuller(c, b) /\ c # b
      OBVIOUS
    <3>2. Fuller(c, a)
      BY <1>2, <2>1, <2>2, <3>1
    <3>3. c # a
      BY <1>2, <2>1, <2>2, <3>1
    <3> QED BY <3>1, <3>2, <3>3
  <2>4. b \notin Above(b) /\ Above(b) \subseteq C /\ Above(a) \subseteq C
    OBVIOUS
  <2> HIDE DEF Above, T
  <2>5. <<Above(b), Above(a)>> \in StrictSubsetOrdering(C)
    BY <1>5, <2>3, <2>4 DEF StrictSubsetOrdering
  <2> QED BY <1>3, <1>4, <2>1, <2>5
<1>6. \A c \in C : Fuller(a, c)
  <2> SUFFICES ASSUME NEW c \in C PROVE Fuller(a, c)
    OBVIOUS
  <2>1. CASE c = a
    BY <1>2, <2>1
  <2>2. CASE c # a
    BY <1>2, <1>5, <2>2
  <2> QED BY <2>1, <2>2
<1>7. \E b \in Candidates(l) :
        \A c \in Candidates(l) : Offered(b, l) > Offered(c, l) \/ (Offered(b, l) = Offered(c, l) /\ b <= c)
  BY <1>6 DEF Fuller, C
<1> QED BY <1>7 DEF Assigned

LEMMA PlansArePossible ==
  ASSUME RulesTyped, Purchasable(Lines), NEW addressed, NEW choice \in Plans(addressed), NEW x \in choice
  PROVE  Possible(x, addressed)
<1>1. PICK g \in CartGroups : x \in Options(g) /\ Unblocked(g, x.branch, x.method, addressed)
  BY DEF Plans
<1>2. PICK b \in g.branches, how \in {"PICKUP", "DELIVERY"} : x = [lines |-> g.lines, branch |-> b, method |-> how]
  BY <1>1 DEF Options
<1>3. g.lines \subseteq Lines /\ \A l \in g.lines : b \in Candidates(l)
  <2>1. CASE FullyCovering # {}
    <3>1. g = [lines |-> Lines, branches |-> FullyCovering]
      BY <2>1 DEF CartGroups
    <3> QED BY <3>1 DEF FullyCovering
  <2>2. CASE FullyCovering = {}
    <3>1. PICK c : g = [lines |-> {l \in Lines : Candidates(l) # {} /\ Assigned(l) = c}, branches |-> {c}]
      BY <2>2 DEF CartGroups
    <3> QED BY <3>1, AssignedIsCandidate
  <2> QED BY <2>1, <2>2
<1>4. b \in Depots /\ depot[b].serving
  <2>1. CASE FullyCovering # {}
    <3>1. g = [lines |-> Lines, branches |-> FullyCovering]
      BY <2>1 DEF CartGroups
    <3> QED BY <3>1 DEF FullyCovering, Serving
  <2>2. CASE FullyCovering = {}
    <3>1. PICK m \in Lines : /\ Candidates(m) # {}
                             /\ g = [lines |-> {l \in Lines : Candidates(l) # {} /\ Assigned(l) = Assigned(m)},
                                     branches |-> {Assigned(m)}]
      BY <2>2 DEF CartGroups
    <3> QED BY <3>1, AssignedIsCandidate DEF Candidates, Serving
  <2> QED BY <2>1, <2>2
<1>5. \A l \in g.lines : Offered(b, l) >= offer[l].wanted
  BY <1>3 DEF Candidates
<1>6. Purchasable(g.lines)
  BY <1>3 DEF Purchasable
<1>7. Unblocked([lines |-> g.lines], b, how, addressed)
  <2>1. Unblocked(g, b, how, addressed)
    BY <1>1, <1>2
  <2> QED BY <2>1 DEF Unblocked
<1> QED BY <1>2, <1>3, <1>4, <1>5, <1>6, <1>7 DEF Possible

LEMMA QuoteGrowsStale ==
  ASSUME NEW q, QuoteShaped(q), NEW p, p = [q EXCEPT !.fresh = FALSE] PROVE QuoteShaped(p) /\ p.fresh = FALSE
<1>1. PICK a, cs, f : q = [addressed |-> a, choices |-> cs, fresh |-> f] /\ f \in BOOLEAN
  BY DEF QuoteShaped
<1>2. p = [addressed |-> a, choices |-> cs, fresh |-> FALSE]
  BY <1>1
<1> QED BY <1>2 DEF QuoteShaped

LEMMA BasketMovesOn ==
  ASSUME NEW k, BasketShaped(k), NEW j, j = [k EXCEPT !.stage = "ordered"] PROVE BasketShaped(j)
<1>1. PICK s, c, ls, f : k = [stage |-> s, choice |-> c, lines |-> ls, fee |-> f]
  BY DEF BasketShaped
<1>2. j = [stage |-> "ordered", choice |-> c, lines |-> ls, fee |-> f]
  BY <1>1
<1> QED BY <1>2 DEF BasketShaped

LEMMA BasketLines ==
  ASSUME NEW k, BasketShaped(k), k.stage = "reserved" PROVE k.lines \in [Lines -> OfferLine]
<1>1. PICK s, c, ls, f : /\ k = [stage |-> s, choice |-> c, lines |-> ls, fee |-> f]
                         /\ s = "reserved" => ls \in [Lines -> OfferLine]
  BY DEF BasketShaped
<1> QED BY <1>1

LEMMA NoBasketShaped ==
  BasketShaped(NoBasket) /\ BasketShaped([NoBasket EXCEPT !.stage = "refused"])
<1>1. PICK c, ls, k : c = {} /\ ls = << >> /\ k = NoBasket
  OBVIOUS
<1>2. k = [stage |-> "none", choice |-> c, lines |-> ls, fee |-> NoMoney]
  BY <1>1 DEF NoBasket
<1>3. PICK j : j = [k EXCEPT !.stage = "refused"]
  OBVIOUS
<1>4. j = [stage |-> "refused", choice |-> c, lines |-> ls, fee |-> NoMoney]
  BY <1>2, <1>3
<1>5. BasketShaped(k)
  <2>1. ("none" = "reserved" => ls \in [Lines -> OfferLine])
    OBVIOUS
  <2> QED BY Zenon, <1>2, <2>1 DEF BasketShaped
<1>6. BasketShaped(j)
  <2>1. ("refused" = "reserved" => ls \in [Lines -> OfferLine])
    OBVIOUS
  <2> QED BY Zenon, <1>4, <2>1 DEF BasketShaped
<1> QED BY <1>1, <1>3, <1>5, <1>6

LEMMA SubtotalStays ==
  ASSUME NEW ls, offer' = offer PROVE Subtotal(ls)' = Subtotal(ls)
BY DEF Subtotal

LEMMA PossibleStays ==
  ASSUME NEW x, NEW addressed, Possible(x, addressed), UNCHANGED <<depot, offer, zone>>,
         \A l \in x.lines : Offered(x.branch, l)' = Offered(x.branch, l)
  PROVE  Possible(x, addressed)'
<1>1. Purchasable(x.lines)'
  BY DEF Possible, Purchasable
<1>2. Subtotal(x.lines)' = Subtotal(x.lines)
  BY SubtotalStays
<1>3. Unblocked([lines |-> x.lines], x.branch, x.method, addressed)'
  BY <1>2 DEF Possible, Unblocked, Located, Meets, DeliveryFee, DeliveryMinimum, HasSlot
<1> QED BY <1>1, <1>3 DEF Possible

LEMMA QuoteKeeps ==
  ASSUME RulesInv, NEW addressed, Quote(addressed) PROVE RulesInv'
<1>1. /\ quoted' = [addressed |-> addressed, choices |-> Plans(addressed), fresh |-> TRUE]
      /\ UNCHANGED <<depot, rack, offer, zone, basket>> /\ Purchasable(Lines)
  BY DEF Quote
<1>2. QuoteShaped(quoted')
  BY <1>1 DEF QuoteShaped
<1>3. RulesTyped'
  BY <1>1, <1>2 DEF RulesInv, RulesTyped, BasketShaped
<1>4. \A choice \in Plans(addressed) : \A x \in choice : Possible(x, addressed)
  BY <1>1, PlansArePossible DEF RulesInv
<1>5. ASSUME NEW x, Possible(x, addressed) PROVE Possible(x, addressed)'
  BY <1>1, <1>5, PossibleStays DEF Offered
<1>6. quoted'.choices = Plans(addressed) /\ quoted'.addressed = addressed
  BY <1>1
<1> QED BY <1>3, <1>4, <1>5, <1>6 DEF RulesInv

(* Whatever makes the quote stale has only its types to keep.                     *)
LEMMA StaleKeeps ==
  ASSUME RulesInv, quoted' = [quoted EXCEPT !.fresh = FALSE],
         offer' \in [Lines -> OfferLine], rack' \in [Depots -> [Lines -> RackRow]], BasketShaped(basket)'
  PROVE  RulesInv'
<1>1. QuoteShaped(quoted') /\ quoted'.fresh = FALSE
  BY QuoteGrowsStale DEF RulesInv, RulesTyped
<1>2. RulesTyped'
  BY <1>1 DEF RulesTyped, QuoteShaped
<1> QED BY <1>1, <1>2 DEF RulesInv

LEMMA TakesUnits ==
  ASSUME NEW k, k.lines \in [Lines -> OfferLine], NEW b, NEW l \in Lines PROVE Takes(k, b, l) \in Nat
<1>1. k.lines[l].wanted \in Nat
  BY DEF OfferLine
<1> QED BY <1>1 DEF Takes

(* The three ways a reservation, its confirmation and its end rewrite a row.       *)
LEMMA RowsRewritten ==
  ASSUME NEW r \in RackRow, NEW n \in Nat, NEW e \in Nat
  PROVE  /\ [r EXCEPT !.held = @ + n, !.lapsed = IF n > 0 THEN 0 ELSE @] \in RackRow
         /\ [r EXCEPT !.units = @ - n, !.held = @ - n] \in RackRow
         /\ [r EXCEPT !.units = @ - n, !.held = @ - n].units = r.units - n
         /\ [r EXCEPT !.units = @ - n, !.held = @ - n].held = r.held - n
         /\ [r EXCEPT !.held = @ - n, !.lapsed = @ + e] \in RackRow
<1>1. r.units \in Int /\ r.held \in Int /\ r.lapsed \in Int /\ 0 \in Int
  BY DEF RackRow
<1>2. PICK z : z = (IF n > 0 THEN 0 ELSE r.lapsed) /\ z \in Int
  BY <1>1
<1>3. PICK hn, un, hm, pe : /\ hn = r.held + n /\ un = r.units - n /\ hm = r.held - n /\ pe = r.lapsed + e
                           /\ hn \in Int /\ un \in Int /\ hm \in Int /\ pe \in Int
  BY <1>1
<1>4. PICK v : v = [r EXCEPT !.held = hn, !.lapsed = z]
  OBVIOUS
<1>5. PICK w : w = [r EXCEPT !.units = un, !.held = hm]
  OBVIOUS
<1>6. PICK y : y = [r EXCEPT !.held = hm, !.lapsed = pe]
  OBVIOUS
<1>7. v \in RackRow
  BY <1>2, <1>3, <1>4 DEF RackRow
<1>8. w \in RackRow /\ w.units = un /\ w.held = hm
  BY <1>3, <1>5 DEF RackRow
<1>9. y \in RackRow
  BY <1>3, <1>6 DEF RackRow
<1>10. /\ v = [r EXCEPT !.held = @ + n, !.lapsed = IF n > 0 THEN 0 ELSE @]
       /\ w = [r EXCEPT !.units = @ - n, !.held = @ - n]
       /\ y = [r EXCEPT !.held = @ - n, !.lapsed = @ + e]
  BY Zenon, <1>2, <1>3, <1>4, <1>5, <1>6
<1> QED BY Zenon, <1>3, <1>7, <1>8, <1>9, <1>10

LEMMA ReserveBasketKeeps ==
  ASSUME RulesInv, NEW choice, ReserveBasket(choice) PROVE RulesInv'
<1>1. /\ quoted' = [quoted EXCEPT !.fresh = FALSE] /\ offer' = offer
      /\ offer \in [Lines -> OfferLine] /\ rack \in [Depots -> [Lines -> RackRow]]
  BY Zenon DEF ReserveBasket, RulesInv, RulesTyped
<1>2. CASE \A x \in choice : MayReserve(x)
  <2>1. PICK k : k = [stage |-> "reserved", choice |-> choice, lines |-> offer, fee |-> DeliveryFee]
    OBVIOUS
  <2>2. rack' = [b \in Depots |-> [l \in Lines |->
                  [rack[b][l] EXCEPT !.held = @ + Takes(k, b, l), !.lapsed = IF Takes(k, b, l) > 0 THEN 0 ELSE @]]]
        /\ basket' = k
    BY Zenon, <1>2, <2>1 DEF ReserveBasket
  <2>3. k.lines = offer
    BY <2>1
  <2>4. ASSUME NEW b \in Depots, NEW l \in Lines
        PROVE  [rack[b][l] EXCEPT !.held = @ + Takes(k, b, l), !.lapsed = IF Takes(k, b, l) > 0 THEN 0 ELSE @] \in RackRow
    <3>1. rack[b][l] \in RackRow /\ Takes(k, b, l) \in Nat /\ 0 \in Nat
      BY <1>1, <2>3, TakesUnits
    <3> QED BY Zenon, <3>1, RowsRewritten
  <2>5. rack' \in [Depots -> [Lines -> RackRow]]
    BY Zenon, <2>2, <2>4
  <2>6. BasketShaped(basket')
    <3>1. \E s, c, ls, f : k = [stage |-> s, choice |-> c, lines |-> ls, fee |-> f] /\ (s = "reserved" => ls \in [Lines -> OfferLine])
      BY Zenon, <1>1, <2>1
    <3> QED BY Zenon, <2>2, <3>1 DEF BasketShaped
  <2> QED BY <1>1, <2>5, <2>6, StaleKeeps DEF BasketShaped
<1>3. CASE ~\A x \in choice : MayReserve(x)
  <2>1. basket' = [NoBasket EXCEPT !.stage = "refused"] /\ rack' = rack
    BY Zenon, <1>3 DEF ReserveBasket
  <2>2. BasketShaped(basket')
    BY Zenon, <2>1, NoBasketShaped
  <2> QED BY <1>1, <2>1, <2>2, StaleKeeps DEF BasketShaped
<1> QED BY <1>2, <1>3

LEMMA ConfirmBasketKeeps ==
  ASSUME RulesInv, ConfirmBasket PROVE RulesInv'
<1>1. basket.stage = "reserved" /\ basket' = [basket EXCEPT !.stage = "ordered"] /\ UNCHANGED <<depot, offer, zone, quoted>>
  BY Zenon DEF ConfirmBasket
<1>2. rack' = [b \in Depots |-> [l \in Lines |->
                [rack[b][l] EXCEPT !.units = @ - Takes(basket, b, l), !.held = @ - Takes(basket, b, l)]]]
  BY Zenon DEF ConfirmBasket
<1>3. rack \in [Depots -> [Lines -> RackRow]] /\ BasketShaped(basket) /\ basket.lines \in [Lines -> OfferLine]
  BY <1>1, BasketLines DEF RulesInv, RulesTyped
<1>4. ASSUME NEW b \in Depots, NEW l \in Lines
      PROVE  /\ [rack[b][l] EXCEPT !.units = @ - Takes(basket, b, l), !.held = @ - Takes(basket, b, l)] \in RackRow
             /\ Offered(b, l)' = Offered(b, l)
  <2>1. rack[b][l] \in RackRow /\ Takes(basket, b, l) \in Nat /\ 0 \in Nat
    BY <1>3, TakesUnits
  <2>2. PICK n \in Nat : n = Takes(basket, b, l)
    BY <2>1
  <2>3. rack'[b][l] = [rack[b][l] EXCEPT !.units = @ - n, !.held = @ - n]
    BY Zenon, <1>2, <2>2
  <2>4. /\ [rack[b][l] EXCEPT !.units = @ - n, !.held = @ - n] \in RackRow
        /\ rack'[b][l].units = rack[b][l].units - n /\ rack'[b][l].held = rack[b][l].held - n
    BY Zenon, <2>1, <2>3, RowsRewritten
  <2>5. rack[b][l].units \in Int /\ rack[b][l].held \in Int
    BY <2>1 DEF RackRow
  <2>6. Offered(b, l)' = Offered(b, l)
    BY <2>4, <2>5 DEF Offered
  <2> QED BY <2>2, <2>4, <2>6
<1>5. rack' \in [Depots -> [Lines -> RackRow]]
  BY Zenon, <1>2, <1>4
<1>6. BasketShaped(basket')
  BY <1>1, <1>3, BasketMovesOn
<1>7. RulesTyped'
  BY <1>1, <1>5, <1>6 DEF RulesInv, RulesTyped, BasketShaped, QuoteShaped
<1>8. ASSUME NEW x, NEW a, Possible(x, a) PROVE Possible(x, a)'
  <2>1. x.branch \in Depots /\ x.lines \subseteq Lines
    BY <1>8 DEF Possible
  <2>2. \A l \in x.lines : Offered(x.branch, l)' = Offered(x.branch, l)
    BY Zenon, <1>4, <2>1
  <2> QED BY <1>1, <1>8, <2>2, PossibleStays
<1> QED BY <1>1, <1>7, <1>8 DEF RulesInv

LEMMA BasketEndsKeeps ==
  ASSUME RulesInv, BasketEnds PROVE RulesInv'
<1>1. PICK swept \in BOOLEAN :
        rack' = [b \in Depots |-> [l \in Lines |->
                  [rack[b][l] EXCEPT !.held = @ - Takes(basket, b, l), !.lapsed = @ + IF swept THEN 0 ELSE Takes(basket, b, l)]]]
  BY Zenon DEF BasketEnds
<1>2. basket.stage = "reserved" /\ basket' = NoBasket /\ offer' = offer /\ quoted' = [quoted EXCEPT !.fresh = FALSE]
  BY Zenon DEF BasketEnds
<1>3. rack \in [Depots -> [Lines -> RackRow]] /\ offer' \in [Lines -> OfferLine] /\ BasketShaped(basket)
  BY Zenon, <1>2 DEF RulesInv, RulesTyped
<1>4. ASSUME NEW b \in Depots, NEW l \in Lines
      PROVE  [rack[b][l] EXCEPT !.held = @ - Takes(basket, b, l), !.lapsed = @ + IF swept THEN 0 ELSE Takes(basket, b, l)] \in RackRow
  <2>1. PICK n : n = Takes(basket, b, l)
    OBVIOUS
  <2>2. rack[b][l] \in RackRow /\ n \in Nat
    <3>1. basket.lines \in [Lines -> OfferLine]
      BY Zenon, <1>2, <1>3, BasketLines
    <3>2. rack[b][l] \in RackRow
      BY Zenon, <1>3
    <3> QED BY Zenon, <2>1, <3>1, <3>2, TakesUnits
  <2>3. PICK e \in Nat : e = (IF swept THEN 0 ELSE n)
    <3>1. (IF swept THEN 0 ELSE n) \in Nat
      BY <2>2
    <3> QED BY Zenon, <3>1
  <2>4. [rack[b][l] EXCEPT !.held = @ - n, !.lapsed = @ + e] \in RackRow
    BY Zenon, <2>2, RowsRewritten
  <2> QED BY Zenon, <2>1, <2>3, <2>4
<1>5. rack' \in [Depots -> [Lines -> RackRow]]
  BY Zenon, <1>1, <1>4
<1>6. BasketShaped(basket')
  BY Zenon, <1>2, NoBasketShaped
<1> HIDE <1>1, <1>4
<1> QED BY Zenon, <1>2, <1>3, <1>5, <1>6, StaleKeeps DEF BasketShaped

LEMMA StartsOverKeeps ==
  ASSUME RulesInv, StartsOver PROVE RulesInv'
<1>1. basket' = NoBasket /\ UNCHANGED <<depot, rack, offer, zone, quoted>>
  BY DEF StartsOver
<1>2. BasketShaped(basket')
  BY <1>1, NoBasketShaped
<1>3. RulesTyped'
  BY <1>1, <1>2 DEF RulesInv, RulesTyped, BasketShaped, QuoteShaped
<1>4. ASSUME NEW x, NEW a, Possible(x, a) PROVE Possible(x, a)'
  BY <1>1, <1>4, PossibleStays DEF Offered
<1> QED BY <1>1, <1>3, <1>4 DEF RulesInv

LEMMA ElsewhereKeeps ==
  ASSUME RulesInv, Elsewhere, offer' \in [Lines -> OfferLine], rack' \in [Depots -> [Lines -> RackRow]] PROVE RulesInv'
<1>1. quoted' = [quoted EXCEPT !.fresh = FALSE] /\ basket' = basket
  BY DEF Elsewhere
<1>2. BasketShaped(basket')
  BY <1>1 DEF RulesInv, RulesTyped
<1> QED BY <1>1, <1>2, StaleKeeps DEF BasketShaped

LEMMA DepotOrZoneChangesKeep ==
  ASSUME RulesInv, (\E b \in Depots : DepotChanges(b)) \/ ZoneChanges PROVE RulesInv'
<1>1. Elsewhere /\ UNCHANGED <<rack, offer>>
  BY Zenon DEF DepotChanges, ZoneChanges
<1>2. offer' \in [Lines -> OfferLine] /\ rack' \in [Depots -> [Lines -> RackRow]]
  BY <1>1 DEF RulesInv, RulesTyped
<1> QED BY Zenon, <1>1, <1>2, ElsewhereKeeps

LEMMA LineChangesKeeps ==
  ASSUME RulesInv, NEW l \in Lines, LineChanges(l) PROVE RulesInv'
<1>1. offer \in [Lines -> OfferLine] /\ rack \in [Depots -> [Lines -> RackRow]]
  BY DEF RulesInv, RulesTyped
<1>2. Charged \subseteq Nat /\ 1..MaxLine \subseteq Nat
  BY CheckoutAssumption DEF Charged
<1>3. offer' \in [Lines -> OfferLine]
  <2>1. CASE offer' = [offer EXCEPT ![l].buyable = ~@]
    BY <1>1, <2>1 DEF OfferLine
  <2>2. CASE \E m \in Charged : offer' = [offer EXCEPT ![l].price = m]
    BY <1>1, <1>2, <2>2 DEF OfferLine
  <2>3. CASE \E k \in 1..MaxLine : offer' = [offer EXCEPT ![l].wanted = k]
    BY <1>1, <1>2, <2>3 DEF OfferLine
  <2> QED BY Zenon, <2>1, <2>2, <2>3 DEF LineChanges
<1>4. Elsewhere /\ rack' = rack
  BY Zenon DEF LineChanges
<1> QED BY <1>1, <1>3, <1>4, ElsewhereKeeps

LEMMA RackChangesKeeps ==
  ASSUME RulesInv, NEW b \in Depots, NEW l \in Lines, RackChanges(b, l) PROVE RulesInv'
<1>1. offer \in [Lines -> OfferLine] /\ rack \in [Depots -> [Lines -> RackRow]] /\ rack[b][l] \in RackRow
  BY DEF RulesInv, RulesTyped
<1>2. Elsewhere /\ offer' = offer
  BY Zenon DEF RackChanges
<1>3. rack' \in [Depots -> [Lines -> RackRow]]
  <2>0. \A row \in RackRow : [rack[b] EXCEPT ![l] = row] \in [Lines -> RackRow]
    BY Zenon, <1>1
  <2>1. ASSUME NEW row \in RackRow, rack' = [rack EXCEPT ![b][l] = row] PROVE rack' \in [Depots -> [Lines -> RackRow]]
    <3>1. rack' = [rack EXCEPT ![b] = [rack[b] EXCEPT ![l] = row]]
      BY Zenon, <2>1
    <3> QED BY Zenon, <1>1, <2>0, <3>1
  <2>2. PICK up, down, kept, freed, out, in, late :
           /\ up = rack[b][l].units + 1 /\ down = rack[b][l].units - 1 /\ kept = rack[b][l].held + 1 /\ freed = rack[b][l].held - 1
           /\ out = rack[b][l].swapped + 1 /\ in = rack[b][l].swapped - 1 /\ late = rack[b][l].lapsed + 1
    OBVIOUS
  <2>3. /\ up \in Int /\ down \in Int /\ kept \in Int /\ freed \in Int /\ out \in Nat /\ late \in Int /\ 0 \in Int
        /\ rack[b][l].swapped > 0 => in \in Nat
    BY <1>1, <2>2 DEF RackRow
  <2>4. ASSUME NEW u \in {up, down}, rack' = [rack EXCEPT ![b][l].units = u] PROVE rack' \in [Depots -> [Lines -> RackRow]]
    <3>1. rack' = [rack EXCEPT ![b][l] = [rack[b][l] EXCEPT !.units = u]]
      BY Zenon, <2>4
    <3>2. [rack[b][l] EXCEPT !.units = u] \in RackRow
      BY <1>1, <2>3 DEF RackRow
    <3> QED BY Zenon, <2>1, <3>1, <3>2
  <2>5. ASSUME NEW u \in {kept, freed}, rack' = [rack EXCEPT ![b][l].held = u] PROVE rack' \in [Depots -> [Lines -> RackRow]]
    <3>1. rack' = [rack EXCEPT ![b][l] = [rack[b][l] EXCEPT !.held = u]]
      BY Zenon, <2>5
    <3>2. [rack[b][l] EXCEPT !.held = u] \in RackRow
      BY <1>1, <2>3 DEF RackRow
    <3> QED BY Zenon, <2>1, <3>1, <3>2
  <2>6. ASSUME NEW u \in Nat, rack' = [rack EXCEPT ![b][l].swapped = u] PROVE rack' \in [Depots -> [Lines -> RackRow]]
    <3>1. rack' = [rack EXCEPT ![b][l] = [rack[b][l] EXCEPT !.swapped = u]]
      BY Zenon, <2>6
    <3>2. [rack[b][l] EXCEPT !.swapped = u] \in RackRow
      BY <1>1, <2>6 DEF RackRow
    <3> QED BY Zenon, <2>1, <3>1, <3>2
  <2>7. ASSUME rack' = [rack EXCEPT ![b][l].held = freed, ![b][l].lapsed = late] PROVE rack' \in [Depots -> [Lines -> RackRow]]
    <3>1. PICK row : row = [rack[b][l] EXCEPT !.held = freed, !.lapsed = late]
      OBVIOUS
    <3>2. row \in RackRow
      BY <1>1, <2>3, <3>1 DEF RackRow
    <3>3. rack' = [rack EXCEPT ![b][l] = row]
      BY <1>1, <2>7, <3>1 DEF RackRow
    <3> QED BY Zenon, <2>1, <3>2, <3>3
  <2>8. ASSUME rack' = [rack EXCEPT ![b][l].lapsed = 0] PROVE rack' \in [Depots -> [Lines -> RackRow]]
    <3>1. rack' = [rack EXCEPT ![b][l] = [rack[b][l] EXCEPT !.lapsed = 0]]
      BY Zenon, <2>8
    <3>2. [rack[b][l] EXCEPT !.lapsed = 0] \in RackRow
      BY <1>1 DEF RackRow
    <3> QED BY Zenon, <2>1, <3>1, <3>2
  <2>9. \/ rack' = [rack EXCEPT ![b][l].units = up] \/ rack' = [rack EXCEPT ![b][l].units = down]
        \/ rack' = [rack EXCEPT ![b][l].held = kept] \/ rack' = [rack EXCEPT ![b][l].held = freed]
        \/ rack' = [rack EXCEPT ![b][l].held = freed, ![b][l].lapsed = late]
        \/ rack' = [rack EXCEPT ![b][l].swapped = out]
        \/ rack[b][l].swapped > 0 /\ rack' = [rack EXCEPT ![b][l].swapped = in]
        \/ rack' = [rack EXCEPT ![b][l].lapsed = 0]
    BY Zenon, <2>2 DEF RackChanges
  <2> QED BY Zenon, <2>3, <2>4, <2>5, <2>6, <2>7, <2>8, <2>9
<1> QED BY <1>1, <1>2, <1>3, ElsewhereKeeps

LEMMA SmallestIsOneOfThem ==
  ASSUME NEW S \in SUBSET Nat, S # {} PROVE Min(S) \in S /\ \A x \in S : Min(S) <= x
BY LeastElement DEF Min

LEMMA RulesStart == CheckoutRulesInit => RulesInv
<1> SUFFICES ASSUME CheckoutRulesInit PROVE RulesInv
  OBVIOUS
<1>1. offer \in [Lines -> OfferLine]
  <2>1. PICK m : m = Min(Charged) /\ m \in Nat
    BY SmallestIsOneOfThem, CheckoutAssumption DEF Charged
  <2>2. offer = [l \in Lines |-> [wanted |-> 1, price |-> m, buyable |-> TRUE]]
    BY Zenon, <2>1 DEF CheckoutRulesInit
  <2> QED BY <2>1, <2>2 DEF OfferLine
<1>2. rack \in [Depots -> [Lines -> RackRow]]
  <2>1. PICK k \in 1..MaxLine : rack = [b \in Depots |-> [l \in Lines |-> [units |-> k, held |-> 0, swapped |-> 0, lapsed |-> 0]]]
    BY Zenon DEF CheckoutRulesInit
  <2>2. [units |-> k, held |-> 0, swapped |-> 0, lapsed |-> 0] \in RackRow
    BY DEF RackRow
  <2> QED BY Zenon, <2>1, <2>2
<1>3. BasketShaped(basket)
  BY Zenon, NoBasketShaped DEF CheckoutRulesInit
<1>4. QuoteShaped(quoted) /\ ~quoted.fresh
  <2>1. quoted = [addressed |-> FALSE, choices |-> {}, fresh |-> FALSE]
    BY Zenon DEF CheckoutRulesInit, Unquoted
  <2>2. FALSE \in BOOLEAN /\ ~quoted.fresh
    BY <2>1
  <2> QED BY Zenon, <2>1, <2>2 DEF QuoteShaped
<1> QED BY <1>1, <1>2, <1>3, <1>4 DEF RulesInv, RulesTyped

LEMMA RulesStep == RulesInv /\ [CheckoutRulesNext]_<<checkoutRules, transactions>> => RulesInv'
<1> SUFFICES ASSUME RulesInv, [CheckoutRulesNext]_<<checkoutRules, transactions>> PROVE RulesInv'
  OBVIOUS
<1>1. CASE UNCHANGED <<checkoutRules, transactions>>
  <2>1. UNCHANGED <<depot, rack, offer, zone, quoted, basket>>
    BY <1>1 DEF checkoutRules
  <2>2. RulesTyped'
    BY <2>1 DEF RulesInv, RulesTyped, QuoteShaped, BasketShaped
  <2>3. ASSUME NEW x, NEW a, Possible(x, a) PROVE Possible(x, a)'
    BY <2>1, <2>3, PossibleStays DEF Offered
  <2> QED BY <2>1, <2>2, <2>3 DEF RulesInv
<1>2. CASE CheckoutRulesNext
  BY Zenon, <1>2, QuoteKeeps, ReserveBasketKeeps, ConfirmBasketKeeps, BasketEndsKeeps, StartsOverKeeps,
     DepotOrZoneChangesKeep, LineChangesKeeps, RackChangesKeeps DEF CheckoutRulesNext
<1> QED BY <1>1, <1>2

(* What the quote shows as possible the reservation grants while nothing has changed: *)
(* quote() and reserve() look at the same branch, units, minimum, fee and slot, for any *)
(* fees and minimums, 0 and none among them.  A refusal has one of two reasons: units  *)
(* that exchanges hold, or the zone of a delivery which the quote, made without an     *)
(* address or for one of no known region, did not look at.                         *)
THEOREM ReserveHonoursQuoteHolds == CheckoutRulesSpec => ReserveHonoursQuote
<1>1. CheckoutRulesInit => RulesInv
  BY RulesStart
<1>2. RulesInv /\ [CheckoutRulesNext]_<<checkoutRules, transactions>> => RulesInv'
  BY RulesStep
<1>3. ASSUME RulesInv, NEW choice \in quoted.choices, quoted.fresh, ReserveBasket(choice), basket'.stage = "refused"
      PROVE  \E x \in choice : \/ x.method = "DELIVERY" /\ ~Located(quoted.addressed) /\ ~Deliverable(x)
                          \/ \E l \in x.lines : rack[x.branch][l].swapped > 0
  <2>1. PICK x \in choice : ~MayReserve(x)
    <3>1. SUFFICES ASSUME \A x \in choice : MayReserve(x) PROVE FALSE
      OBVIOUS
    <3>2. PICK k : k = [stage |-> "reserved", choice |-> choice, lines |-> offer, fee |-> DeliveryFee]
      OBVIOUS
    <3>3. basket' = k
      BY Zenon, <1>3, <3>1, <3>2 DEF ReserveBasket
    <3> QED BY <1>3, <3>2, <3>3
  <2>2. Possible(x, quoted.addressed) /\ RulesTyped
    BY <1>3 DEF RulesInv
  <2> QED BY Zenon, <2>1, <2>2, PossibleIsGranted
<1>4. RulesInv => [\A choice \in quoted.choices :
       quoted.fresh /\ ReserveBasket(choice) /\ basket'.stage = "refused" =>
         \E x \in choice : \/ x.method = "DELIVERY" /\ ~Located(quoted.addressed) /\ ~Deliverable(x)
                           \/ \E l \in x.lines : rack[x.branch][l].swapped > 0]_checkoutRules
  BY Zenon, <1>3
<1> QED BY <1>1, <1>2, <1>4, PTL DEF CheckoutRulesSpec, ReserveHonoursQuote

----------------------------------------------------------------------------
\* Back in stock

UnitsAt(S, s, v) == UNION {{b} \X (1..s[b][v]) : b \in S}

LEMMA UnitsAtMember ==
  ASSUME NEW S, NEW s, NEW v, NEW u
  PROVE  u \in UnitsAt(S, s, v) <=> \E b \in S : \E n \in 1..s[b][v] : u = <<b, n>>
BY DEF UnitsAt

LEMMA UnitsAtAlike ==
  ASSUME NEW S, NEW s, NEW t, NEW v, \A b \in S : s[b][v] = t[b][v]
  PROVE  Cardinality(UnitsAt(S, s, v)) = Cardinality(UnitsAt(S, t, v))
<1>1. ASSUME NEW u PROVE u \in UnitsAt(S, s, v) <=> u \in UnitsAt(S, t, v)
  BY UnitsAtMember
<1>2. UnitsAt(S, s, v) = UnitsAt(S, t, v)
  BY <1>1
<1> QED BY <1>2

LEMMA UnitsAtNone ==
  ASSUME NEW S, IsFiniteSet(S), NEW s, NEW v, \A b \in S : s[b][v] \in Nat
  PROVE  Cardinality(UnitsAt(S, s, v)) = 0 <=> \A b \in S : s[b][v] = 0
<1> DEFINE Of(b) == {b} \X (1..s[b][v])
           T == {Of(b) : b \in S}
<1>1. \A b \in S : IsFiniteSet(Of(b))
  <2> SUFFICES ASSUME NEW b \in S PROVE IsFiniteSet(Of(b))
    OBVIOUS
  <2>1. IsFiniteSet(1..s[b][v])
    <3>1. PICK n \in Nat : n = s[b][v]
      OBVIOUS
    <3>2. n \in Int /\ 1 \in Int
      OBVIOUS
    <3>3. IsFiniteSet(1..n)
      BY <3>2, FS_Interval
    <3> QED BY <3>1, <3>3
  <2>2. IsFiniteSet({b})
    BY FS_Singleton
  <2> QED BY <2>1, <2>2, FS_Product
<1>2. IsFiniteSet(T)
  <2> HIDE DEF Of
  <2>1. PICK f : f = [b \in S |-> Of(b)]
    OBVIOUS
  <2>2. f \in Surjection(S, T)
    BY <2>1 DEF Surjection
  <2> QED BY <2>2, FS_Surjection
<1>3. \A t \in T : IsFiniteSet(t)
  <2> HIDE DEF Of
  <2> QED BY <1>1
<1>4. IsFiniteSet(UNION T)
  <2> HIDE DEF T
  <2> QED BY <1>2, <1>3, FS_UNION
<1>5. Cardinality(UnitsAt(S, s, v)) = 0 <=> UnitsAt(S, s, v) = {}
  BY <1>4, FS_EmptySet DEF UnitsAt
<1>6. UnitsAt(S, s, v) = {} => \A b \in S : s[b][v] = 0
  <2> SUFFICES ASSUME UnitsAt(S, s, v) = {}, NEW b \in S PROVE s[b][v] = 0
    OBVIOUS
  <2>1. PICK u : u = <<b, 1>>
    OBVIOUS
  <2>2. 1 \notin 1..s[b][v]
    <3>1. u \notin UnitsAt(S, s, v)
      OBVIOUS
    <3>2. u \in UnitsAt(S, s, v) <=> \E c \in S : \E n \in 1..s[c][v] : u = <<c, n>>
      BY UnitsAtMember
    <3> QED BY Zenon, <2>1, <3>1, <3>2
  <2> QED BY <2>2
<1>7. (\A b \in S : s[b][v] = 0) => UnitsAt(S, s, v) = {}
  <2> SUFFICES ASSUME \A b \in S : s[b][v] = 0, NEW u \in UnitsAt(S, s, v) PROVE FALSE
    OBVIOUS
  <2>1. PICK b \in S : \E n \in 1..s[b][v] : u = <<b, n>>
    BY UnitsAtMember
  <2> QED BY <2>1
<1> QED BY <1>5, <1>6, <1>7

RestockTyped ==
  /\ open \subseteq Branches /\ stock \in [Branches -> [Variants -> Nat]]
  /\ told \in [Variants -> [Savers -> Nat]]

LEMMA FleetUnits ==
  ASSUME NEW S, NEW v PROVE FleetStock(S, v) = Cardinality(UnitsAt(S, stock, v))
BY Zenon DEF FleetStock, UnitsAt

LEMMA FleetEmpty ==
  ASSUME RestockTyped, NEW S \in SUBSET Branches, NEW v \in Variants
  PROVE  FleetStock(S, v) = 0 <=> \A b \in S : stock[b][v] = 0
<1>1. IsFiniteSet(S) /\ \A b \in S : stock[b][v] \in Nat
  BY UnitAssumption, FS_Subset DEF RestockTyped
<1> QED BY <1>1, FleetUnits, UnitsAtNone

LEMMA FleetSame ==
  ASSUME NEW S, NEW v, \A b \in S : stock'[b][v] = stock[b][v]
  PROVE  FleetStock(S, v)' = FleetStock(S, v)
<1>1. FleetStock(S, v)' = Cardinality(UnitsAt(S, stock', v))
  BY Zenon DEF FleetStock, UnitsAt
<1>2. Cardinality(UnitsAt(S, stock', v)) = Cardinality(UnitsAt(S, stock, v))
  BY UnitsAtAlike
<1> QED BY <1>1, <1>2, FleetUnits

(* What a writer knows: the branches and variants it is about, and, once it has     *)
(* the locks, what the vendor has of each.                                       *)
FitsWriter(q, locks) ==
  /\ q.op \in {"idle", "receives", "writes"}
  /\ q.op # "idle" => q.branch \in Branches /\ q.siblings \subseteq Branches /\ q.back \subseteq Variants /\ q.out \subseteq Variants
  /\ q.op = "writes" =>
       /\ \A b \in q.siblings \union {q.branch} : \A v \in q.back \union q.out : StockRow(b, v) \in locks
       /\ \A v \in q.back : q.before[v] = FleetStock(q.siblings \union {q.branch}, v)

RestockInv == Alone /\ RestockTyped /\ \A r \in Requests : FitsWriter(running[r], held[r])

RestockSteady(L) == \A b \in Branches, v \in Variants : StockRow(b, v) \notin L => stock'[b][v] = stock[b][v]

LEMMA FitsWriterStays ==
  ASSUME NEW L, RestockSteady(L), NEW q, NEW locks, locks \intersect L = {}, FitsWriter(q, locks)
  PROVE  FitsWriter(q, locks)'
<1>1. CASE q.op = "writes"
  <2>1. ASSUME NEW v \in q.back PROVE FleetStock(q.siblings \union {q.branch}, v)' = FleetStock(q.siblings \union {q.branch}, v)
    <3>1. ASSUME NEW b \in q.siblings \union {q.branch} PROVE stock'[b][v] = stock[b][v]
      <4>1. b \in Branches /\ v \in Variants /\ StockRow(b, v) \in locks
        BY <1>1 DEF FitsWriter
      <4> QED BY <4>1 DEF RestockSteady
    <3> QED BY <3>1, FleetSame
  <2> QED BY <1>1, <2>1 DEF FitsWriter, StockRow
<1>2. CASE q.op # "writes"
  BY <1>2 DEF FitsWriter
<1> QED BY <1>1, <1>2

LEMMA RestockGoesOn ==
  ASSUME RestockInv, NEW r \in Requests, NEW q, NEW locks, Runs(r, q, locks), FreeFor(r, locks), UNCHANGED restock,
         FitsWriter(q, locks)
  PROVE  RestockInv'
<1>1. /\ Alone' /\ running'[r] = q /\ held'[r] = locks
      /\ \A s \in Requests \ {r} : running'[s] = running[s] /\ held'[s] = held[s]
  BY RunsAlone DEF RestockInv
<1>2. UNCHANGED <<open, stock, told>> /\ RestockSteady({})
  BY DEF restock, RestockSteady
<1>3. RestockTyped'
  BY <1>2 DEF RestockInv, RestockTyped
<1>4. ASSUME NEW s \in Requests PROVE FitsWriter(running[s], held[s])'
  <2>1. PICK x, l : x = running'[s] /\ l = held'[s]
    OBVIOUS
  <2>2. FitsWriter(x, l) /\ l \intersect {} = {}
    BY <1>1, <2>1 DEF RestockInv
  <2>3. FitsWriter(x, l)'
    BY <1>2, <2>2, FitsWriterStays
  <2> QED BY <2>1, <2>3
<1> QED BY <1>1, <1>3, <1>4 DEF RestockInv

(* A write or a commit: the rows it locks are the only ones it may change.         *)
LEMMA RestockWrites ==
  ASSUME RestockInv, NEW locks, Writes(locks), RestockTyped', RestockSteady(locks) PROVE RestockInv'
<1>1. Alone' /\ UNCHANGED <<running, held>> /\ \A s \in Requests : held[s] \intersect locks = {}
  BY WritesAlone DEF RestockInv
<1>2. ASSUME NEW s \in Requests PROVE FitsWriter(running[s], held[s])'
  <2>1. PICK x, l : x = running[s] /\ l = held[s]
    OBVIOUS
  <2>2. FitsWriter(x, l) /\ l \intersect locks = {}
    BY <1>1, <2>1 DEF RestockInv
  <2>3. FitsWriter(x, l)'
    BY <2>2, FitsWriterStays
  <2> QED BY <1>1, <2>1, <2>3
<1> QED BY <1>1, <1>2 DEF RestockInv

LEMMA IdleFits == FitsWriter(Idle, {})
BY DEF FitsWriter, Idle

LEMMA StartsKeeps ==
  ASSUME RestockInv, NEW r \in Requests, NEW b \in Branches, NEW back \in SUBSET Variants, NEW out \in SUBSET Variants,
         Starts(r, "receives", b, back, out)
  PROVE  RestockInv'
<1>1. PICK q : q = [op |-> "receives", branch |-> b, siblings |-> open \ {b}, back |-> back, out |-> out]
  OBVIOUS
<1>2. Begins(r, q, {}) /\ UNCHANGED restock
  BY Zenon, <1>1 DEF Starts
<1>3. q.op = "receives" /\ q.branch = b /\ q.siblings = open \ {b} /\ q.back = back /\ q.out = out
  BY <1>1
<1>4. open \subseteq Branches
  BY DEF RestockInv, RestockTyped
<1>5. FitsWriter(q, {})
  BY <1>3, <1>4 DEF FitsWriter
<1>6. Runs(r, q, {}) /\ FreeFor(r, {})
  BY <1>2 DEF Begins, FreeFor
<1> QED BY <1>2, <1>5, <1>6, RestockGoesOn

LEMMA OfferWideHas ==
  ASSUME NEW b, NEW siblings, NEW vs, NEW x \in siblings \union {b}, NEW v \in vs
  PROVE  StockRow(x, v) \in OfferWide(b, siblings, vs)
BY DEF OfferWide

LEMMA LocksAndReadsKeeps ==
  ASSUME RestockInv, NEW r \in Requests, LocksAndReads(r) PROVE RestockInv'
<1>1. PICK q : q = running[r]
  OBVIOUS
<1>2. PICK before : before = [v \in q.back |-> FleetStock(q.siblings \union {q.branch}, v)]
  OBVIOUS
<1>3. PICK b, siblings, back, out : b = q.branch /\ siblings = q.siblings /\ back = q.back /\ out = q.out
  OBVIOUS
<1>4. PICK w : w = [op |-> "writes", branch |-> b, siblings |-> siblings, back |-> back, out |-> out, before |-> before]
  OBVIOUS
<1>5. PICK L : L = OfferWide(b, siblings, back \union out)
  OBVIOUS
<1>6. q.op = "receives" /\ FreeFor(r, L) /\ Runs(r, w, L) /\ UNCHANGED restock
  BY Zenon, <1>1, <1>2, <1>3, <1>4, <1>5 DEF LocksAndReads, Proceeds
<1>7. b \in Branches /\ siblings \subseteq Branches /\ back \subseteq Variants /\ out \subseteq Variants
  BY <1>1, <1>3, <1>6 DEF RestockInv, FitsWriter
<1>8. w.op = "writes" /\ w.branch = b /\ w.siblings = siblings /\ w.back = back /\ w.out = out /\ w.before = before
  BY <1>4
<1>9. \A x \in siblings \union {b} : \A v \in back \union out : StockRow(x, v) \in L
  BY Zenon, <1>5, OfferWideHas
<1>10. \A v \in back : before[v] = FleetStock(siblings \union {b}, v)
  BY Zenon, <1>2, <1>3
<1>11. FitsWriter(w, L)
  BY <1>7, <1>8, <1>9, <1>10 DEF FitsWriter
<1> QED BY <1>6, <1>11, RestockGoesOn

(* What a commit does to the stock of its branch and to the notices.               *)
LEMMA DeltaIsSmall ==
  ASSUME NEW q, NEW v
  PROVE  /\ Delta(q, v) \in {-1, 0, 1} /\ (Delta(q, v) > 0 <=> v \in q.back /\ v \notin q.out)
         /\ (v \notin q.back \union q.out => Delta(q, v) = 0)
<1>1. CASE v \in q.back /\ v \in q.out
  BY <1>1 DEF Delta
<1>2. CASE v \in q.back /\ v \notin q.out
  BY <1>2 DEF Delta
<1>3. CASE v \notin q.back /\ v \in q.out
  BY <1>3 DEF Delta
<1>4. CASE v \notin q.back /\ v \notin q.out
  BY <1>4 DEF Delta
<1> QED BY <1>1, <1>2, <1>3, <1>4

LEMMA ReceivedChanges ==
  ASSUME RestockInv, NEW r \in Requests, Received(r), NEW q, q = running[r]
  PROVE  /\ q.op = "writes" /\ Runs(r, Idle, {}) /\ q.branch \in Branches /\ UNCHANGED <<open, saved, muted>>
         /\ stock' \in [Branches -> [Variants -> Nat]]
         /\ \A v \in Variants : stock'[q.branch][v] = stock[q.branch][v] + Delta(q, v)
         /\ \A b \in Branches \ {q.branch} : stock'[b] = stock[b]
<1>1. PICK after : after = [v \in Variants |-> stock[q.branch][v] + Delta(q, v)]
  OBVIOUS
<1>2. /\ Commits(r, "writes") /\ (\A v \in Variants : after[v] \in 0..MaxStock) /\ stock' = [stock EXCEPT ![q.branch] = after]
      /\ UNCHANGED <<open, saved, muted>>
  BY Zenon, <1>1 DEF Received
<1>4. q.op = "writes" /\ Runs(r, Idle, {}) /\ q.branch \in Branches
  BY <1>2 DEF Commits, RestockInv, FitsWriter
<1>5. after \in [Variants -> Nat]
  <2>1. \A v \in Variants : after[v] \in Nat
    BY <1>2, UnitAssumption
  <2> QED BY Zenon, <1>1, <2>1
<1>6. stock \in [Branches -> [Variants -> Nat]]
  BY DEF RestockInv, RestockTyped
<1>7. stock' \in [Branches -> [Variants -> Nat]] /\ stock'[q.branch] = after /\ \A b \in Branches \ {q.branch} : stock'[b] = stock[b]
  BY <1>2, <1>4, <1>5, <1>6
<1>8. \A v \in Variants : after[v] = stock[q.branch][v] + Delta(q, v)
  BY Zenon, <1>1
<1> QED BY Zenon, <1>2, <1>4, <1>7, <1>8

LEMMA NoticesShaped ==
  ASSUME NEW r \in Requests, Received(r) PROVE told' = [v \in Variants |-> [c \in Savers |-> told'[v][c]]]
<1>1. told' = [v \in Variants |-> [c \in Savers |->
                told[v][c] + (IF v \in {w \in running[r].back : running[r].before[w] = 0 /\ Delta(running[r], w) > 0}
                                 /\ c \in Recipients(v) THEN 1 ELSE 0)]]
  BY Zenon DEF Received
<1> QED BY <1>1

LEMMA ReceivedTells ==
  ASSUME NEW r \in Requests, Received(r), NEW v \in Variants, NEW c \in Savers, NEW alerted \in BOOLEAN,
         alerted <=> v \in running[r].back /\ running[r].before[v] = 0 /\ Delta(running[r], v) > 0 /\ c \in Recipients(v)
  PROVE  told'[v][c] = told[v][c] + (IF alerted THEN 1 ELSE 0)
<1>1. told' = [u \in Variants |-> [d \in Savers |->
                told[u][d] + (IF u \in {w \in running[r].back : running[r].before[w] = 0 /\ Delta(running[r], w) > 0}
                                 /\ d \in Recipients(u) THEN 1 ELSE 0)]]
  BY Zenon DEF Received
<1>2. told'[v][c] = told[v][c] + (IF v \in {w \in running[r].back : running[r].before[w] = 0 /\ Delta(running[r], w) > 0}
                                    /\ c \in Recipients(v) THEN 1 ELSE 0)
  BY <1>1
<1>3. alerted <=> v \in {w \in running[r].back : running[r].before[w] = 0 /\ Delta(running[r], w) > 0} /\ c \in Recipients(v)
  OBVIOUS
<1> QED BY Zenon, <1>2, <1>3

LEMMA ReceivedTyped ==
  ASSUME RestockInv, NEW r \in Requests, Received(r) PROVE RestockTyped'
<1>1. told \in [Variants -> [Savers -> Nat]] /\ open \subseteq Branches
  BY DEF RestockInv, RestockTyped
<1>2. stock' \in [Branches -> [Variants -> Nat]] /\ UNCHANGED <<open, saved, muted>>
  BY Zenon, ReceivedChanges
<1>3. ASSUME NEW v \in Variants, NEW c \in Savers PROVE told'[v][c] \in Nat
  <2>1. PICK alerted \in BOOLEAN : alerted <=> v \in running[r].back /\ running[r].before[v] = 0 /\ Delta(running[r], v) > 0 /\ c \in Recipients(v)
    OBVIOUS
  <2>2. told'[v][c] = told[v][c] + (IF alerted THEN 1 ELSE 0)
    BY Zenon, <2>1, ReceivedTells
  <2>3. told[v][c] \in Nat
    BY <1>1
  <2> QED BY <2>2, <2>3
<1>4. told' \in [Variants -> [Savers -> Nat]]
  BY Zenon, <1>3, NoticesShaped
<1> QED BY <1>1, <1>2, <1>4 DEF RestockTyped

LEMMA ReceivedKeeps ==
  ASSUME RestockInv, NEW r \in Requests, Received(r) PROVE RestockInv'
<1>1. PICK q : q = running[r]
  OBVIOUS
<1>2. /\ q.op = "writes" /\ Runs(r, Idle, {}) /\ q.branch \in Branches
      /\ \A v \in Variants : stock'[q.branch][v] = stock[q.branch][v] + Delta(q, v)
      /\ \A b \in Branches \ {q.branch} : stock'[b] = stock[b]
  BY Zenon, <1>1, ReceivedChanges
<1>3. RestockSteady(held[r])
  <2> SUFFICES ASSUME NEW b \in Branches, NEW v \in Variants, StockRow(b, v) \notin held[r] PROVE stock'[b][v] = stock[b][v]
    BY DEF RestockSteady
  <2>1. CASE b = q.branch
    <3>1. v \notin q.back \union q.out
      BY <1>1, <1>2, <2>1 DEF RestockInv, FitsWriter
    <3>2. Delta(q, v) = 0
      BY <3>1, DeltaIsSmall
    <3>3. stock[b][v] \in Nat /\ stock'[b][v] = stock[b][v] + Delta(q, v)
      BY <1>2, <2>1 DEF RestockInv, RestockTyped
    <3> QED BY <3>2, <3>3
  <2>2. CASE b # q.branch
    BY <1>2, <2>2
  <2> QED BY <2>1, <2>2
<1>4. /\ Alone' /\ running'[r] = Idle /\ held'[r] = {}
      /\ \A s \in Requests \ {r} : running'[s] = running[s] /\ held'[s] = held[s] /\ held[s] \intersect held[r] = {}
  BY <1>2, EndsAlone DEF RestockInv
<1>5. ASSUME NEW s \in Requests PROVE FitsWriter(running[s], held[s])'
  <2>1. CASE s = r
    BY <1>4, <2>1 DEF FitsWriter, Idle
  <2>2. CASE s # r
    <3>1. PICK x, l : x = running[s] /\ l = held[s]
      OBVIOUS
    <3>2. FitsWriter(x, l) /\ l \intersect held[r] = {}
      BY <1>4, <2>2, <3>1 DEF RestockInv
    <3>3. FitsWriter(x, l)'
      BY <1>3, <3>2, FitsWriterStays
    <3> QED BY <1>4, <2>2, <3>1, <3>3
  <2> QED BY <2>1, <2>2
<1>6. RestockTyped'
  BY ReceivedTyped
<1> QED BY <1>4, <1>5, <1>6 DEF RestockInv

LEMMA RestockAside ==
  ASSUME RestockInv, NEW b \in Branches, NEW v \in Variants, Sells(b, v) PROVE RestockInv'
<1>1. /\ Writes({StockRow(b, v)}) /\ stock[b][v] > 0 /\ stock' = [stock EXCEPT ![b][v] = @ - 1] /\ UNCHANGED <<open, told>>
  BY DEF Sells
<1>2. stock \in [Branches -> [Variants -> Nat]] /\ stock[b][v] \in Nat
  BY DEF RestockInv, RestockTyped
<1>3. PICK n : n = stock[b][v] - 1 /\ n \in Nat
  BY <1>1, <1>2
<1>4. PICK counts : counts = [stock[b] EXCEPT ![v] = n]
  OBVIOUS
<1>5. counts \in [Variants -> Nat] /\ \A w \in Variants \ {v} : counts[w] = stock[b][w]
  BY <1>2, <1>3, <1>4
<1>6. stock' = [stock EXCEPT ![b] = counts]
  BY Zenon, <1>1, <1>3, <1>4
<1>7. stock' \in [Branches -> [Variants -> Nat]] /\ stock'[b] = counts /\ \A c \in Branches \ {b} : stock'[c] = stock[c]
  BY <1>2, <1>5, <1>6
<1>8. RestockTyped'
  BY <1>1, <1>7 DEF RestockInv, RestockTyped
<1>9. RestockSteady({StockRow(b, v)})
  BY <1>5, <1>7 DEF RestockSteady
<1> QED BY <1>1, <1>8, <1>9, RestockWrites

LEMMA RestockInvHolds == RestockSpec => []RestockInv
<1>1. ASSUME RestockInit, NothingRuns PROVE RestockInv
  <2>1. RestockTyped
    BY <1>1 DEF RestockInit, RestockTyped
  <2> QED BY <1>1, <2>1, NothingRunsAlone DEF RestockInv, FitsWriter, Idle
<1>2. ASSUME RestockInv, RestockNext PROVE RestockInv'
  <2>1. ASSUME NEW r \in Requests, LocksAndReads(r) PROVE RestockInv'
    BY <1>2, <2>1, LocksAndReadsKeeps
  <2>2. ASSUME NEW r \in Requests, Received(r) PROVE RestockInv'
    BY <1>2, <2>2, ReceivedKeeps
  <2>3. ASSUME NEW r \in Requests, Abandons(r), UNCHANGED restock PROVE RestockInv'
    <3>1. FreeFor(r, {})
      BY DEF FreeFor
    <3> QED BY <1>2, <2>3, <3>1, IdleFits, RestockGoesOn DEF Abandons
  <2>4. ASSUME NEW r \in Requests, NEW b \in Branches, NEW v \in Variants, StockMovement(r, b, v) \/ RedeemReturn(r, b, v) PROVE RestockInv'
    <3>1. Starts(r, "receives", b, {v}, {})
      BY Zenon, <2>4 DEF StockMovement, RedeemReturn
    <3>2. {v} \in SUBSET Variants /\ {} \in SUBSET Variants
      OBVIOUS
    <3> QED BY Zenon, <1>2, <3>1, <3>2, StartsKeeps
  <2>5. ASSUME NEW r \in Requests, NEW b \in Branches, NEW v \in Variants, NEW w \in Variants, FulfillExchange(r, b, v, w) PROVE RestockInv'
    <3>1. Starts(r, "receives", b, {v}, {w})
      BY Zenon, <2>5 DEF FulfillExchange
    <3>2. {v} \in SUBSET Variants /\ {w} \in SUBSET Variants
      OBVIOUS
    <3> QED BY Zenon, <1>2, <3>1, <3>2, StartsKeeps
  <2>6. ASSUME NEW r \in Requests, NEW b \in Branches, NEW vs \in SUBSET Variants, CancelItem(r, b, vs) PROVE RestockInv'
    <3>1. Starts(r, "receives", b, vs, {})
      BY Zenon, <2>6 DEF CancelItem
    <3>2. {} \in SUBSET Variants
      OBVIOUS
    <3> QED BY Zenon, <1>2, <3>1, <3>2, StartsKeeps
  <2>7. ASSUME NEW b \in Branches, NEW v \in Variants, Sells(b, v) PROVE RestockInv'
    BY <1>2, <2>7, RestockAside
  <2>8. ASSUME Writes({}), open' \subseteq Branches, UNCHANGED <<stock, told>> PROVE RestockInv'
    <3>1. RestockTyped' /\ RestockSteady({})
      BY <1>2, <2>8 DEF RestockInv, RestockTyped, RestockSteady
    <3> QED BY <1>2, <2>8, <3>1, RestockWrites
  <2>9. ASSUME NEW b \in Branches, BranchChanges(b) PROVE RestockInv'
    BY <1>2, <2>8, <2>9 DEF BranchChanges, RestockInv, RestockTyped
  <2>10. ASSUME NEW c \in Savers, NEW v \in Variants, SavesVariant(c, v) PROVE RestockInv'
    BY <1>2, <2>8, <2>10 DEF SavesVariant, RestockInv, RestockTyped
  <2>11. ASSUME NEW c \in Savers, SetPreference(c) PROVE RestockInv'
    BY <1>2, <2>8, <2>11 DEF SetPreference, RestockInv, RestockTyped
  <2> QED BY Zenon, <1>2, <2>1, <2>2, <2>3, <2>4, <2>5, <2>6, <2>7, <2>9, <2>10, <2>11 DEF RestockNext
<1>3. ASSUME RestockInv, UNCHANGED <<restock, transactions>> PROVE RestockInv'
  <2>1. UNCHANGED <<open, stock, told, running, held>>
    BY <1>3 DEF restock, transactions
  <2>2. RestockSteady({}) /\ RestockTyped' /\ Alone'
    BY <1>3, <2>1 DEF RestockInv, RestockTyped, RestockSteady, Alone
  <2>3. ASSUME NEW s \in Requests PROVE FitsWriter(running[s], held[s])'
    <3>1. PICK x, l : x = running[s] /\ l = held[s]
      OBVIOUS
    <3>2. FitsWriter(x, l) /\ l \intersect {} = {}
      BY <1>3, <3>1 DEF RestockInv
    <3>3. FitsWriter(x, l)'
      BY <2>2, <3>2, FitsWriterStays
    <3> QED BY <2>1, <3>1, <3>3
  <2> QED BY <2>2, <2>3 DEF RestockInv
<1> QED BY <1>1, <1>2, <1>3, PTL DEF RestockSpec

(* Who commits while the branches are those it listed alerts exactly the customers   *)
(* who saved a variant the vendor had run out of everywhere, and has again: it still  *)
(* holds every row it summed (lockOffersWideForRestock()).                        *)
THEOREM AlertedOncePerRestockHolds == RestockSpec => AlertedOncePerRestock
<1>1. ASSUME RestockInv, NEW r \in Requests, Received(r), NEW q, q = running[r], q.siblings = open \ {q.branch},
             NEW v \in Variants, NEW c \in Savers
      PROVE  (told'[v][c] > told[v][c])
               <=> (FleetStock(open \union {q.branch}, v) = 0 /\ stock'[q.branch][v] > 0 /\ c \in saved[v] \ muted)
  <2>1. PICK fleet : fleet = open \union {q.branch}
    OBVIOUS
  <2>2. fleet = q.siblings \union {q.branch}
    BY <1>1, <2>1
  <2>3. /\ q.op = "writes" /\ q.branch \in Branches
        /\ stock'[q.branch][v] = stock[q.branch][v] + Delta(q, v)
    BY Zenon, <1>1, ReceivedChanges
  <2>4. RestockTyped /\ fleet \in SUBSET Branches
    BY <1>1, <2>1, <2>3 DEF RestockInv, RestockTyped
  <2>5. stock[q.branch][v] \in Nat /\ told[v][c] \in Nat
    BY <2>3, <2>4 DEF RestockTyped
  <2>6. v \in q.back => q.before[v] = FleetStock(fleet, v)
    BY <1>1, <2>2, <2>3 DEF RestockInv, FitsWriter
  <2>7. FleetStock(fleet, v) = 0 => stock[q.branch][v] = 0
    BY <2>1, <2>4, FleetEmpty
  <2>8. /\ Delta(q, v) \in {-1, 0, 1} /\ (Delta(q, v) > 0 <=> v \in q.back /\ v \notin q.out)
    BY DeltaIsSmall
  <2>9. PICK alerted \in BOOLEAN : alerted <=> v \in q.back /\ q.before[v] = 0 /\ Delta(q, v) > 0 /\ c \in Recipients(v)
    OBVIOUS
  <2>10. told'[v][c] = told[v][c] + (IF alerted THEN 1 ELSE 0)
    BY Zenon, <1>1, <2>9, ReceivedTells
  <2>11. alerted <=> v \in q.back /\ q.before[v] = 0 /\ Delta(q, v) > 0 /\ c \in saved[v] \ muted
    BY Zenon, <2>9 DEF Recipients
  <2>12. (told'[v][c] > told[v][c]) <=> alerted
    BY <2>5, <2>10
  <2>13. stock'[q.branch][v] = stock[q.branch][v] + Delta(q, v)
    BY Zenon, <2>3
  <2>14. alerted <=> (FleetStock(fleet, v) = 0 /\ stock'[q.branch][v] > 0 /\ c \in saved[v] \ muted)
    BY <2>5, <2>6, <2>7, <2>8, <2>11, <2>13
  <2> QED BY Zenon, <2>1, <2>12, <2>14
<1>2. RestockInv => [\A r \in Requests :
       LET q == running[r]
           fleet == open \union {q.branch}
       IN Received(r) /\ q.siblings = open \ {q.branch} =>
            \A v \in Variants, c \in Savers :
              (told'[v][c] > told[v][c]) <=> (FleetStock(fleet, v) = 0 /\ stock'[q.branch][v] > 0 /\ c \in saved[v] \ muted)]_restock
  BY Zenon, <1>1
<1> QED BY <1>2, RestockInvHolds, PTL DEF AlertedOncePerRestock

----------------------------------------------------------------------------
\* Listings

PriceRow == [base : Nat, sale : Nat, discounted : Nat, window : {"ahead", "open", "over"}]

StorefrontTyped ==
  /\ price \in [OfferVariants -> PriceRow] /\ follows \subseteq Shops
  /\ units \in [OfferVariants -> [Rows -> Nat]] /\ onHold \in [OfferVariants -> [Rows -> Nat]]

LEMMA PriceIsNatural ==
  ASSUME StorefrontTyped, NEW v \in OfferVariants
  PROVE  EffectivePrice(v) \in Nat /\ VendorOf(v) \in Nat /\ VendorOf(v) \in Shops /\ v \in Nat
<1>1. price[v] \in PriceRow
  BY DEF StorefrontTyped
<1>2. EffectivePrice(v) \in Nat
  BY <1>1 DEF EffectivePrice, PriceRow
<1>3. VendorOf(v) \in Shops /\ Shops \subseteq Nat /\ v \in Nat
  BY StorefrontAssumption DEF VendorOf
<1> QED BY <1>2, <1>3

(* SQL asks whether the effective price is below the base price, the code whether    *)
(* the discount that applies is.                                                 *)
LEMMA DiscountedAlike ==
  ASSUME StorefrontTyped, NEW v \in OfferVariants
  PROVE  EffectivelyDiscounted(v) <=> EffectivePrice(v) < price[v].base
<1>1. price[v] \in PriceRow
  BY DEF StorefrontTyped
<1> QED BY <1>1 DEF EffectivelyDiscounted, EffectivePrice, PriceRow

LEMMA FreeUnitsFinite ==
  ASSUME StorefrontTyped, NEW v \in OfferVariants PROVE IsFiniteSet(FreeUnits(v)) /\ Available(v) \in Nat
<1> DEFINE Of(b) == {<<v, b>>} \X (1..(units[v][b] - onHold[v][b]))
           T == {Of(b) : b \in Rows}
<1>1. \A b \in Rows : IsFiniteSet(Of(b))
  <2> SUFFICES ASSUME NEW b \in Rows PROVE IsFiniteSet(Of(b))
    OBVIOUS
  <2>1. PICK n \in Int : n = units[v][b] - onHold[v][b]
    <3>1. units[v][b] \in Nat /\ onHold[v][b] \in Nat
      BY DEF StorefrontTyped
    <3> QED BY <3>1
  <2>2. IsFiniteSet(1..n)
    BY FS_Interval
  <2>3. PICK k : k = <<v, b>>
    OBVIOUS
  <2>4. IsFiniteSet({k})
    BY FS_Singleton
  <2>5. IsFiniteSet({k} \X (1..n))
    BY <2>2, <2>4, FS_Product
  <2> QED BY <2>1, <2>3, <2>5
<1>2. IsFiniteSet(T)
  <2> HIDE DEF Of
  <2>1. PICK f : f = [b \in Rows |-> Of(b)]
    OBVIOUS
  <2>2. f \in Surjection(Rows, T)
    BY <2>1 DEF Surjection
  <2>3. IsFiniteSet(Rows)
    <3>1. Rows = 1..2
      BY DEF Rows
    <3>2. PICK n \in Int : n = 2
      OBVIOUS
    <3>3. IsFiniteSet(1..n)
      BY FS_Interval
    <3> QED BY <3>1, <3>2, <3>3
  <2> QED BY <2>2, <2>3, FS_Surjection
<1>3. \A t \in T : IsFiniteSet(t)
  <2> HIDE DEF Of
  <2> QED BY <1>1
<1>4. IsFiniteSet(UNION T)
  <2> HIDE DEF T
  <2> QED BY <1>2, <1>3, FS_UNION
<1> QED BY <1>4, FS_CardinalityType DEF FreeUnits, Available

LEMMA SoldOut ==
  ASSUME StorefrontTyped, NEW v \in OfferVariants
  PROVE  /\ Availability(v) = "sold_out" <=> ~(Available(v) > 0)
         /\ Availability(v) = "sold_out" <=> FreeUnits(v) = {}
<1>1. IsFiniteSet(FreeUnits(v)) /\ Available(v) \in Nat
  BY FreeUnitsFinite
<1>2. Available(v) = 0 <=> FreeUnits(v) = {}
  BY <1>1, FS_EmptySet DEF Available
<1>3. Availability(v) = "sold_out" <=> Available(v) <= 0
  BY DEF Availability, Bucket
<1> QED BY <1>1, <1>2, <1>3

(* An offer is sold out on its store's page only when every variant of it is.      *)
LEMMA SummarySoldOut ==
  ASSUME StorefrontTyped, NEW o, OfferSummary(o).availability = "sold_out", NEW v \in VariantsIn(o)
  PROVE  Availability(v) = "sold_out"
<1>1. PICK V : V = VariantsIn(o)
  OBVIOUS
<1>2. V \subseteq OfferVariants /\ IsFiniteSet(V) /\ v \in V
  BY <1>1, StorefrontAssumption, FS_Subset DEF VariantsIn
<1> DEFINE T == {FreeUnits(w) : w \in V}
<1>3. IsFiniteSet(T)
  <2>1. PICK f : f = [w \in V |-> FreeUnits(w)]
    OBVIOUS
  <2>2. f \in Surjection(V, T)
    BY <2>1 DEF Surjection
  <2> QED BY <1>2, <2>2, FS_Surjection
<1>4. \A t \in T : IsFiniteSet(t)
  BY <1>2, FreeUnitsFinite
<1>5. FreeUnits(v) \subseteq UNION T
  BY <1>2
<1>6. OfferSummary(o).availability = Bucket(Cardinality(UNION T))
  BY <1>1 DEF OfferSummary
<1> HIDE DEF T
<1>7. IsFiniteSet(UNION T) /\ Cardinality(UNION T) \in Nat
  BY <1>3, <1>4, FS_UNION, FS_CardinalityType
<1>8. Cardinality(UNION T) <= 0
  BY <1>6 DEF Bucket
<1>9. UNION T = {}
  BY <1>7, <1>8, FS_EmptySet
<1>10. FreeUnits(v) = {}
  BY <1>5, <1>9
<1> QED BY <1>2, <1>10, SoldOut

(* Prices, then stores, then identifiers: a total order on the variants.           *)
LEMMA CheaperIsTotal ==
  ASSUME StorefrontTyped, NEW u \in OfferVariants, NEW v \in OfferVariants, NEW w \in OfferVariants
  PROVE  /\ ~(Cheaper(u, v) /\ Cheaper(v, u)) /\ (Cheaper(u, v) /\ Cheaper(v, w) => Cheaper(u, w))
         /\ (u # v => Cheaper(u, v) \/ Cheaper(v, u)) /\ (Cheaper(u, v) => EffectivePrice(u) <= EffectivePrice(v))
<1>1. \A x \in OfferVariants : EffectivePrice(x) \in Nat /\ VendorOf(x) \in Nat /\ x \in Nat
  BY PriceIsNatural
<1> QED BY <1>1 DEF Cheaper

LEMMA CheapestIs ==
  ASSUME StorefrontTyped, NEW V \in SUBSET OfferVariants, V # {}
  PROVE  Cheapest(V) \in V /\ \A w \in V \ {Cheapest(V)} : Cheaper(Cheapest(V), w)
<1>1. \A x \in V : EffectivePrice(x) \in Nat /\ VendorOf(x) \in Nat /\ x \in Nat
  BY PriceIsNatural
<1>2. PICK p \in {EffectivePrice(x) : x \in V} : \A q \in {EffectivePrice(x) : x \in V} : p <= q
  <2>1. {EffectivePrice(x) : x \in V} \in SUBSET Nat /\ {EffectivePrice(x) : x \in V} # {}
    BY <1>1
  <2> QED BY <2>1, LeastElement
<1>3. PICK A : A = {x \in V : EffectivePrice(x) = p}
  OBVIOUS
<1>4. PICK s \in {VendorOf(x) : x \in A} : \A t \in {VendorOf(x) : x \in A} : s <= t
  <2>1. {VendorOf(x) : x \in A} \in SUBSET Nat /\ {VendorOf(x) : x \in A} # {}
    BY <1>1, <1>2, <1>3
  <2> QED BY <2>1, LeastElement
<1>5. PICK B : B = {x \in A : VendorOf(x) = s}
  OBVIOUS
<1>6. PICK a \in B : \A b \in B : a <= b
  <2>1. B \in SUBSET Nat /\ B # {}
    BY <1>1, <1>3, <1>4, <1>5
  <2> QED BY <2>1, LeastElement
<1>7. ASSUME NEW w \in V \ {a} PROVE Cheaper(a, w)
  <2>1. a \in V /\ EffectivePrice(a) = p /\ VendorOf(a) = s
    BY <1>3, <1>5, <1>6
  <2>2. p <= EffectivePrice(w)
    BY <1>2
  <2>3. EffectivePrice(w) = p => s <= VendorOf(w)
    BY <1>3, <1>4
  <2>4. EffectivePrice(w) = p /\ VendorOf(w) = s => a <= w
    BY <1>3, <1>5, <1>6
  <2>5. EffectivePrice(a) \in Nat /\ VendorOf(a) \in Nat /\ a \in Nat /\ EffectivePrice(w) \in Nat /\ VendorOf(w) \in Nat /\ w \in Nat /\ w # a
    BY <1>1, <2>1
  <2> QED BY <2>1, <2>2, <2>3, <2>4, <2>5 DEF Cheaper
<1>8. a \in V
  BY <1>3, <1>5, <1>6
<1> QED BY <1>7, <1>8 DEF Cheapest

LEMMA CheapestCostsLeast ==
  ASSUME StorefrontTyped, NEW V \in SUBSET OfferVariants, V # {}, NEW w \in V
  PROVE  EffectivePrice(Cheapest(V)) <= EffectivePrice(w)
<1>1. PICK a : a = Cheapest(V)
  OBVIOUS
<1>2. a \in V /\ (w # a => Cheaper(a, w))
  BY <1>1, CheapestIs
<1>3. EffectivePrice(a) \in Nat
  BY <1>2, PriceIsNatural
<1>4. w # a => EffectivePrice(a) <= EffectivePrice(w)
  BY <1>2, CheaperIsTotal
<1>5. EffectivePrice(a) <= EffectivePrice(a)
  BY <1>3
<1> QED BY <1>1, <1>4, <1>5

LEMMA CheapestPrice ==
  ASSUME StorefrontTyped, NEW V \in SUBSET OfferVariants, V # {}
  PROVE  EffectivePrice(Cheapest(V)) = Min({EffectivePrice(v) : v \in V})
<1>1. PICK P : P = {EffectivePrice(v) : v \in V}
  OBVIOUS
<1>2. P \in SUBSET Nat /\ P # {}
  BY <1>1, PriceIsNatural
<1>3. PICK m : m = Min(P) /\ m \in P /\ \A x \in P : m <= x
  BY <1>2, SmallestIsOneOfThem
<1>4. PICK e : e = EffectivePrice(Cheapest(V))
  OBVIOUS
<1>5. e \in P
  BY <1>1, <1>4, CheapestIs
<1>6. e <= m
  BY <1>1, <1>3, <1>4, CheapestCostsLeast
<1>7. e \in Nat /\ m \in Nat /\ m <= e
  BY <1>2, <1>3, <1>5
<1>8. e = m
  BY <1>6, <1>7
<1> QED BY <1>1, <1>3, <1>4, <1>8

(* One variant for each store: as many as stores.                              *)
LEMMA StoresCounted ==
  ASSUME StorefrontTyped, NEW V \in SUBSET OfferVariants
  PROVE  Cardinality(CheapestPerVendor(V)) = Cardinality({VendorOf(v) : v \in V})
<1>1. PICK R, T, f : R = CheapestPerVendor(V) /\ T = {VendorOf(v) : v \in V} /\ f = [v \in R |-> VendorOf(v)]
  OBVIOUS
<1>2. R \subseteq V /\ IsFiniteSet(R)
  BY <1>1, StorefrontAssumption, FS_Subset DEF CheapestPerVendor
<1>3. ASSUME NEW v \in R, NEW w \in R, VendorOf(v) = VendorOf(w) PROVE v = w
  <2> SUFFICES ASSUME v # w PROVE FALSE
    OBVIOUS
  <2>1. Cheaper(v, w) /\ Cheaper(w, v)
    BY <1>1, <1>3 DEF CheapestPerVendor
  <2>2. v \in OfferVariants /\ w \in OfferVariants
    BY <1>2
  <2> QED BY <2>1, <2>2, CheaperIsTotal
<1>4. ASSUME NEW t \in T PROVE \E v \in R : VendorOf(v) = t
  <2>1. PICK W : W = {v \in V : VendorOf(v) = t}
    OBVIOUS
  <2>2. W \in SUBSET OfferVariants /\ W # {} /\ W \subseteq V
    BY <1>1, <1>4, <2>1
  <2>3. PICK a : a \in W /\ \A w \in W \ {a} : Cheaper(a, w)
    BY <2>2, CheapestIs
  <2>4. a \in R
    BY <1>1, <2>1, <2>2, <2>3 DEF CheapestPerVendor
  <2> QED BY <2>1, <2>3, <2>4
<1>5. f \in Bijection(R, T)
  <2>1. f \in [R -> T]
    BY <1>1, <1>2
  <2> QED BY <1>1, <1>3, <1>4, <2>1 DEF Bijection, Injection, Surjection, IsInjective
<1>6. Cardinality(R) = Cardinality(T)
  BY <1>2, <1>5, FS_Bijection DEF ExistsBijection
<1> QED BY <1>1, <1>6

LEMMA EligibleIs ==
  ASSUME NEW p, NEW S PROVE EligibleProduct(p, S) <=> EligibleOffers(p, S) # {}
BY DEF EligibleProduct, EligibleOffers

LEMMA EligibleAnywhere ==
  ASSUME StorefrontTyped, NEW p, NEW S \in SUBSET Shops
  PROVE  /\ EligibleOffers(p, S) \subseteq EligibleOffers(p, Shops) /\ EligibleOffers(p, Shops) = OffersOfProduct(p)
         /\ EligibleOffers(p, S) \in SUBSET OfferVariants
<1>1. \A v \in OfferVariants : VendorOf(v) \in Shops
  BY PriceIsNatural
<1> QED BY <1>1 DEF EligibleOffers, OffersOfProduct, Open

LEMMA CountedAndBrowsed ==
  ASSUME StorefrontTyped, NEW S \in SUBSET Shops PROVE ProductCount(S) = Cardinality(Cards(S)) /\ Browsable(S) = Cards(S)
<1>1. {p \in Products : EligibleProduct(p, S)} = Cards(S)
  BY EligibleIs DEF Cards
<1>2. Browsable(S) = Cards(S)
  BY EligibleIs, EligibleAnywhere DEF Browsable, Cards
<1> QED BY <1>1, <1>2 DEF ProductCount

(* The units in stock, the price and the stores, as the code and as SQL see them.    *)
LEMMA FactsAgree ==
  ASSUME StorefrontTyped, NEW p, EligibleOffers(p, Shops) # {}
  PROVE  /\ Facts(p).sortPrice = Card(p, Shops).lowestPrice /\ Facts(p).storeCount = Card(p, Shops).storeCount
         /\ Facts(p).discountedStoreCount = Card(p, Shops).discountedStoreCount
<1>1. PICK V : V = EligibleOffers(p, Shops)
  OBVIOUS
<1>2. V \in SUBSET OfferVariants /\ V = OffersOfProduct(p) /\ V # {}
  BY <1>1, EligibleAnywhere
<1>3. InStock(V) = {w \in V : Available(w) > 0}
  BY <1>2, SoldOut DEF InStock
<1>4. PICK shown : shown = (IF InStock(V) # {} THEN InStock(V) ELSE V)
  OBVIOUS
<1>5. shown \in SUBSET OfferVariants /\ shown # {}
  BY <1>2, <1>4 DEF InStock
<1>6. SortPrice(V) = Min({EffectivePrice(v) : v \in shown})
  <2>1. CASE InStock(V) # {}
    <3>1. \E w \in V : Available(w) > 0
      BY <1>3, <2>1
    <3> QED BY <1>3, <1>4, <2>1, <3>1 DEF SortPrice
  <2>2. CASE InStock(V) = {}
    <3>1. ~\E w \in V : Available(w) > 0
      BY <1>3, <2>2
    <3> QED BY <1>4, <2>2, <3>1 DEF SortPrice
  <2> QED BY <2>1, <2>2
<1>7. SortPrice(V) = EffectivePrice(Cheapest(shown))
  BY <1>5, <1>6, CheapestPrice
<1>8. {w \in V : Available(w) > 0 /\ EffectivePrice(w) < price[w].base} = {w \in InStock(V) : EffectivelyDiscounted(w)}
  BY <1>2, <1>3, DiscountedAlike
<1>9. /\ Facts(p).sortPrice = SortPrice(V) /\ Facts(p).storeCount = Cardinality({VendorOf(v) : v \in V})
      /\ Facts(p).discountedStoreCount
           = Cardinality({VendorOf(v) : v \in {w \in V : Available(w) > 0 /\ EffectivePrice(w) < price[w].base}})
  BY <1>2 DEF Facts
<1>10. /\ Card(p, Shops).lowestPrice = EffectivePrice(Cheapest(shown))
       /\ Card(p, Shops).storeCount = Cardinality(CheapestPerVendor(V))
       /\ Card(p, Shops).discountedStoreCount = Cardinality({VendorOf(v) : v \in {w \in InStock(V) : EffectivelyDiscounted(w)}})
  BY <1>1, <1>4 DEF Card
<1>11. Cardinality(CheapestPerVendor(V)) = Cardinality({VendorOf(v) : v \in V})
  BY <1>2, StoresCounted
<1> QED BY <1>7, <1>8, <1>9, <1>10, <1>11

(* A logo of a card leads to an offer that the store shows, at that price.         *)
LEMMA LogosLead ==
  ASSUME StorefrontTyped, NEW S \in SUBSET Shops, NEW p, NEW v \in Card(p, S).logos
  PROVE  LET o == OfferOf[v]
             page == Sections(ShopOf[o])
         IN /\ v \in Comparison(p) /\ v \in OfferDetail(o) /\ o \in page.all /\ ShopOf[o] \in S
            /\ (EffectivelyDiscounted(v) => SalePrice(v) = EffectivePrice(v) /\ o \in page.discounts)
            /\ OfferSummary(o).minPrice <= EffectivePrice(v)
            /\ (OfferSummary(o).availability = "sold_out" => Availability(v) = "sold_out")
<1>1. PICK o : o = OfferOf[v]
  OBVIOUS
<1>2. v \in EligibleOffers(p, S)
  BY DEF Card, CheapestPerVendor
<1>3. v \in OfferVariants /\ o \in active /\ ShopOf[o] \in S /\ Open(ShopOf[o])
  BY <1>1, <1>2 DEF EligibleOffers, VendorOf
<1>4. v \in Comparison(p)
  BY <1>2, EligibleAnywhere DEF Comparison
<1>5. v \in VariantsIn(o) /\ v \in OfferDetail(o)
  BY <1>1, <1>3 DEF OfferDetail, VariantsIn
<1>6. PICK all : all = {x \in active : ShopOf[x] = ShopOf[o] /\ Open(ShopOf[o])}
  OBVIOUS
<1>7. Sections(ShopOf[o]).all = all /\ Sections(ShopOf[o]).discounts = {x \in all : \E w \in VariantsIn(x) : EffectivelyDiscounted(w)}
  BY Zenon, <1>6 DEF Sections
<1>8. o \in Sections(ShopOf[o]).all
  BY <1>3, <1>6, <1>7
<1>9. EffectivelyDiscounted(v) => SalePrice(v) = EffectivePrice(v) /\ o \in Sections(ShopOf[o]).discounts
  BY <1>5, <1>7, <1>8 DEF SalePrice
<1>10. OfferSummary(o).minPrice <= EffectivePrice(v)
  <2>1. PICK P : P = {EffectivePrice(w) : w \in VariantsIn(o)}
    OBVIOUS
  <2>2. P \in SUBSET Nat /\ EffectivePrice(v) \in P
    BY <1>5, <2>1, PriceIsNatural DEF VariantsIn
  <2>3. Min(P) <= EffectivePrice(v)
    BY <2>2, SmallestIsOneOfThem
  <2> QED BY <2>1, <2>3 DEF OfferSummary
<1>11. OfferSummary(o).availability = "sold_out" => Availability(v) = "sold_out"
  BY <1>5, SummarySoldOut
<1> QED BY <1>1, <1>3, <1>4, <1>5, <1>8, <1>9, <1>10, <1>11

LEMMA RowsAgree ==
  ASSUME StorefrontTyped, NEW p \in Products
  PROVE  LET row == CrossRow(p)
             element == SetItem(p)
         IN /\ (row.available <=> p \in Cards(Shops)) /\ (element.available <=> row.available)
            /\ row.available =>
                 LET card == Card(p, Shops)
                 IN /\ row.storeCount = card.storeCount /\ element.lowestPrice = row.offer.price
                    /\ IF row.offer.availability = "sold_out" THEN row.offer.price <= card.lowestPrice ELSE row.offer.price = card.lowestPrice
<1>1. PICK V : V = EligibleOffers(p, Shops)
  OBVIOUS
<1>2. V \in SUBSET OfferVariants /\ (p \in Cards(Shops) <=> V # {})
  BY <1>1, EligibleAnywhere DEF Cards
<1>3. PICK row, element : row = CrossRow(p) /\ element = SetItem(p)
  OBVIOUS
<1>4. CASE V = {}
  <2>1. row = [available |-> FALSE] /\ element = [available |-> FALSE]
    BY Zenon, <1>1, <1>3, <1>4 DEF CrossRow, SetItem, Comparison
  <2>2. row.available = FALSE /\ element.available = FALSE
    BY <2>1
  <2> QED BY <1>2, <1>3, <1>4, <2>2
<1>5. CASE V # {}
  <2>1. PICK best : best = Cheapest(V)
    OBVIOUS
  <2>2. PICK count, stall : count = Cardinality({VendorOf(v) : v \in V}) /\ stall = ComparisonRow(best)
    OBVIOUS
  <2>3. row = [available |-> TRUE, storeCount |-> count, offer |-> stall]
    BY Zenon, <1>1, <1>3, <1>5, <2>1, <2>2 DEF CrossRow, Comparison
  <2>4. element = [available |-> TRUE, lowestPrice |-> EffectivePrice(best)]
    BY Zenon, <1>1, <1>3, <1>5, <2>1 DEF SetItem
  <2>5. row.available = TRUE /\ element.available = TRUE /\ row.storeCount = count /\ row.offer = stall /\ element.lowestPrice = EffectivePrice(best)
    BY <2>3, <2>4
  <2>6. stall.price = EffectivePrice(best) /\ stall.availability = Availability(best)
    BY <2>2 DEF ComparisonRow
  <2>7. PICK shown : shown = (IF InStock(V) # {} THEN InStock(V) ELSE V)
    OBVIOUS
  <2>8. Card(p, Shops).lowestPrice = EffectivePrice(Cheapest(shown)) /\ Card(p, Shops).storeCount = Cardinality(CheapestPerVendor(V))
    BY <1>1, <2>7 DEF Card
  <2>9. shown \subseteq V /\ shown # {} /\ best \in V
    BY <1>2, <1>5, <2>1, <2>7, CheapestIs DEF InStock
  <2>10. Cheapest(shown) \in V /\ Cheapest(shown) \in OfferVariants
    BY <1>2, <2>9, CheapestIs
  <2>11. EffectivePrice(best) <= EffectivePrice(Cheapest(shown))
    BY <1>2, <1>5, <2>1, <2>10, CheapestCostsLeast
  <2>12. stall.availability # "sold_out" => EffectivePrice(Cheapest(shown)) <= EffectivePrice(best)
    <3>1. SUFFICES ASSUME stall.availability # "sold_out" PROVE EffectivePrice(Cheapest(shown)) <= EffectivePrice(best)
      OBVIOUS
    <3>2. best \in shown
      BY <2>6, <2>7, <2>9, <3>1 DEF InStock
    <3> QED BY <1>2, <2>9, <3>2, CheapestCostsLeast
  <2>13. EffectivePrice(best) \in Nat /\ EffectivePrice(Cheapest(shown)) \in Nat
    BY <1>2, <2>9, <2>10, PriceIsNatural
  <2>14. stall.availability # "sold_out" => EffectivePrice(best) = EffectivePrice(Cheapest(shown))
    BY <2>11, <2>12, <2>13
  <2>15. count = Cardinality(CheapestPerVendor(V))
    BY <1>2, <2>2, StoresCounted
  <2> QED BY <1>2, <1>3, <1>5, <2>5, <2>6, <2>8, <2>11, <2>14, <2>15
<1> QED BY <1>4, <1>5

LEMMA FeedShows ==
  ASSUME StorefrontTyped
  PROVE  Feed = Cards(FollowedStores) /\ FollowedStores \subseteq ListStores /\ Feed \union FavouriteProducts \subseteq Cards(Shops)
<1>1. PICK S, F : S = {s \in Shops : s \in follows} /\ F = FollowedStores
  OBVIOUS
<1>2. S \subseteq Shops /\ F \subseteq Shops /\ \A s \in Shops : s \in F <=> s \in S /\ Open(s)
  BY <1>1 DEF FollowedStores, Open, StorefrontTyped
<1>3. \A p \in Products : EligibleOffers(p, S) # {} <=> EligibleOffers(p, F) # {}
  BY <1>2 DEF EligibleOffers
<1>4. Feed = Cards(F)
  BY <1>1, <1>3 DEF Feed, Cards
<1>5. F \subseteq ListStores
  BY <1>1 DEF FollowedStores, ListStores, StorefrontTyped
<1>6. Cards(F) \subseteq Cards(Shops)
  BY <1>2, EligibleAnywhere DEF Cards
<1>7. FavouriteProducts \subseteq Cards(Shops)
  BY EligibleIs DEF FavouriteProducts, Cards
<1> QED BY <1>1, <1>4, <1>5, <1>6, <1>7

LEMMA TypedListingsAgree ==
  ASSUME StorefrontTyped PROVE ListingsAgree
<1>1. ASSUME NEW S \in {Shops, follows} PROVE S \in SUBSET Shops
  BY <1>1 DEF StorefrontTyped
<1>2. ASSUME NEW S \in {Shops, follows} PROVE ProductCount(S) = Cardinality(Cards(S)) /\ Browsable(S) = Cards(S)
  BY <1>1, CountedAndBrowsed
<1>3. ASSUME NEW p \in Cards(Shops)
      PROVE  LET card == Card(p, Shops)
                 facts == Facts(p)
             IN /\ facts.sortPrice = card.lowestPrice /\ facts.storeCount = card.storeCount
                /\ facts.discountedStoreCount = card.discountedStoreCount
                /\ p \in Browsed(Shops, "discounts") <=> card.discountedStoreCount > 0
  <2>1. p \in Products /\ EligibleOffers(p, Shops) # {}
    BY DEF Cards
  <2>2. /\ Facts(p).sortPrice = Card(p, Shops).lowestPrice /\ Facts(p).storeCount = Card(p, Shops).storeCount
        /\ Facts(p).discountedStoreCount = Card(p, Shops).discountedStoreCount
    BY <2>1, FactsAgree
  <2>3. p \in Browsable(Shops)
    BY CountedAndBrowsed
  <2>4. p \in Browsed(Shops, "discounts") <=> Facts(p).discountedStoreCount > 0
    BY <2>3 DEF Browsed
  <2> QED BY <2>2, <2>4
<1>4. ASSUME NEW S \in {Shops, follows}, NEW p \in Cards(S), NEW v \in Card(p, S).logos
      PROVE  LET o == OfferOf[v]
                 page == Sections(ShopOf[o])
             IN /\ v \in Comparison(p) /\ v \in OfferDetail(o) /\ o \in page.all /\ ShopOf[o] \in S
                /\ (EffectivelyDiscounted(v) => SalePrice(v) = EffectivePrice(v) /\ o \in page.discounts)
                /\ OfferSummary(o).minPrice <= EffectivePrice(v)
                /\ (OfferSummary(o).availability = "sold_out" => Availability(v) = "sold_out")
  BY <1>1, LogosLead
<1>5. ListAll(TRUE, "none") = ListAll(FALSE, "none")
  <2>1. Browsed(Shops, "none") = Browsable(Shops)
    BY DEF Browsed, Browsable
  <2> QED BY <2>1, CountedAndBrowsed DEF ListAll
<1>6. \A s \in Shops : s \in ListStores <=> StorePage(s).is_available
  BY DEF ListStores, StorePage
<1>7. Feed = Cards(FollowedStores) /\ FollowedStores \subseteq ListStores /\ Feed \union FavouriteProducts \subseteq Cards(Shops)
  BY FeedShows
<1>8. \A v \in FavouriteOffers : v \in Comparison(matched[v])
  <2>1. \A v \in OfferVariants : VendorOf(v) \in Shops
    BY PriceIsNatural
  <2> QED BY <2>1 DEF FavouriteOffers, Comparison, EligibleOffers
<1> QED BY Zenon, <1>2, <1>3, <1>4, RowsAgree, <1>5, <1>6, <1>7, <1>8 DEF ListingsAgree

(* A finite set of naturals has a greatest element.                            *)
LEMMA GreatestElement ==
  ASSUME NEW S \in SUBSET Nat, IsFiniteSet(S), S # {}
  PROVE  \E a \in S : \A b \in S : a >= b
<1> DEFINE Above(a) == {b \in S : b > a}
           T == {Above(a) : a \in S}
<1>1. PICK B \in T : \A D \in T : <<D, B>> \notin StrictSubsetOrdering(S)
  <2>1. T \subseteq SUBSET S /\ T # {}
    OBVIOUS
  <2>2. FiniteSubsetsOf(S) = SUBSET S
    BY FS_FiniteSubsetsOfFinite
  <2> HIDE DEF T
  <2>3. T \subseteq FiniteSubsetsOf(S) /\ T # {}
    BY <2>1, <2>2
  <2> QED BY <2>3, FS_StrictSubsetOrderingWellFounded, WFMin
<1>2. PICK a \in S : B = Above(a)
  OBVIOUS
<1>3. ASSUME NEW b \in S, b > a PROVE FALSE
  <2>1. Above(b) \in T /\ a \in Nat /\ b \in Nat
    OBVIOUS
  <2>2. ASSUME NEW c \in S, c > b PROVE c > a
    <3>1. c \in Nat
      OBVIOUS
    <3> QED BY <1>3, <2>1, <2>2, <3>1
  <2>3. Above(b) \subseteq Above(a) /\ b \in Above(a) /\ b \notin Above(b)
    <3>1. ~(b > b)
      BY <2>1
    <3> QED BY Zenon, <1>3, <2>2, <3>1
  <2> HIDE DEF T
  <2>4. <<Above(b), Above(a)>> \in StrictSubsetOrdering(S)
    BY <2>3 DEF StrictSubsetOrdering
  <2> QED BY <1>1, <1>2, <2>1, <2>4
<1> QED BY <1>3

LEMMA StorefrontStart == ASSUME StorefrontInit PROVE StorefrontTyped
<1>1. PICK m : m = Max(Prices) /\ m \in Nat
  <2>1. Prices \in SUBSET Nat /\ IsFiniteSet(Prices) /\ Prices # {}
    BY StorefrontAssumption
  <2>2. \E a \in Prices : \A b \in Prices : a >= b
    BY <2>1, GreatestElement
  <2>3. Max(Prices) \in Prices
    BY <2>2 DEF Max
  <2> QED BY <2>1, <2>3
<1>2. PICK z : z = NoPrice /\ z = 0
  BY DEF NoPrice
<1>3. price = [v \in OfferVariants |-> [base |-> m, sale |-> z, discounted |-> z, window |-> "ahead"]]
  BY Zenon, <1>1, <1>2 DEF StorefrontInit
<1>4. [base |-> m, sale |-> z, discounted |-> z, window |-> "ahead"] \in PriceRow
  BY <1>1, <1>2 DEF PriceRow
<1>5. price \in [OfferVariants -> PriceRow]
  BY Zenon, <1>3, <1>4
<1>6. units \in [OfferVariants -> [Rows -> Nat]] /\ onHold \in [OfferVariants -> [Rows -> Nat]] /\ follows \subseteq Shops
  BY StorefrontAssumption DEF StorefrontInit
<1> QED BY <1>5, <1>6 DEF StorefrontTyped

LEMMA PriceChangesTyped ==
  ASSUME StorefrontTyped, NEW v \in OfferVariants, PriceChanges(v) \/ WindowTurns(v) PROVE price' \in [OfferVariants -> PriceRow]
<1>1. price \in [OfferVariants -> PriceRow] /\ price[v] \in PriceRow
  BY DEF StorefrontTyped
<1>2. CASE PriceChanges(v)
  <2>1. PICK after \in [base : Prices, sale : Prices \union {NoPrice}, discounted : Prices \union {NoPrice}, window : {"ahead"}] :
          price' = [price EXCEPT ![v] = after]
    BY Zenon, <1>2 DEF PriceChanges
  <2>2. after \in PriceRow
    <3>1. PICK P : P = Prices \union {NoPrice}
      OBVIOUS
    <3>2. Prices \subseteq Nat /\ P \subseteq Nat /\ {"ahead"} \subseteq {"ahead", "open", "over"}
      BY <3>1, StorefrontAssumption DEF NoPrice
    <3>3. after \in [base : Prices, sale : P, discounted : P, window : {"ahead"}]
      BY Zenon, <2>1, <3>1
    <3> QED BY <3>2, <3>3 DEF PriceRow
  <2> QED BY Zenon, <1>1, <2>1, <2>2
<1>3. CASE WindowTurns(v)
  <2>1. PICK w : w = (IF price[v].window = "ahead" THEN "open" ELSE "over")
    OBVIOUS
  <2>2. PICK after : after = [price[v] EXCEPT !.window = w]
    OBVIOUS
  <2>3. price' = [price EXCEPT ![v] = after]
    BY Zenon, <1>3, <2>1, <2>2 DEF WindowTurns
  <2>4. w \in {"ahead", "open", "over"}
    BY <2>1
  <2>5. after \in PriceRow
    BY <1>1, <2>2, <2>4 DEF PriceRow
  <2> QED BY Zenon, <1>1, <2>3, <2>5
<1> QED BY <1>2, <1>3

LEMMA StorefrontStep ==
  ASSUME StorefrontTyped, StorefrontNext PROVE StorefrontTyped'
<1>1. ASSUME UNCHANGED <<price, units, onHold>>, follows' \subseteq Shops PROVE StorefrontTyped'
  BY <1>1 DEF StorefrontTyped
<1>2. ASSUME NEW s \in Shops, ShopChanges(s) \/ Follow(s) \/ Unfollow(s) PROVE StorefrontTyped'
  <2>1. UNCHANGED <<price, units, onHold>>
    BY Zenon, <1>2 DEF ShopChanges, Follow, Unfollow
  <2>2. follows' = follows \/ follows' = follows \union {s} \/ follows' = follows \ {s}
    BY Zenon, <1>2 DEF ShopChanges, Follow, Unfollow
  <2> QED BY <1>1, <2>1, <2>2 DEF StorefrontTyped
<1>3. ASSUME NEW o \in Offers, OfferChanges(o) \/ SectionOffer(o) PROVE StorefrontTyped'
  BY <1>1, <1>3 DEF OfferChanges, SectionOffer, StorefrontTyped
<1>4. ASSUME NEW v \in OfferVariants, MatchChanges(v) PROVE StorefrontTyped'
  <2>1. UNCHANGED <<price, units, onHold, follows>>
    BY Zenon, <1>4 DEF MatchChanges
  <2> QED BY <1>1, <2>1 DEF StorefrontTyped
<1>5. ASSUME NEW v \in OfferVariants, PriceChanges(v) \/ WindowTurns(v) PROVE StorefrontTyped'
  <2>1. UNCHANGED <<units, onHold, follows>>
    BY Zenon, <1>5 DEF PriceChanges, WindowTurns
  <2> QED BY <1>5, <2>1, PriceChangesTyped DEF StorefrontTyped
<1>6. ASSUME NEW v \in OfferVariants, NEW b \in Rows, StockChanges(v, b) PROVE StorefrontTyped'
  <2>1. UNCHANGED <<price, onHold, follows>>
    BY Zenon, <1>6 DEF StockChanges
  <2>2. PICK k \in Levels : units' = [units EXCEPT ![v][b] = k]
    BY Zenon, <1>6 DEF StockChanges
  <2>3. k \in Nat
    BY StorefrontAssumption
  <2>4. PICK counts : counts = [units[v] EXCEPT ![b] = k]
    OBVIOUS
  <2>5. counts \in [Rows -> Nat]
    BY <2>3, <2>4 DEF StorefrontTyped
  <2>6. units' = [units EXCEPT ![v] = counts]
    BY Zenon, <2>2, <2>4
  <2> QED BY <2>1, <2>5, <2>6 DEF StorefrontTyped
<1>7. ASSUME NEW v \in OfferVariants, NEW b \in Rows, HoldChanges(v, b) PROVE StorefrontTyped'
  <2>1. UNCHANGED <<price, units, follows>>
    BY Zenon, <1>7 DEF HoldChanges
  <2>2. PICK k \in 0..units[v][b] : onHold' = [onHold EXCEPT ![v][b] = k]
    BY Zenon, <1>7 DEF HoldChanges
  <2>3. k \in Nat
    BY DEF StorefrontTyped
  <2>4. PICK counts : counts = [onHold[v] EXCEPT ![b] = k]
    OBVIOUS
  <2>5. counts \in [Rows -> Nat]
    BY <2>3, <2>4 DEF StorefrontTyped
  <2>6. onHold' = [onHold EXCEPT ![v] = counts]
    BY Zenon, <2>2, <2>4
  <2> QED BY <2>1, <2>5, <2>6 DEF StorefrontTyped
<1>8. ASSUME NEW kind, NEW t, AddFavourite(kind, t) PROVE StorefrontTyped'
  <2>1. UNCHANGED <<price, units, onHold, follows>>
    BY Zenon, <1>8 DEF AddFavourite
  <2> QED BY <1>1, <2>1 DEF StorefrontTyped
<1>9. ASSUME NEW f \in favourites, RemoveFavourite(f) PROVE StorefrontTyped'
  BY <1>1, <1>9 DEF RemoveFavourite, StorefrontTyped
<1> QED BY Zenon, <1>2, <1>3, <1>4, <1>5, <1>6, <1>7, <1>8, <1>9 DEF StorefrontNext

(* The same product is the same everywhere it is shown: cards, the facts SQL sorts    *)
(* by, comparisons, the pages of a store, feeds and favourites.  A card is the        *)
(* first of a total order (compareOffersByPrice()), the facts a minimum; one lowest   *)
(* row for each store is as many rows as stores.                                  *)
THEOREM ListingsAgreeHolds == StorefrontSpec => []ListingsAgree
<1>1. StorefrontInit => StorefrontTyped
  BY StorefrontStart
<1>2. StorefrontTyped /\ [StorefrontNext]_<<storefront, transactions>> => StorefrontTyped'
  <2>1. ASSUME StorefrontTyped, UNCHANGED <<storefront, transactions>> PROVE StorefrontTyped'
    BY <2>1 DEF StorefrontTyped, storefront
  <2> QED BY <2>1, StorefrontStep
<1>3. StorefrontTyped => ListingsAgree
  BY TypedListingsAgree
<1> QED BY <1>1, <1>2, <1>3, PTL DEF StorefrontSpec
=============================================================================
