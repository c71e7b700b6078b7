------------------------------ MODULE Shoppers ------------------------------
(***************************************************************************)
(* One customer: the address book, one cart line, and the checkouts that     *)
(* deliver to an address and take units off the line.                       *)
(***************************************************************************)
EXTENDS Transactions

CONSTANTS MaxAddresses, \* bound: addresses ever created, numbered by age
          MaxUnits,     \* bound: units on the cart line
          Checkouts

Addresses == 1..MaxAddresses

ASSUME ShopperAssumption == MaxAddresses \in Nat \ {0} /\ MaxUnits \in Nat \ {0}

VARIABLES address,   \* "none", "saved", "archived" or "deleted", by address
          defaults,  \* addresses with isDefault
          checkout,  \* what a checkout delivers where, and from which cart line
          cart,      \* the line: its row id (0: no row, it was deleted) and units
          wanted     \* history: the units the customer asked for and has not bought

shopper == <<address, defaults, checkout, cart, wanted>>

CustomerProfile == <<"customer_profile">>
AddressRow(a) == <<"address", a>>
OrderRow(c) == <<"checkout", c>>
LineRow == <<"cart_line", cart.id>>

Saved == {a \in Addresses : address[a] = "saved"}
AtStage(stages) == {checkout[c].to : c \in {d \in Checkouts : checkout[d].stage \in stages}}
OldestOf(S) == CHOOSE a \in S : \A b \in S : a <= b

ShopperInit ==
  /\ address = [a \in Addresses |-> "none"] /\ defaults = {}
  /\ checkout = [c \in Checkouts |-> [stage |-> "none", to |-> 0, line |-> 0, units |-> 0]]
  /\ cart = [id |-> 0, units |-> 0, last |-> 0] /\ wanted = 0

(***************************************************************************)
(* Addresses                                                                *)
(***************************************************************************)
\* Slip: only the address is locked, not the customer's address book.
RowOnly(a) == {AddressRow(a)}
BookLocks(a) == {CustomerProfile}

CreateAddress(r) ==
  \E a \in Addresses :
    /\ address[a] = "none" /\ \A b \in 1..(a - 1) : address[b] # "none"
    /\ Begins(r, [op |-> "create", to |-> a, first |-> Saved = {}], BookLocks(a)) /\ UNCHANGED shopper

(* A second default violates the partial unique index and rolls back.         *)
AddressCreated(r) ==
  LET a == running[r].to
  IN /\ Commits(r, "create") /\ address[a] = "none" /\ (running[r].first => defaults = {})
     /\ address' = [address EXCEPT ![a] = "saved"]
     /\ defaults' = IF running[r].first THEN {a} ELSE defaults
     /\ UNCHANGED <<checkout, cart, wanted>>

SetDefault(r, a) ==
  /\ address[a] = "saved" /\ Begins(r, [op |-> "default", to |-> a], BookLocks(a)) /\ UNCHANGED shopper

DefaultSet(r) ==
  LET a == running[r].to
  IN /\ Commits(r, "default") /\ FreeFor(r, {AddressRow(a)}) /\ address[a] # "deleted"
     /\ defaults' = {a} /\ UNCHANGED <<address, checkout, cart, wanted>>

DeleteAddress(r, a) ==
  /\ address[a] = "saved" /\ a \notin AtStage({"ordered"})
  /\ Begins(r, [op |-> "delete", to |-> a, used |-> a \in AtStage({"finished"}), default |-> a \in defaults], BookLocks(a))
  /\ UNCHANGED shopper

(* An address some order was ever sent to is archived; a row that a hold or an   *)
(* order refers to cannot be deleted; the oldest address left is the default.    *)
AddressDeleted(r) ==
  LET a == running[r].to
      left == Saved \ {a}
      kept == defaults \ {a}
      promotes == running[r].default /\ left # {}
  IN /\ Commits(r, "delete") /\ FreeFor(r, {AddressRow(a)}) /\ address[a] # "deleted"
     /\ running[r].used \/ a \notin AtStage({"reserved", "ordered", "finished"})
     /\ promotes => kept \subseteq {OldestOf(left)}
     /\ address' = [address EXCEPT ![a] = IF running[r].used THEN "archived" ELSE "deleted"]
     /\ defaults' = IF promotes THEN {OldestOf(left)} ELSE kept
     /\ UNCHANGED <<checkout, cart, wanted>>

(* changeAddress() locks the new address and not the customer's book.          *)
ChangeAddress(r, c, a) ==
  /\ checkout[c].stage = "ordered" /\ address[a] = "saved" /\ a # checkout[c].to
  /\ Begins(r, [op |-> "change", checkout |-> c, to |-> a], {OrderRow(c), AddressRow(a)}) /\ UNCHANGED shopper

AddressChanged(r) ==
  /\ Commits(r, "change") /\ checkout' = [checkout EXCEPT ![running[r].checkout].to = running[r].to]
  /\ UNCHANGED <<address, defaults, cart, wanted>>

(***************************************************************************)
(* The cart and checkouts                                                   *)
(***************************************************************************)
(* addItem(): an upsert; a line that was removed comes back as another row.     *)
AddItem(k) ==
  LET row == IF cart.id = 0 THEN cart.last + 1 ELSE cart.id
  IN /\ Writes({LineRow}) /\ cart.units + k <= MaxUnits
     /\ cart' = [id |-> row, units |-> cart.units + k, last |-> IF row > cart.last THEN row ELSE cart.last]
     /\ wanted' = wanted + k /\ UNCHANGED <<address, defaults, checkout>>

UpdateItem(k) ==
  /\ Writes({LineRow}) /\ cart.id # 0 /\ k # cart.units
  /\ cart' = [cart EXCEPT !.units = k] /\ wanted' = k /\ UNCHANGED <<address, defaults, checkout>>

Emptied == [cart EXCEPT !.id = 0, !.units = 0]
RemoveItem ==
  /\ Writes({LineRow}) /\ cart.id # 0
  /\ cart' = Emptied /\ wanted' = 0 /\ UNCHANGED <<address, defaults, checkout>>

(* reserve() holds the line's units; whether the address is archived it does    *)
(* not look at.                                                              *)
Reserve(c, a) ==
  /\ Writes({OrderRow(c)}) /\ checkout[c].stage = "none" /\ cart.id # 0 /\ address[a] \in {"saved", "archived"}
  /\ checkout' = [checkout EXCEPT ![c] = [stage |-> "reserved", to |-> a, line |-> cart.id, units |-> cart.units]]
  /\ UNCHANGED <<address, defaults, cart, wanted>>

Confirm(r, c) ==
  /\ checkout[c].stage = "reserved"
  /\ Begins(r, [op |-> "confirm", checkout |-> c], {OrderRow(c)}) /\ UNCHANGED shopper

\* Slip: the whole line goes, whatever was added to it since.
DeletesTheLine(line, units) == [some |-> FALSE, all |-> cart.id = line]
(* The two statements of a confirmation on the line it was reserved from.      *)
Matches(line, units) ==
  [some |-> cart.id = line /\ cart.units > units, all |-> cart.id = line /\ cart.units <= units]

(* UPDATE: the row it matches stays locked until the commit.                  *)
Decrement(r) ==
  LET c == running[r].checkout
      matched == Matches(checkout[c].line, checkout[c].units).some
  IN /\ running[r].op = "confirm" /\ FreeFor(r, {LineRow})
     /\ Proceeds(r, [op |-> "reconcile", checkout |-> c, matched |-> matched],
                 {OrderRow(c)} \union IF matched THEN {LineRow} ELSE {})
     /\ UNCHANGED shopper

(* DELETE, when the UPDATE matched nothing, looks at the line again.            *)
Confirmed(r) ==
  LET c == running[r].checkout
      k == checkout[c].units
  IN /\ Commits(r, "reconcile") /\ FreeFor(r, {LineRow})
     /\ cart' = IF running[r].matched THEN [cart EXCEPT !.units = @ - k]
                ELSE IF Matches(checkout[c].line, k).all THEN Emptied ELSE cart
     /\ wanted' = IF wanted > k THEN wanted - k ELSE 0
     /\ checkout' = [checkout EXCEPT ![c].stage = "ordered"]
     /\ UNCHANGED <<address, defaults>>

(* The order reaches a terminal status; or the hold is cancelled or swept.       *)
Finish(c) ==
  /\ Writes({OrderRow(c)}) /\ checkout[c].stage = "ordered"
  /\ checkout' = [checkout EXCEPT ![c].stage = "finished"] /\ UNCHANGED <<address, defaults, cart, wanted>>
ReleaseHold(c) ==
  /\ Writes({OrderRow(c)}) /\ checkout[c].stage = "reserved"
  /\ checkout' = [checkout EXCEPT ![c].stage = "none"] /\ UNCHANGED <<address, defaults, cart, wanted>>

ShopperNext ==
  \/ \E r \in Requests :
       \/ CreateAddress(r) \/ AddressCreated(r) \/ DefaultSet(r) \/ AddressDeleted(r) \/ AddressChanged(r)
       \/ Decrement(r) \/ Confirmed(r) \/ (Abandons(r) /\ UNCHANGED shopper)
       \/ \E a \in Addresses : SetDefault(r, a) \/ DeleteAddress(r, a) \/ \E c \in Checkouts : ChangeAddress(r, c, a)
       \/ \E c \in Checkouts : Confirm(r, c)
  \/ \E k \in 1..MaxUnits : AddItem(k) \/ UpdateItem(k)
  \/ RemoveItem
  \/ \E c \in Checkouts : Finish(c) \/ ReleaseHold(c) \/ \E a \in Addresses : Reserve(c, a)

ShopperSpec == ShopperInit /\ NothingRuns /\ [][ShopperNext]_<<shopper, transactions>>

(***************************************************************************)
(* Properties                                                               *)
(***************************************************************************)
(* A customer who has saved addresses has exactly one default among them, and    *)
(* no archived or deleted one is a default, whichever two requests on the book   *)
(* run at once (createAddress(), patchAddress(), deleteAddress()).            *)
OneDefaultAddress == defaults \subseteq Saved /\ (Saved # {} => Cardinality(defaults) = 1)

(* A confirmation takes from the cart at most what it sold: units added, set or   *)
(* added again while it was held or being written are still there              *)
(* (the reconciliation in confirm()).                                        *)
CartKeepsTheRest == cart.units >= wanted
=============================================================================
