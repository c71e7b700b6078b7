---------------------------- MODULE CheckoutRules ----------------------------
(***************************************************************************)
(* One customer's checkout at one vendor: the quote groups the cart by branch *)
(* and shows prices, fees, minimums and slots without writing anything; the    *)
(* reservation and the confirmation check it all again.                      *)
(***************************************************************************)
EXTENDS Transactions, FiniteSetsExt

CONSTANTS Lines,    \* cart lines, each of another offer variant
          Depots,   \* branches of the vendor: a smaller number is an older branch
          Physical, \* those one can collect at
          Money,    \* amounts, a free delivery's 0 among them
          NoMoney,  \* null: no fee is set; no minimum
          MaxLine

ASSUME CheckoutAssumption ==
  /\ IsFiniteSet(Depots) /\ Depots \subseteq Nat /\ Physical \subseteq Depots /\ MaxLine \in Nat \ {0}
  /\ Money \subseteq Nat /\ Money \ {0} # {} /\ NoMoney \notin Money

Charged == Money \ {0} \* a price is positive; a fee or a minimum may be 0

VARIABLES depot,  \* a branch: whether it takes orders, its minimum, the free places of its slot
          rack,   \* a stock row: units, and those held by reservations, by exchanges, by expired reservations
          offer,  \* a line: units in the cart, effective price, whether it may be bought
          zone,   \* of the vendor, for the customer's region: enabled, fee, minimum; whether the address has a region
          quoted, \* the last quote: for an address or none; what it lets the customer choose; whether nothing has changed since
          basket  \* the reservation, and what became of it

checkoutRules == <<depot, rack, offer, zone, quoted, basket>>

Unquoted == [addressed |-> FALSE, choices |-> {}, fresh |-> FALSE]
NoBasket == [stage |-> "none", choice |-> {}, lines |-> << >>, fee |-> NoMoney]

CheckoutRulesInit ==
  /\ depot = [b \in Depots |-> [serving |-> TRUE, minimum |-> NoMoney, places |-> 1]]
  /\ \E k \in 1..MaxLine :
       rack = [b \in Depots |-> [l \in Lines |-> [units |-> k, held |-> 0, swapped |-> 0, lapsed |-> 0]]]
  /\ offer = [l \in Lines |-> [wanted |-> 1, price |-> Min(Charged), buyable |-> TRUE]]
  /\ zone = [enabled |-> TRUE, fee |-> Min(Charged), minimum |-> NoMoney, known |-> TRUE]
  /\ quoted = Unquoted /\ basket = NoBasket

(***************************************************************************)
(* Money                                                                    *)
(***************************************************************************)
Worth(o, ls) == FoldSet(LAMBDA l, sum : sum + o[l].wanted * o[l].price, 0, ls)
Subtotal(ls) == Worth(offer, ls)
DeliveryFee == IF zone.known /\ zone.enabled THEN zone.fee ELSE NoMoney
(* The minimum of the zone replaces that of the branch, a minimum of 0 too.       *)
DeliveryMinimum(b) == IF zone.minimum # NoMoney THEN zone.minimum ELSE depot[b].minimum
Meets(ls, minimum) == minimum # NoMoney => Subtotal(ls) >= minimum

(***************************************************************************)
(* The quote                                                                *)
(***************************************************************************)
Offered(b, l) == rack[b][l].units - rack[b][l].held
Serving == {b \in Depots : depot[b].serving}
Candidates(l) == {b \in Serving : Offered(b, l) >= offer[l].wanted}
FullyCovering == {b \in Serving : \A l \in Lines : b \in Candidates(l)}
(* Otherwise each line goes to the branch that has most of it, the oldest of     *)
(* these, and a line no branch has enough of is left out.                      *)
Assigned(l) ==
  CHOOSE b \in Candidates(l) : \A c \in Candidates(l) : Offered(b, l) > Offered(c, l) \/ (Offered(b, l) = Offered(c, l) /\ b <= c)
CartGroups ==
  IF FullyCovering # {} THEN {[lines |-> Lines, branches |-> FullyCovering]}
  ELSE {[lines |-> {l \in Lines : Candidates(l) # {} /\ Assigned(l) = b}, branches |-> {b}] :
          b \in {Assigned(l) : l \in {k \in Lines : Candidates(k) # {}}}}

Purchasable(ls) == \A l \in ls : offer[l].buyable
(* computeAvailableSlots(): what the holds that live and the open orders leave.   *)
HasSlot(b) == depot[b].places > 0

(* The branches, methods and slots of a group that the quote shows no blocker     *)
(* for.  Without an address, or a region of it, it looks at no zone.            *)
Located(addressed) == addressed /\ zone.known
Unblocked(g, b, method, addressed) ==
  IF method = "PICKUP" THEN b \in Physical /\ Meets(g.lines, depot[b].minimum)
  ELSE HasSlot(b) /\ (Located(addressed) => DeliveryFee # NoMoney /\ Meets(g.lines, DeliveryMinimum(b)))
Options(g) == {[lines |-> g.lines, branch |-> b, method |-> how] : b \in g.branches, how \in {"PICKUP", "DELIVERY"}}
Plans(addressed) ==
  LET shown == UNION {{x \in Options(g) : Unblocked(g, x.branch, x.method, addressed)} : g \in CartGroups}
  IN {c \in SUBSET shown : c # {} /\ \A g \in CartGroups : Cardinality({x \in c : x.lines = g.lines}) = 1}

Quote(addressed) ==
  /\ Writes({}) /\ Purchasable(Lines)
  /\ quoted' = [addressed |-> addressed, choices |-> Plans(addressed), fresh |-> TRUE]
  /\ UNCHANGED <<depot, rack, offer, zone, basket>>

(***************************************************************************)
(* The reservation and the confirmation                                     *)
(***************************************************************************)
\* Slip: holds that have expired still count against a reservation.
CounterOnly(b, l) == rack[b][l].held + rack[b][l].swapped + rack[b][l].lapsed
(* The counter of the row, once the expired holds on it are swept.             *)
Reserved(b, l) == rack[b][l].held + rack[b][l].swapped

(* The zone of the address, which a delivery needs.                            *)
Deliverable(x) == zone.known /\ DeliveryFee # NoMoney /\ Meets(x.lines, DeliveryMinimum(x.branch))
MayReserve(x) ==
  /\ depot[x.branch].serving /\ Purchasable(x.lines)
  /\ \A l \in x.lines : rack[x.branch][l].units - Reserved(x.branch, l) >= offer[l].wanted
  /\ IF x.method = "PICKUP" THEN x.branch \in Physical /\ Meets(x.lines, depot[x.branch].minimum)
     ELSE Deliverable(x) /\ depot[x.branch].places > 0

(* A reservation keeps the units, prices and fee it was made with.              *)
Takes(k, b, l) == IF \E x \in k.choice : x.branch = b /\ l \in x.lines THEN k.lines[l].wanted ELSE 0
Books(k, b) == IF \E x \in k.choice : x.branch = b /\ x.method = "DELIVERY" THEN 1 ELSE 0
Delivers(k) == \E x \in k.choice : x.method = "DELIVERY"
Booked(k, by) == [b \in Depots |-> [depot[b] EXCEPT !.places = @ - by * Books(k, b)]]

ReserveBasket(choice) ==
  LET k == [stage |-> "reserved", choice |-> choice, lines |-> offer, fee |-> DeliveryFee]
  IN /\ Writes({}) /\ basket.stage = "none"
     /\ IF \A x \in choice : MayReserve(x)
        THEN /\ rack' = [b \in Depots |-> [l \in Lines |->
                          [rack[b][l] EXCEPT !.held = @ + Takes(k, b, l), !.lapsed = IF Takes(k, b, l) > 0 THEN 0 ELSE @]]]
             /\ depot' = Booked(k, 1) /\ basket' = k
        ELSE basket' = [NoBasket EXCEPT !.stage = "refused"] /\ UNCHANGED <<rack, depot>>
     /\ UNCHANGED <<offer, zone>> /\ quoted' = [quoted EXCEPT !.fresh = FALSE]

(* A price or a fee that is not the one reserved, or a line that may no longer be  *)
(* bought, refuses the confirmation; the minimum is not looked at again.        *)
ConfirmBasket ==
  /\ Writes({}) /\ basket.stage = "reserved"
  /\ \A x \in basket.choice : \A l \in x.lines : offer[l].buyable /\ offer[l].price = basket.lines[l].price
  /\ Delivers(basket) => DeliveryFee # NoMoney /\ DeliveryFee = basket.fee
  /\ rack' = [b \in Depots |-> [l \in Lines |->
               [rack[b][l] EXCEPT !.units = @ - Takes(basket, b, l), !.held = @ - Takes(basket, b, l)]]]
  /\ basket' = [basket EXCEPT !.stage = "ordered"] /\ UNCHANGED <<depot, offer, zone, quoted>>

(* cancelReservation(), or a confirmation or a sweep after the ten minutes.     *)
BasketEnds ==
  /\ Writes({}) /\ basket.stage = "reserved"
  /\ \E swept \in BOOLEAN :
       rack' = [b \in Depots |-> [l \in Lines |->
                 [rack[b][l] EXCEPT !.held = @ - Takes(basket, b, l), !.lapsed = @ + IF swept THEN 0 ELSE Takes(basket, b, l)]]]
  /\ depot' = Booked(basket, -1) /\ basket' = NoBasket
  /\ UNCHANGED <<offer, zone>> /\ quoted' = [quoted EXCEPT !.fresh = FALSE]
StartsOver == basket.stage \in {"refused", "ordered"} /\ basket' = NoBasket /\ UNCHANGED <<transactions, depot, rack, offer, zone, quoted>>

(***************************************************************************)
(* What others change                                                       *)
(***************************************************************************)
Elsewhere == Writes({}) /\ quoted' = [quoted EXCEPT !.fresh = FALSE] /\ UNCHANGED basket

(* A branch opens, closes or is archived; its minimum; other orders of its slot.    *)
DepotChanges(b) ==
  /\ Elsewhere /\ UNCHANGED <<rack, offer, zone>>
  /\ \/ depot' = [depot EXCEPT ![b].serving = ~@]
     \/ depot' = [depot EXCEPT ![b].places = 1 - @]
     \/ \E m \in Money \union {NoMoney} : m # depot[b].minimum /\ depot' = [depot EXCEPT ![b].minimum = m]
ZoneChanges ==
  /\ Elsewhere /\ UNCHANGED <<depot, rack, offer>>
  /\ \/ zone' = [zone EXCEPT !.enabled = ~@]
     \/ zone' = [zone EXCEPT !.known = ~@]
     \/ \E m \in Money \union {NoMoney} : m # zone.fee /\ zone' = [zone EXCEPT !.fee = m]
     \/ \E m \in Money \union {NoMoney} : m # zone.minimum /\ zone' = [zone EXCEPT !.minimum = m]
LineChanges(l) ==
  /\ Elsewhere /\ UNCHANGED <<depot, rack, zone>>
  /\ \/ offer' = [offer EXCEPT ![l].buyable = ~@]
     \/ \E m \in Charged : m # offer[l].price /\ offer' = [offer EXCEPT ![l].price = m]
     \/ \E k \in 1..MaxLine : k # offer[l].wanted /\ offer' = [offer EXCEPT ![l].wanted = k]
(* Movements, other checkouts and exchanges, which leave what is held here alone.  *)
RackChanges(b, l) ==
  LET row == rack[b][l]
      ours == IF basket.stage = "reserved" THEN Takes(basket, b, l) ELSE 0
      free == row.units - row.held - row.swapped - row.lapsed
  IN /\ Elsewhere /\ UNCHANGED <<depot, offer, zone>>
     /\ \/ row.units < MaxLine /\ rack' = [rack EXCEPT ![b][l].units = @ + 1]
        \/ free > 0 /\ \/ rack' = [rack EXCEPT ![b][l].units = @ - 1]
                       \/ rack' = [rack EXCEPT ![b][l].held = @ + 1]
                       \/ rack' = [rack EXCEPT ![b][l].swapped = @ + 1]
        \/ row.held > ours /\ \/ rack' = [rack EXCEPT ![b][l].held = @ - 1]
                              \/ rack' = [rack EXCEPT ![b][l].held = @ - 1, ![b][l].lapsed = @ + 1]
        \/ row.swapped > 0 /\ rack' = [rack EXCEPT ![b][l].swapped = @ - 1]
        \/ row.lapsed > 0 /\ rack' = [rack EXCEPT ![b][l].lapsed = 0]

CheckoutRulesNext ==
  \/ \E addressed \in BOOLEAN : Quote(addressed)
  \/ ConfirmBasket \/ BasketEnds \/ StartsOver \/ ZoneChanges
  \/ \E choice \in quoted.choices : ReserveBasket(choice)
  \/ \E b \in Depots : DepotChanges(b) \/ \E l \in Lines : RackChanges(b, l)
  \/ \E l \in Lines : LineChanges(l)

CheckoutRulesSpec == CheckoutRulesInit /\ NothingRuns /\ [][CheckoutRulesNext]_<<checkoutRules, transactions>>

(***************************************************************************)
(* Properties                                                               *)
(***************************************************************************)
(* What the quote shows as possible, the reservation grants while nothing has     *)
(* changed: the same branches, stock, minimums, fees and slots, though one counts  *)
(* the holds that live and the other the counter of the locked row.  Two           *)
(* differences are known: units that exchanges hold, and a delivery of which the   *)
(* quote looked at no zone, where the zone then refuses (quote(), reserve()).     *)
ReserveHonoursQuote ==
  [][\A choice \in quoted.choices :
       quoted.fresh /\ ReserveBasket(choice) /\ basket'.stage = "refused" =>
         \E x \in choice : \/ x.method = "DELIVERY" /\ ~Located(quoted.addressed) /\ ~Deliverable(x)
                           \/ \E l \in x.lines : rack[x.branch][l].swapped > 0]_checkoutRules
=============================================================================
