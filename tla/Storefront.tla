----------------------------- MODULE Storefront -----------------------------
(***************************************************************************)
(* What the public is shown of one catalogue: product cards, the facts the    *)
(* browsing endpoint sorts and filters by, which SQL computes on its own, the *)
(* comparison page, a store's pages, and a customer's feed and favourites.    *)
(***************************************************************************)
EXTENDS Transactions, FiniteSetsExt

CONSTANTS Shops,         \* numbers: a smaller one was opened earlier
          Offers,
          OfferVariants, \* numbers: identifiers
          Products,
          ShopOf, OfferOf,
          Prices,
          Levels,        \* bound: units in stock
          MaxCardLogos

ASSUME StorefrontAssumption ==
  /\ Shops \subseteq Nat /\ OfferVariants \subseteq Nat /\ IsFiniteSet(OfferVariants)
  /\ Prices \subseteq Nat \ {0} /\ Prices # {} /\ IsFiniteSet(Prices) /\ Levels \subseteq Nat /\ MaxCardLogos \in Nat
  /\ ShopOf \in [Offers -> Shops] /\ OfferOf \in [OfferVariants -> Offers]

Unmatched == "none"
NoPrice == 0
Rows == {1, 2} \* the stock rows of a variant: the branches of its store

VARIABLES shop,      \* storefrontPublished and status
          active,    \* offers with status ACTIVE
          matched,   \* the product a variant is confirmed for
          price,     \* base price, sale price, discounted price and the window of the discount
          units,     \* quantity of a stock row
          onHold,    \* units of a row that reservations hold which have not expired
          sectioned, \* offers in a custom section of their store
          follows, favourites

storefront == <<shop, active, matched, price, units, onHold, sectioned, follows, favourites>>

(* A catalogue someone has set up, on sale or not yet.                         *)
StorefrontInit ==
  /\ shop = [s \in Shops |-> [published |-> TRUE, status |-> "ACTIVE"]] /\ active \in {{}, Offers}
  /\ \E p \in Products : matched = [v \in OfferVariants |-> p]
  /\ price = [v \in OfferVariants |-> [base |-> Max(Prices), sale |-> NoPrice, discounted |-> NoPrice, window |-> "ahead"]]
  /\ \E k \in Levels : units = [v \in OfferVariants |-> [b \in Rows |-> IF b = 1 THEN k ELSE 0]]
  /\ onHold = [v \in OfferVariants |-> [b \in Rows |-> 0]]
  /\ sectioned = {} /\ follows = {} /\ favourites = {}

(***************************************************************************)
(* What is computed from a variant                                          *)
(***************************************************************************)
DiscountActive(v) == price[v].discounted # NoPrice /\ price[v].window = "open"
EffectivePrice(v) ==
  IF DiscountActive(v) THEN price[v].discounted ELSE IF price[v].sale # NoPrice THEN price[v].sale ELSE price[v].base
EffectivelyDiscounted(v) ==
  IF DiscountActive(v) THEN price[v].discounted < price[v].base ELSE price[v].sale # NoPrice /\ price[v].sale < price[v].base

(* The units of a variant that no live reservation holds, one by one.          *)
FreeUnits(v) == UNION {{<<v, b>>} \X (1..(units[v][b] - onHold[v][b])) : b \in Rows}
Available(v) == Cardinality(FreeUnits(v))
Bucket(n) == IF n <= 0 THEN "sold_out" ELSE IF n <= 3 THEN "low_stock" ELSE "available"
Availability(v) == Bucket(Available(v))

Open(s) == shop[s].published /\ shop[s].status = "ACTIVE"
VendorOf(v) == ShopOf[OfferOf[v]]
VariantsIn(o) == {v \in OfferVariants : OfferOf[v] = o}

(***************************************************************************)
(* Cards (ComparisonService); S are the stores the request is about           *)
(***************************************************************************)
EligibleProduct(p, S) == \E v \in OfferVariants : matched[v] = p /\ OfferOf[v] \in active /\ VendorOf(v) \in S /\ Open(VendorOf(v))
EligibleOffers(p, S) == {v \in OfferVariants : matched[v] = p /\ OfferOf[v] \in active /\ VendorOf(v) \in S /\ Open(VendorOf(v))}

(* compareOffersByPrice(): the price, then the older store, then the identifier.  *)
Cheaper(v, w) ==
  \/ EffectivePrice(v) < EffectivePrice(w)
  \/ EffectivePrice(v) = EffectivePrice(w) /\ (VendorOf(v) < VendorOf(w) \/ (VendorOf(v) = VendorOf(w) /\ v < w))
Cheapest(V) == CHOOSE v \in V : \A w \in V \ {v} : Cheaper(v, w)

InStock(V) == {v \in V : Availability(v) # "sold_out"}
CheapestPerVendor(V) == {v \in V : \A w \in V \ {v} : VendorOf(w) = VendorOf(v) => Cheaper(v, w)}
Card(p, S) ==
  LET V == EligibleOffers(p, S)
      best == Cheapest(IF InStock(V) # {} THEN InStock(V) ELSE V)
      ranked == CheapestPerVendor(V)
  IN [lowestPrice |-> EffectivePrice(best), availability |-> Availability(best), cheapestOffer |-> best,
      storeCount |-> Cardinality(ranked),
      discountedStoreCount |-> Cardinality({VendorOf(v) : v \in {w \in InStock(V) : EffectivelyDiscounted(w)}}),
      logos |-> {v \in ranked : Cardinality({w \in ranked : Cheaper(w, v)}) < MaxCardLogos}]

(* listCards(): a product whose card cannot be built is counted and not shown.    *)
ProductCount(S) == Cardinality({p \in Products : EligibleProduct(p, S)})
Cards(S) == {p \in Products : EligibleOffers(p, S) # {}}

(***************************************************************************)
(* Facts (DiscoveryBrowseService), in SQL                                    *)
(***************************************************************************)
OffersOfProduct(p) == {v \in OfferVariants : matched[v] = p /\ OfferOf[v] \in active /\ shop[VendorOf(v)].published /\ shop[VendorOf(v)].status = "ACTIVE"}
\* Slip: the lowest price counts what is sold out.
MinOfAll(V) == Min({EffectivePrice(v) : v \in V})
SortPrice(V) == Min({EffectivePrice(v) : v \in IF \E w \in V : Available(w) > 0 THEN {w \in V : Available(w) > 0} ELSE V})
Facts(p) ==
  LET V == OffersOfProduct(p)
  IN [sortPrice |-> SortPrice(V), storeCount |-> Cardinality({VendorOf(v) : v \in V}),
      discountedStoreCount |-> Cardinality({VendorOf(v) : v \in {w \in V : Available(w) > 0 /\ EffectivePrice(w) < price[w].base}})]
(* The rows of the join: candidates of eligibleProductWhere() with an offer.      *)
Browsable(S) == {p \in Products : EligibleProduct(p, S) /\ OffersOfProduct(p) # {}}
Browsed(S, filter) ==
  {p \in Browsable(S) : (filter = "discounts" => Facts(p).discountedStoreCount > 0) /\ (filter = "trend" => Facts(p).storeCount > 1)}

(***************************************************************************)
(* The pages of a store, the comparison page, and the customer's own lists     *)
(***************************************************************************)
OfferDetail(o) == IF o \in active /\ Open(ShopOf[o]) THEN VariantsIn(o) ELSE {}
SalePrice(v) == IF EffectivelyDiscounted(v) THEN EffectivePrice(v) ELSE price[v].base
Sections(s) ==
  LET all == {o \in active : ShopOf[o] = s /\ Open(s)}
  IN [all |-> all, discounts |-> {o \in all : \E v \in VariantsIn(o) : EffectivelyDiscounted(v)}, custom |-> sectioned \intersect all]
OfferSummary(o) ==
  [minPrice |-> Min({EffectivePrice(v) : v \in VariantsIn(o)}),
   availability |-> Bucket(Cardinality(UNION {FreeUnits(v) : v \in VariantsIn(o)}))]

Comparison(p) == EligibleOffers(p, Shops)
ComparisonRow(v) == [store |-> VendorOf(v), price |-> EffectivePrice(v), availability |-> Availability(v)]
(* One row for each of several products, and the products of a saved comparison:  *)
(* the cheapest offer, sold out or not.                                        *)
CrossRow(p) ==
  LET V == Comparison(p)
  IN IF V = {} THEN [available |-> FALSE]
     ELSE [available |-> TRUE, storeCount |-> Cardinality({VendorOf(v) : v \in V}), offer |-> ComparisonRow(Cheapest(V))]
SetItem(p) ==
  LET V == EligibleOffers(p, Shops)
  IN IF V = {} THEN [available |-> FALSE] ELSE [available |-> TRUE, lowestPrice |-> EffectivePrice(Cheapest(V))]

(* GET /discovery/all with and without the parameters of browsing.             *)
ListAll(browsing, filter) == IF browsing THEN Browsed(Shops, filter) ELSE Cards(Shops)
ListStores == {s \in Shops : shop[s].published /\ shop[s].status = "ACTIVE"}
StorePage(s) == [is_available |-> shop[s].published /\ shop[s].status = "ACTIVE"]
FollowedStores == {s \in follows : shop[s].published /\ shop[s].status = "ACTIVE"}
Feed == Cards({s \in Shops : s \in follows})
FavouriteProducts == {p \in Products : <<"PRODUCT", p>> \in favourites /\ EligibleProduct(p, Shops)}
FavouriteOffers == {v \in OfferVariants : <<"OFFER", v>> \in favourites /\ matched[v] # Unmatched /\ OfferOf[v] \in active /\ Open(VendorOf(v))}

(***************************************************************************)
(* What other parts and the customer change                                  *)
(***************************************************************************)
ShopChanges(s) ==
  /\ Writes({})
  /\ \E after \in [published : BOOLEAN, status : {"ACTIVE", "SUSPENDED"}] : after # shop[s] /\ shop' = [shop EXCEPT ![s] = after]
  /\ UNCHANGED <<active, matched, price, units, onHold, sectioned, follows, favourites>>
OfferChanges(o) ==
  /\ Writes({}) /\ active' = (active \ {o}) \union ({o} \ active)
  /\ UNCHANGED <<shop, matched, price, units, onHold, sectioned, follows, favourites>>
MatchChanges(v) ==
  /\ Writes({}) /\ \E p \in Products \union {Unmatched} : p # matched[v] /\ matched' = [matched EXCEPT ![v] = p]
  /\ UNCHANGED <<shop, active, price, units, onHold, sectioned, follows, favourites>>
(* A sale price and a scheduled discount exclude each other.                   *)
PriceChanges(v) ==
  /\ Writes({})
  /\ \E after \in [base : Prices, sale : Prices \union {NoPrice}, discounted : Prices \union {NoPrice}, window : {"ahead"}] :
       /\ after.sale = NoPrice \/ after.discounted = NoPrice
       /\ after.discounted # NoPrice => after.discounted <= after.base
       /\ after # price[v] /\ price' = [price EXCEPT ![v] = after]
  /\ UNCHANGED <<shop, active, matched, units, onHold, sectioned, follows, favourites>>
WindowTurns(v) ==
  /\ Writes({}) /\ price[v].discounted # NoPrice /\ price[v].window # "over"
  /\ price' = [price EXCEPT ![v].window = IF @ = "ahead" THEN "open" ELSE "over"]
  /\ UNCHANGED <<shop, active, matched, units, onHold, sectioned, follows, favourites>>
StockChanges(v, b) ==
  /\ Writes({}) /\ \E k \in Levels : k # units[v][b] /\ k >= onHold[v][b] /\ units' = [units EXCEPT ![v][b] = k]
  /\ UNCHANGED <<shop, active, matched, price, onHold, sectioned, follows, favourites>>
(* A reservation, and its end or the moment it expires.                        *)
HoldChanges(v, b) ==
  /\ Writes({}) /\ \E k \in 0..units[v][b] : k # onHold[v][b] /\ onHold' = [onHold EXCEPT ![v][b] = k]
  /\ UNCHANGED <<shop, active, matched, price, units, sectioned, follows, favourites>>
SectionOffer(o) ==
  /\ Writes({}) /\ sectioned' = (sectioned \ {o}) \union ({o} \ sectioned)
  /\ UNCHANGED <<shop, active, matched, price, units, onHold, follows, favourites>>
Follow(s) ==
  /\ Writes({}) /\ Open(s) /\ s \notin follows /\ follows' = follows \union {s}
  /\ UNCHANGED <<shop, active, matched, price, units, onHold, sectioned, favourites>>
Unfollow(s) ==
  /\ Writes({}) /\ s \in follows /\ follows' = follows \ {s}
  /\ UNCHANGED <<shop, active, matched, price, units, onHold, sectioned, favourites>>
AddFavourite(kind, t) ==
  /\ Writes({}) /\ <<kind, t>> \notin favourites
  /\ IF kind = "PRODUCT" THEN EligibleProduct(t, Shops) ELSE matched[t] # Unmatched /\ OfferOf[t] \in active /\ Open(VendorOf(t))
  /\ favourites' = favourites \union {<<kind, t>>}
  /\ UNCHANGED <<shop, active, matched, price, units, onHold, sectioned, follows>>
RemoveFavourite(f) ==
  /\ Writes({}) /\ f \in favourites /\ favourites' = favourites \ {f}
  /\ UNCHANGED <<shop, active, matched, price, units, onHold, sectioned, follows>>

StorefrontNext ==
  \/ \E s \in Shops : ShopChanges(s) \/ Follow(s) \/ Unfollow(s)
  \/ \E o \in Offers : OfferChanges(o) \/ SectionOffer(o)
  \/ \E v \in OfferVariants :
       MatchChanges(v) \/ PriceChanges(v) \/ WindowTurns(v) \/ AddFavourite("OFFER", v) \/ \E b \in Rows : StockChanges(v, b) \/ HoldChanges(v, b)
  \/ \E p \in Products : AddFavourite("PRODUCT", p)
  \/ \E f \in favourites : RemoveFavourite(f)

StorefrontSpec == StorefrontInit /\ NothingRuns /\ [][StorefrontNext]_<<storefront, transactions>>

(***************************************************************************)
(* Properties                                                               *)
(***************************************************************************)
(* The same product is the same everywhere: it is counted, has a card, and has    *)
(* facts to sort by, or none of these; facts and card agree on the price, the     *)
(* stores and the discounts, so that a page sorted or filtered by the one shows   *)
(* the other; a card's logos are on the comparison page and lead to an offer the  *)
(* store shows, at that price, among its discounts when the logo says so; a        *)
(* comparison of several products, or a saved one, has those with a card, for no   *)
(* more than the card, for as much unless that offer is sold out; browsing without *)
(* a filter lists what the plain listing does; and a feed is what the followed     *)
(* stores still listed offer (ComparisonService, DiscoveryBrowseService,        *)
(* StoreOffersPublicController, ComparisonController, DiscoveryController).     *)
ListingsAgree ==
  \A S \in {Shops, follows} :
    /\ ProductCount(S) = Cardinality(Cards(S)) /\ Browsable(S) = Cards(S)
    /\ \A p \in Cards(Shops) :
         LET card == Card(p, Shops)
             facts == Facts(p)
         IN /\ facts.sortPrice = card.lowestPrice /\ facts.storeCount = card.storeCount
            /\ facts.discountedStoreCount = card.discountedStoreCount
            /\ p \in Browsed(Shops, "discounts") <=> card.discountedStoreCount > 0
    /\ \A p \in Cards(S) : \A v \in Card(p, S).logos :
         LET o == OfferOf[v]
             page == Sections(ShopOf[o])
         IN /\ v \in Comparison(p) /\ v \in OfferDetail(o) /\ o \in page.all /\ ShopOf[o] \in S
            /\ (EffectivelyDiscounted(v) => SalePrice(v) = EffectivePrice(v) /\ o \in page.discounts)
            /\ OfferSummary(o).minPrice <= EffectivePrice(v)
            /\ (OfferSummary(o).availability = "sold_out" => Availability(v) = "sold_out")
    /\ \A p \in Products :
         LET row == CrossRow(p)
             item == SetItem(p)
         IN /\ (row.available <=> p \in Cards(Shops)) /\ (item.available <=> row.available)
            /\ row.available =>
                 LET card == Card(p, Shops)
                 IN /\ row.storeCount = card.storeCount /\ item.lowestPrice = row.offer.price
                    /\ IF row.offer.availability = "sold_out" THEN row.offer.price <= card.lowestPrice ELSE row.offer.price = card.lowestPrice
    /\ ListAll(TRUE, "none") = ListAll(FALSE, "none")
    /\ \A s \in Shops : s \in ListStores <=> StorePage(s).is_available
    /\ Feed = Cards(FollowedStores) /\ FollowedStores \subseteq ListStores
    /\ Feed \union FavouriteProducts \subseteq Cards(Shops) /\ \A v \in FavouriteOffers : v \in Comparison(matched[v])
=============================================================================
