----------------------------- MODULE MCShopping -----------------------------
(***************************************************************************)
(* Eight components that share no state, explored one at a time: a behaviour  *)
(* picks one, and the others stay as they begin.  One run for all of them      *)
(* costs the sum of their states.                                           *)
(***************************************************************************)
EXTENDS Shoppers, Reviews, Assortment, Pages, Settings, Restock, Storefront, CheckoutRules, TLC

VARIABLE part

MCShopOf == [o \in Offers |-> IF o = "x" THEN 1 ELSE 2]
MCOfferOf == [v \in OfferVariants |-> IF v = 3 THEN "y" ELSE "x"]
MCSymmetry == Permutations(Requests)

\* bound: requests started in each part, at most MaxCalls
Budget ==
  [shopper |-> 7, reviews |-> 7, tree |-> 7, groups |-> 7, pages |-> 5, settings |-> 4, restock |-> 4, listings |-> 3, checkout |-> 4]

(* A part that is not explored begins in one of its states only.               *)
Fixed ==
  /\ part # "restock" => open = {CHOOSE b \in Branches : TRUE}
  /\ IF part = "listings" THEN active = Offers ELSE active = {} /\ \A v \in OfferVariants : units[v][1] = 0
  /\ part # "checkout" => \A b \in Depots : \A l \in Lines : rack[b][l].units = 1

MCInit ==
  /\ part \in DOMAIN Budget
  /\ running = [r \in Requests |-> Idle] /\ held = [r \in Requests |-> {}] /\ calls = MaxCalls - Budget[part]
  /\ ShopperInit /\ ReviewsInit /\ AssortmentInit /\ PagesInit /\ SettingsInit /\ RestockInit /\ StorefrontInit /\ CheckoutRulesInit
  /\ Fixed

ShopperPart == part = "shopper" /\ ShopperNext /\ UNCHANGED <<reviewing, assortment, paging, settings, restock, storefront, checkoutRules>>
ReviewsPart == part = "reviews" /\ ReviewsNext /\ UNCHANGED <<shopper, assortment, paging, settings, restock, storefront, checkoutRules>>
TreePart == part = "tree" /\ TreeNext /\ UNCHANGED <<shopper, reviewing, paging, settings, restock, storefront, checkoutRules>>
GroupsPart == part = "groups" /\ GroupNext /\ UNCHANGED <<shopper, reviewing, paging, settings, restock, storefront, checkoutRules>>
PagesPart == part = "pages" /\ PagesNext /\ UNCHANGED <<shopper, reviewing, assortment, settings, restock, storefront, checkoutRules>>
SettingsPart == part = "settings" /\ SettingsNext /\ UNCHANGED <<shopper, reviewing, assortment, paging, restock, storefront, checkoutRules>>
RestockPart == part = "restock" /\ RestockNext /\ UNCHANGED <<shopper, reviewing, assortment, paging, settings, storefront, checkoutRules>>
ListingsPart == part = "listings" /\ StorefrontNext /\ UNCHANGED <<shopper, reviewing, assortment, paging, settings, restock, checkoutRules>>
CheckoutPart == part = "checkout" /\ CheckoutRulesNext /\ UNCHANGED <<shopper, reviewing, assortment, paging, settings, restock, storefront>>

MCNext ==
  /\ UNCHANGED part
  /\ \/ ShopperPart \/ ReviewsPart \/ TreePart \/ GroupsPart \/ PagesPart \/ SettingsPart \/ RestockPart \/ ListingsPart \/ CheckoutPart

MCSpec ==
  MCInit /\ [][MCNext]_<<part, transactions, shopper, reviewing, assortment, paging, settings, restock, storefront, checkoutRules>>
=============================================================================
