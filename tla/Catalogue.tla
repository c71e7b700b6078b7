----------------------------- MODULE Catalogue -----------------------------
(***************************************************************************)
(* Catalogue: the vendors' side of the matched offers of module Matching:      *)
(* offers and variants are created, imported, edited, priced, published and    *)
(* archived, and a sweep announces the discounts that have begun.             *)
(***************************************************************************)
EXTENDS Matching

CONSTANTS Identifiers, \* those a variant may be given, None among them
          ListPrices, \* base or sale prices
          Windows     \* discount windows, each named for its start

ASSUME CatalogueAssumption ==
  /\ Identifiers \subseteq CanonicalVariants \union {None} /\ "edited" \in Titles
  /\ ListPrices # {} /\ ListPrices \subseteq Nat \ {0} /\ None \notin Windows

VARIABLES listings,  \* an offer's status, and whether it was ever published
          prices,    \* a variant's list price and its discount window
          recorded,  \* the newest row of its price history
          imported,  \* [CanonicalVariants -> offer an import made for that identifier]
          images,    \* variants with a primary image
          windows,   \* "ahead", "open" or "over"
          told,      \* how often the followers were told
          notices    \* rows of discount_activation_notices

shop == <<listings, prices, recorded, imported, images, windows, told, notices>>
vars == <<catalogue, shop, transactions>>

Prices == [list : ListPrices, window : Windows \union {None}]
(* What followers are told of: a publication, a discount the sweep finds, and a    *)
(* lower price an edit sets: by a discount it turns on, or (None) otherwise.     *)
Events ==
  ({"published"} \X Offers) \union ({"sweep"} \X (Variants \X Windows)) \union ({"edit"} \X (Variants \X (Windows \union {None})))
Unlisted == [status |-> "none", published |-> FALSE]
Made(v) == variants[v].offer # None
VariantsOf(o) == {v \in Variants : variants[v].offer = o}

CatalogueInit ==
  /\ Init
  /\ listings = [o \in Offers |-> IF VariantsOf(o) = {} THEN Unlisted ELSE [status |-> "DRAFT", published |-> FALSE]]
  /\ prices = [v \in Variants |-> [list |-> CHOOSE p \in ListPrices : TRUE, window |-> None]] /\ recorded = prices
  /\ imported = [c \in CanonicalVariants |-> None] /\ images = {v \in Variants : Made(v)}
  /\ windows = [w \in Windows |-> "ahead"] /\ told = [e \in Events |-> 0] /\ notices = {}

(***************************************************************************)
(* Offers                                                                   *)
(***************************************************************************)
\* Slip: the offer row is not locked.
OfferUnlocked(o) == {}
OfferRow(o) == {OfferLock(o)}

Listed(o, status) == listings' = [listings EXCEPT ![o].status = status]

CreateOffer(o) ==
  /\ Writes({}) /\ listings[o].status = "none" /\ Listed(o, "DRAFT")
  /\ UNCHANGED <<catalogue, prices, recorded, imported, images, windows, told, notices>>

(* updateOffer(): titles stay editable after a match; every edit searches        *)
(* again for the variants without one.                                       *)
UpdateOffer(r, o) ==
  /\ listings[o].status # "none" /\ Begins(r, [op |-> "edit", offer |-> o], {OfferLock(o)}) /\ UNCHANGED <<catalogue, shop>>
OfferUpdated(r) ==
  LET o == running[r].offer
  IN /\ Commits(r, "edit") /\ offers' = [offers EXCEPT ![o].title = "edited"]
     /\ candidates' = Searched({v \in VariantsOf(o) : variants[v].proposal \in {"NONE", "REJECTED"}})
     /\ UNCHANGED <<products, canonical, variants, renames, shop>>

(* assertPublishGate(); the available stock is that of module BranchStock.       *)
Publishable(o) == VariantsOf(o) \intersect images # {}

(* updateStatus(), archive() and restore().                                    *)
UpdateStatus(r, o, to) ==
  /\ \/ to \in {"ACTIVE", "INACTIVE", "DRAFT"} /\ listings[o].status \notin {"none", "ARCHIVED"}
     \/ to = "ARCHIVED" /\ listings[o].status \in {"ACTIVE", "INACTIVE"}
     \/ to = "DRAFT" /\ listings[o].status = "ARCHIVED"
  /\ to = "ACTIVE" => Publishable(o)
  /\ Begins(r, [op |-> "status", offer |-> o, to |-> to, first |-> to = "ACTIVE" /\ ~listings[o].published], OfferRow(o))
  /\ UNCHANGED <<catalogue, shop>>
StatusUpdated(r) ==
  LET q == running[r]
  IN /\ Commits(r, "status")
     /\ listings' = [listings EXCEPT ![q.offer] = [status |-> q.to, published |-> @.published \/ q.first]]
     /\ told' = [told EXCEPT ![<<"published", q.offer>>] = @ + IF q.first THEN 1 ELSE 0]
     /\ UNCHANGED <<catalogue, prices, recorded, imported, images, windows, notices>>

(***************************************************************************)
(* Variants and prices                                                      *)
(***************************************************************************)
\* Slip: the variant row is not locked.
VariantUnlocked(v) == {}
VariantRow(v) == {VariantLock(v)}

Blank == [offer |-> None, identifier |-> None, proposed |-> None, proposal |-> "NONE", match |-> None]
(* A new variant with the first row of its price history.                      *)
Creates(v, o, proposed, identifier, price) ==
  /\ variants' = [variants EXCEPT ![v] = [Blank EXCEPT !.offer = o, !.identifier = identifier, !.proposed = proposed,
                                                       !.proposal = IF proposed = None THEN "NONE" ELSE "PENDING"]]
  /\ prices' = [prices EXCEPT ![v] = price] /\ recorded' = [recorded EXCEPT ![v] = price]

(* createVariant(): the exact match is looked up before the transaction.        *)
CreateVariant(r, o, identifier, price) ==
  /\ listings[o].status # "none"
  /\ Begins(r, [op |-> "create", offer |-> o, identifier |-> identifier, proposed |-> ExactMatch(identifier), price |-> price], {})
  /\ UNCHANGED <<catalogue, shop>>
VariantCreated(r, v) ==
  LET q == running[r]
  IN /\ Commits(r, "create") /\ FreeFor(r, {OfferLock(q.offer)}) /\ ~Made(v)
     /\ Creates(v, q.offer, q.proposed, q.identifier, q.price)
     /\ UNCHANGED <<products, canonical, offers, candidates, renames, listings, imported, images, windows, told, notices>>

(* importGroup(): the offer of a row already imported, else the one that an       *)
(* import, or else any variant, has the identifier in, else a new one.         *)
Using(identifier) == {variants[v].offer : v \in {w \in Variants : Made(w) /\ variants[w].identifier = identifier}}
OffersFor(identifier) ==
  CASE identifier # None /\ imported[identifier] # None -> {imported[identifier]}
    [] identifier # None /\ Using(identifier) # {}      -> {o \in Using(identifier) : Using(identifier) = {o}}
    [] OTHER                                            -> {o \in Offers : listings[o].status = "none"}
Import(r, o, identifier, reuse) ==
  /\ IF reuse THEN o \in OffersOf({v \in Variants : Made(v)}) ELSE o \in OffersFor(identifier)
  /\ Begins(r, [op |-> "import", offer |-> o, identifier |-> identifier, reuse |-> reuse],
            IF reuse \/ identifier = None THEN {} ELSE {<<"import", identifier>>})
  /\ UNCHANGED <<catalogue, shop>>
Imported(r, v, price) ==
  LET q == running[r]
  IN /\ Commits(r, "import") /\ FreeFor(r, {OfferLock(q.offer)}) /\ ~Made(v)
     /\ Creates(v, q.offer, ExactMatch(q.identifier), q.identifier, price)
     /\ Listed(q.offer, IF listings[q.offer].status = "none" THEN "DRAFT" ELSE listings[q.offer].status)
     /\ imported' = IF q.reuse \/ q.identifier = None THEN imported ELSE [imported EXCEPT ![q.identifier] = q.offer]
     /\ UNCHANGED <<products, canonical, offers, candidates, renames, images, windows, told, notices>>

(* updateVariant(): identifier and price are kept or replaced, and a change of   *)
(* the details searches again.  A confirmed match locks the identifier.         *)
UpdateVariant(r, v, identifier, price, details) ==
  /\ Made(v) /\ (variants[v].proposal = "CONFIRMED" => identifier = variants[v].identifier)
  /\ Begins(r, [op |-> "update", variant |-> v, identifier |-> identifier, price |-> price, details |-> details,
                was |-> prices[v]], VariantRow(v))
  /\ UNCHANGED <<catalogue, shop>>

(* computeEffectivePrice(): an open window takes something off.                  *)
On(price) == price.window # None /\ windows[price.window] = "open"
Effective(price) == IF On(price) THEN price.list - 1 ELSE price.list
(* A lower price is told at once, and leaves no notice.                         *)
PriceDrop(q) == <<"edit", <<q.variant, IF On(q.price) /\ q.price.window # q.was.window THEN q.price.window ELSE None>>>>
VariantUpdated(r) ==
  LET q == running[r] v == q.variant matched == variants[v].proposal = "CONFIRMED"
  IN /\ Commits(r, "update")
     /\ prices' = [prices EXCEPT ![v] = q.price]
     /\ recorded' = IF q.price # q.was THEN [recorded EXCEPT ![v] = q.price] ELSE recorded
     /\ told' = IF Effective(q.price) < Effective(q.was) THEN [told EXCEPT ![PriceDrop(q)] = @ + 1] ELSE told
     /\ variants' = IF q.identifier # variants[v].identifier /\ ~matched
                    THEN [variants EXCEPT ![v] = Proposal(@, q.identifier)] ELSE variants
     /\ candidates' = IF q.details /\ ~matched THEN Searched({v}) ELSE candidates
     /\ UNCHANGED <<products, canonical, offers, renames, listings, imported, images, windows, notices>>

(* addVariantMedia() and removeVariantMedia(), of the primary image.            *)
AddImage(v) ==
  /\ Writes({VariantLock(v)}) /\ Made(v) /\ images' = images \union {v}
  /\ UNCHANGED <<catalogue, listings, prices, recorded, imported, windows, told, notices>>
RemoveImage(v) ==
  /\ Writes({}) /\ v \in images /\ images' = images \ {v}
  /\ UNCHANGED <<catalogue, listings, prices, recorded, imported, windows, told, notices>>

(***************************************************************************)
(* The discount sweep                                                       *)
(***************************************************************************)
WindowPasses(w) ==
  /\ windows[w] # "over" /\ windows' = [windows EXCEPT ![w] = IF @ = "ahead" THEN "open" ELSE "over"]
  /\ UNCHANGED <<catalogue, listings, prices, recorded, imported, images, told, notices, transactions>>

(* sweepOnce(): the discounts that are on, announced before or not; the batch    *)
(* limit lies above the number of variants.                                  *)
Discounted == {v \in Variants : Made(v) /\ On(prices[v])}
Sweep(r) ==
  /\ Discounted # {} /\ Begins(r, [op |-> "sweep", queue |-> {<<v, prices[v].window>> : v \in Discounted}], {})
  /\ UNCHANGED <<catalogue, shop>>

IsNew(notice) == notice \notin notices

(* tryNotifyOnce(): the event and the unique notice are one transaction.        *)
TryNotify(r) ==
  LET q == running[r]
  IN /\ q.op = "sweep"
     /\ \E notice \in q.queue :
          /\ notices' = notices \union {notice}
          /\ told' = [told EXCEPT ![<<"sweep", notice>>] = @ + IF IsNew(notice) THEN 1 ELSE 0]
          /\ running' = [running EXCEPT ![r] = IF q.queue = {notice} THEN Idle ELSE [q EXCEPT !.queue = @ \ {notice}]]
     /\ UNCHANGED <<catalogue, listings, prices, recorded, imported, images, windows, held, calls>>

Next ==
  \/ MatchingNext /\ UNCHANGED shop
  \/ \E r \in Requests, o \in Offers :
       \/ UpdateOffer(r, o) \/ \E to \in {"ACTIVE", "INACTIVE", "DRAFT", "ARCHIVED"} : UpdateStatus(r, o, to)
       \/ \E identifier \in Identifiers : \/ \E price \in Prices : CreateVariant(r, o, identifier, price)
                                          \/ \E reuse \in BOOLEAN : Import(r, o, identifier, reuse)
  \/ \E r \in Requests, v \in Variants :
       \/ VariantCreated(r, v) \/ \E price \in ListPrices : Imported(r, v, [list |-> price, window |-> None])
       \/ \E price \in Prices : UpdateVariant(r, v, variants[v].identifier, price, FALSE)
       \/ \E identifier \in Identifiers : UpdateVariant(r, v, identifier, prices[v], TRUE)
  \/ \E r \in Requests : OfferUpdated(r) \/ StatusUpdated(r) \/ VariantUpdated(r) \/ Sweep(r) \/ TryNotify(r)
  \/ \E o \in Offers : CreateOffer(o)
  \/ \E v \in Variants : AddImage(v) \/ RemoveImage(v)
  \/ \E w \in Windows : WindowPasses(w)

Spec == CatalogueInit /\ [][Next]_vars

(***************************************************************************)
(* Properties                                                               *)
(***************************************************************************)
(* The newest row of a variant's price history is its price, whichever edits    *)
(* overlap (updateVariant()).                                                *)
PricesOnRecord == \A v \in Variants : Made(v) => recorded[v] = prices[v]

(* The followers hear once of an offer's first publication, and the sweep tells   *)
(* them once of a discount, from two requests or two overlapping ticks too        *)
(* (updateStatus(), tryNotifyOnce()); what an edit tells them is excepted.       *)
ToldOnce ==
  /\ \A o \in Offers : told[<<"published", o>>] <= 1
  /\ \A notice \in Variants \X Windows : told[<<"sweep", notice>>] <= 1

(* Each discount of a variant is announced once, by the edit that sets it or by   *)
(* the sweep that finds it, "no matter how many sweep ticks pass afterward"       *)
(* (sweepOnce(), updateVariant()); the code announces one set open by both.      *)
ToldOncePerDiscount ==
  \A notice \in Variants \X Windows : told[<<"edit", notice>>] + told[<<"sweep", notice>>] <= 1

(* A product keeps the name of the first offer confirmed, of two at the same      *)
(* time as well, until a rename is approved (applyOnConfirm()); a product linked  *)
(* under the lock of another one is excepted.                                *)
NameIsFirstConfirmed ==
  [][\A p \in Products :
       products[p].name # None /\ products'[p].name # products[p].name
         => products'[p].stale \/ \E n \in Names : renames[<<p, n>>] = "PENDING" /\ renames'[<<p, n>>] = "APPROVED"]_vars
=============================================================================
