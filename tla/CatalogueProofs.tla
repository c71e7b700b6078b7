-------------------------- MODULE CatalogueProofs --------------------------
(***************************************************************************)
(* CatalogueProofs: for any products, offers, variants and concurrent       *)
(* requests, an offer follows its variants, merges end, prices are on        *)
(* record, followers hear once, and a product keeps its first name.          *)
(* The argument: two requests never hold one lock; what a request has read,  *)
(* and depends on when it commits (Fits), only a step under one of its locks *)
(* may change (Steady); so it still holds at the commit.                    *)
(***************************************************************************)
EXTENDS Catalogue, FiniteSetTheorems, TLAPS

Listing == [status : {"none", "DRAFT", "ACTIVE", "INACTIVE", "ARCHIVED"}, published : BOOLEAN]

Typed ==
  /\ products \in [Products -> Product] /\ canonical \in [CanonicalVariants -> CanonicalVariant]
  /\ offers \in [Offers -> Offer] /\ variants \in [Variants -> Variant]
  /\ candidates \in [Variants \X CanonicalVariants -> Candidate]
  /\ renames \in [Products \X Names -> {"none", "PENDING", "APPROVED", "REJECTED"}]
  /\ listings \in [Offers -> Listing] /\ prices \in [Variants -> Prices] /\ recorded \in [Variants -> Prices]
  /\ told \in [Events -> Nat] /\ DOMAIN running = Requests /\ DOMAIN held = Requests

Exclusive == \A r, s \in Requests : r # s => held[r] \intersect held[s] = {}

(* Rows refer to rows that exist.                                             *)
Known(c) == c \in CanonicalVariants /\ canonical[c].product # None
References ==
  /\ \A c \in CanonicalVariants : canonical[c].product # None => Exists(canonical[c].product)
  /\ \A o \in Offers : offers[o].product # None => Exists(offers[o].product)
  /\ \A v \in Variants : /\ variants[v].match # None => Made(v) /\ Known(variants[v].match)
                         /\ variants[v].proposal = "PENDING" => Known(variants[v].proposed)
  /\ \A v \in Variants, c \in CanonicalVariants : candidates[<<v, c>>].status # "absent" => Made(v) /\ Known(c)
  /\ \A p \in Products : /\ ~Exists(p) => products[p].name = None
                         /\ \A n \in Names : renames[<<p, n>>] # "none" => Exists(p)

ToldOfPublication == \A o \in Offers : told[<<"published", o>>] = 0 \/ (told[<<"published", o>>] = 1 /\ listings[o].published)
ToldOfNotice ==
  \A n \in Variants \X Windows : told[<<"sweep", n>>] = 0 \/ (told[<<"sweep", n>>] = 1 /\ n \in notices)

(* The offers that are not excepted, and the product a variant is matched to.      *)
Regular(v) == ~offers[variants[v].offer].stale
MatchedIn(v, p) == variants[v].match # None /\ canonical[variants[v].match].product = p

(* What a request knows, and the locks that keep it true.                      *)
FitsMatch(q, locks) ==
  /\ q.op \in {"search", "confirm_reads", "decline"} => q.variant \in Variants /\ Made(q.variant)
  /\ q.op = "confirm_reads" => q.confirm \in BOOLEAN
  /\ q.op = "decide_reads" => q.approve \in BOOLEAN
  /\ q.op \in {"decide_reads", "reject", "report_reads", "report"} =>
       /\ q.candidate \in Variants \X CanonicalVariants /\ Made(q.candidate[1]) /\ Known(q.candidate[2])
  /\ q.op \in {"report_reads", "report"} => q.reporter \in Reporters
FitsLink(q, locks) ==
  q.op \in {"confirm", "approve"} =>
    LET o == variants[q.variant].offer
    IN /\ q.variant \in Variants /\ Made(q.variant) /\ OfferLock(o) \in locks /\ q.stale \in BOOLEAN
       /\ Known(q.canonical) /\ q.product \in Products /\ Exists(q.product) /\ q.name \in Titles \union Names \union {None}
       /\ ~q.stale => /\ ProductLock(q.product) \in locks /\ canonical[q.canonical].product = q.product
                      /\ offers[o].product \in {None, q.product}
                      /\ q.name = None => products[q.product].name = None
(* The products, the offers and variants read first, and that no others but the    *)
(* excepted ones have joined them since.                                      *)
FitsMerge(q, locks) ==
  q.op = "merge" =>
    /\ {q.loser, q.survivor} \subseteq Products /\ q.loser # q.survivor
    /\ {ProductLock(q.loser), ProductLock(q.survivor)} \subseteq locks
    /\ Mergeable(q.loser) /\ Mergeable(q.survivor) /\ q.matched \subseteq Variants
    /\ \A o \in q.offers : o \in Offers /\ \E v \in q.matched : Made(v) /\ variants[v].offer = o
    /\ \A o \in q.offers : ~offers[o].stale => offers[o].product \in {q.loser, q.survivor}
    /\ \A v \in Variants : Made(v) /\ Regular(v) /\ (MatchedIn(v, q.loser) \/ MatchedIn(v, q.survivor)) => variants[v].offer \in q.offers
FitsSplit(q, locks) ==
  q.op = "split" =>
    \E p \in Products :
      /\ ProductLock(p) \in locks /\ Exists(p) /\ q.moving \subseteq CanonicalVariants /\ q.matched \subseteq Variants
      /\ \A c \in q.moving : canonical[c].product = p
      /\ \A o \in q.offers : o \in Offers /\ \E v \in q.matched : Made(v) /\ variants[v].offer = o
      /\ \A o \in q.offers : ~offers[o].stale => offers[o].product = p
      /\ \A v \in Variants : Made(v) /\ Regular(v) /\ MatchedIn(v, p) => (variants[v].match \in q.moving <=> variants[v].offer \in q.offers)
FitsProduct(q, locks) ==
  /\ q.op = "transition" =>
       /\ q.product \in Products /\ ProductLock(q.product) \in locks /\ Mergeable(q.product)
       /\ q.to \in {"DRAFT", "PENDING_REVIEW", "PUBLISHED", "ARCHIVED"}
  /\ q.op = "rename" =>
       /\ q.product \in Products /\ q.name \in Names /\ q.approve \in BOOLEAN /\ ProductLock(q.product) \in locks
       /\ renames[<<q.product, q.name>>] = "PENDING"
FitsShop(q, locks) ==
  /\ q.op \in {"edit", "status", "create", "import"} => q.offer \in Offers
  /\ q.op = "status" =>
       /\ OfferLock(q.offer) \in locks /\ q.to \in {"ACTIVE", "INACTIVE", "DRAFT", "ARCHIVED"} /\ q.first \in BOOLEAN
       /\ q.first => ~listings[q.offer].published
  /\ q.op \in {"create", "import", "update"} => q.identifier \in CanonicalVariants \union {None}
  /\ q.op = "create" => q.price \in Prices /\ (q.proposed = None \/ Known(q.proposed))
  /\ q.op = "import" => q.reuse \in BOOLEAN
  /\ q.op = "update" =>
       /\ q.variant \in Variants /\ Made(q.variant) /\ VariantLock(q.variant) \in locks /\ q.price \in Prices
       /\ q.details \in BOOLEAN /\ q.was = prices[q.variant]
  /\ q.op = "sweep" => q.queue \subseteq Variants \X Windows
Fits(q, locks) ==
  /\ FitsMatch(q, locks) /\ FitsLink(q, locks) /\ FitsMerge(q, locks) /\ FitsSplit(q, locks)
  /\ FitsProduct(q, locks) /\ FitsShop(q, locks)

States == References /\ OfferFollowsItsVariants /\ MergesEnd /\ PricesOnRecord /\ ToldOfPublication /\ ToldOfNotice
Inv == Typed /\ Exclusive /\ States /\ \A r \in Requests : Fits(running[r], held[r])

----------------------------------------------------------------------------
(* What a step under the locks L leaves to the others.                         *)
SteadyProducts(L) ==
  \A p \in Products : Exists(p) =>
    /\ Exists(p)'
    /\ ProductLock(p) \notin L =>
         /\ products'[p].status = products[p].status /\ products'[p].name = products[p].name
         /\ \A n \in Names : renames'[<<p, n>>] = renames[<<p, n>>]
         /\ \A c \in CanonicalVariants : canonical'[c].product = p <=> canonical[c].product = p
SteadyOffers(L) ==
  \A o \in Offers :
    /\ offers[o].stale => offers'[o].stale
    /\ OfferLock(o) \notin L => offers'[o].product = offers[o].product /\ listings'[o].published = listings[o].published
    /\ offers[o].product # None /\ ProductLock(offers[o].product) \notin L /\ ~offers'[o].stale
         => offers'[o].product = offers[o].product
SteadyVariants(L) ==
  /\ \A c \in CanonicalVariants : Known(c) => Known(c)'
  /\ \A v \in Variants :
       /\ Made(v) => variants'[v].offer = variants[v].offer /\ (VariantLock(v) \notin L => prices'[v] = prices[v])
       /\ \A p \in Products :
            Exists(p) /\ ProductLock(p) \notin L /\ Made(v)' /\ Regular(v)' /\ MatchedIn(v, p)'
              => Made(v) /\ MatchedIn(v, p) /\ variants[v].match = variants'[v].match
Steady(L) == SteadyProducts(L) /\ SteadyOffers(L) /\ SteadyVariants(L)

LEMMA SteadyMore ==
  ASSUME NEW L, NEW M, L \subseteq M, Steady(L) PROVE Steady(M)
<1>1. SteadyProducts(M)
  BY DEF Steady, SteadyProducts
<1>2. SteadyOffers(M)
  BY DEF Steady, SteadyOffers
<1>3. SteadyVariants(M)
  BY DEF Steady, SteadyVariants
<1> QED BY <1>1, <1>2, <1>3 DEF Steady

(* The offer and the match of a variant that exists.                           *)
LEMMA MadeHasOffer ==
  ASSUME Typed, NEW v \in Variants, Made(v) PROVE variants[v].offer \in Offers
BY DEF Typed, Made, Variant

LEMMA MadeStays ==
  ASSUME Typed, NEW L, Steady(L), NEW v \in Variants, Made(v) PROVE Made(v)'
BY DEF Steady, SteadyVariants, Made

(* A variant an offer is known by stays so.                                    *)
LEMMA OffersStay ==
  ASSUME Typed, NEW L, Steady(L), NEW vs \in SUBSET Variants, NEW os,
         \A o \in os : o \in Offers /\ \E v \in vs : Made(v) /\ variants[v].offer = o
  PROVE  \A o \in os : o \in Offers /\ \E v \in vs : Made(v)' /\ variants'[v].offer = o
<1> TAKE o \in os
<1>1. PICK v \in vs : Made(v) /\ variants[v].offer = o
  OBVIOUS
<1>2. Made(v)' /\ variants'[v].offer = o
  BY <1>1 DEF Steady, SteadyVariants, Made
<1> QED BY <1>2

(* Backwards: a regular variant matched to a product nobody touched was so.      *)
LEMMA MatchWas ==
  ASSUME Typed, NEW L, Steady(L), NEW p \in Products, Exists(p), ProductLock(p) \notin L,
         NEW v \in Variants, Made(v)', Regular(v)', MatchedIn(v, p)'
  PROVE  /\ Made(v) /\ Regular(v) /\ MatchedIn(v, p)
         /\ variants'[v].match = variants[v].match /\ variants'[v].offer = variants[v].offer
<1>1. Made(v) /\ MatchedIn(v, p) /\ variants[v].match = variants'[v].match
  BY DEF Steady, SteadyVariants
<1>2. variants[v].offer \in Offers /\ variants'[v].offer = variants[v].offer
  BY <1>1, MadeHasOffer DEF Steady, SteadyVariants
<1>3. Regular(v)
  BY <1>2 DEF Steady, SteadyOffers, Regular
<1> QED BY <1>1, <1>2, <1>3

LEMMA FitsMatchStays ==
  ASSUME Typed, NEW L, Steady(L), NEW q, NEW locks, locks \intersect L = {}, FitsMatch(q, locks)
  PROVE  FitsMatch(q, locks)'
<1>1. \A v \in Variants : Made(v) => Made(v)'
  BY MadeStays
<1>2. \A c : Known(c) => Known(c)'
  BY DEF Steady, SteadyVariants, Known
<1>3. q.candidate \in Variants \X CanonicalVariants => q.candidate[1] \in Variants
  OBVIOUS
<1> QED BY <1>1, <1>2, <1>3 DEF FitsMatch

LEMMA FitsLinkStays ==
  ASSUME Typed, NEW L, Steady(L), NEW q, NEW locks, locks \intersect L = {}, FitsLink(q, locks)
  PROVE  FitsLink(q, locks)'
<1> SUFFICES ASSUME q.op \in {"confirm", "approve"} PROVE FitsLink(q, locks)'
  BY DEF FitsLink
<1> PICK o, v : v = q.variant /\ o = variants[v].offer
  OBVIOUS
<1>1. v \in Variants /\ Made(v) /\ o \in Offers /\ OfferLock(o) \notin L /\ OfferLock(o) \in locks
  BY MadeHasOffer DEF FitsLink
<1>2. Made(v)' /\ variants'[v].offer = o
  BY <1>1, MadeStays DEF Steady, SteadyVariants
<1>3. Known(q.canonical)' /\ Known(q.canonical)
  BY DEF Steady, SteadyVariants, FitsLink, Known
<1>4. q.product \in Products /\ Exists(q.product) /\ Exists(q.product)'
  BY DEF Steady, SteadyProducts, FitsLink
<1>5. ASSUME ~q.stale
      PROVE  /\ ProductLock(q.product) \in locks /\ canonical'[q.canonical].product = q.product
             /\ offers'[o].product \in {None, q.product} /\ (q.name = None => products'[q.product].name = None)
  <2>1. ProductLock(q.product) \in locks /\ ProductLock(q.product) \notin L
    BY <1>5 DEF FitsLink
  <2>2. offers'[o].product = offers[o].product
    BY <1>1 DEF Steady, SteadyOffers
  <2>3. canonical'[q.canonical].product = q.product
    BY <1>3, <1>4, <1>5, <2>1 DEF Steady, SteadyProducts, FitsLink, Known
  <2>4. q.name = None => products'[q.product].name = None
    BY <1>4, <1>5, <2>1 DEF Steady, SteadyProducts, FitsLink
  <2>5. offers[o].product \in {None, q.product}
    BY <1>5 DEF FitsLink
  <2> QED BY <2>1, <2>2, <2>3, <2>4, <2>5
<1>6. q.stale \in BOOLEAN /\ q.name \in Titles \union Names \union {None}
  BY DEF FitsLink
<1> QED BY <1>1, <1>2, <1>3, <1>4, <1>5, <1>6 DEF FitsLink

LEMMA FitsMergeStays ==
  ASSUME Typed, References, NEW L, Steady(L), NEW q, NEW locks, locks \intersect L = {}, FitsMerge(q, locks)
  PROVE  FitsMerge(q, locks)'
<1> SUFFICES ASSUME q.op = "merge" PROVE FitsMerge(q, locks)'
  BY DEF FitsMerge
<1>1. /\ {q.loser, q.survivor} \subseteq Products /\ q.loser # q.survivor /\ Mergeable(q.loser) /\ Mergeable(q.survivor)
      /\ {ProductLock(q.loser), ProductLock(q.survivor)} \subseteq locks /\ q.matched \subseteq Variants
  BY DEF FitsMerge
<1>2. ProductLock(q.loser) \notin L /\ ProductLock(q.survivor) \notin L /\ Exists(q.loser) /\ Exists(q.survivor)
  BY <1>1 DEF Mergeable, Exists
<1>3. Mergeable(q.loser)' /\ Mergeable(q.survivor)'
  BY <1>1, <1>2 DEF Steady, SteadyProducts, Mergeable
<1>4. \A o \in q.offers : o \in Offers /\ \E v \in q.matched : Made(v)' /\ variants'[v].offer = o
  <2>1. \A o \in q.offers : o \in Offers /\ \E v \in q.matched : Made(v) /\ variants[v].offer = o
    BY DEF FitsMerge
  <2> QED BY <1>1, <2>1, OffersStay
<1>5. ASSUME NEW o \in q.offers, ~offers'[o].stale PROVE offers'[o].product \in {q.loser, q.survivor}
  <2>1. o \in Offers /\ ~offers[o].stale
    BY <1>4, <1>5 DEF Steady, SteadyOffers
  <2>2. offers[o].product \in {q.loser, q.survivor}
    BY <2>1 DEF FitsMerge
  <2>3. offers[o].product # None
    BY <1>1, <2>2, MatchingAssumption
  <2> QED BY <1>2, <1>5, <2>1, <2>2, <2>3 DEF Steady, SteadyOffers
<1>6. ASSUME NEW v \in Variants, Made(v)', Regular(v)', MatchedIn(v, q.loser)' \/ MatchedIn(v, q.survivor)'
      PROVE  variants'[v].offer \in q.offers
  <2>1. /\ Made(v) /\ Regular(v) /\ variants'[v].offer = variants[v].offer
        /\ MatchedIn(v, q.loser) \/ MatchedIn(v, q.survivor)
    <3>1. CASE MatchedIn(v, q.loser)'
      BY <1>1, <1>2, <1>6, <3>1, MatchWas
    <3>2. CASE MatchedIn(v, q.survivor)'
      BY <1>1, <1>2, <1>6, <3>2, MatchWas
    <3> QED BY <1>6, <3>1, <3>2
  <2>2. variants[v].offer \in q.offers
    BY <2>1 DEF FitsMerge
  <2> QED BY <2>1, <2>2
<1> QED BY <1>1, <1>3, <1>4, <1>5, <1>6 DEF FitsMerge

LEMMA FitsSplitStays ==
  ASSUME Typed, References, NEW L, Steady(L), NEW q, NEW locks, locks \intersect L = {}, FitsSplit(q, locks)
  PROVE  FitsSplit(q, locks)'
<1> SUFFICES ASSUME q.op = "split" PROVE FitsSplit(q, locks)'
  BY DEF FitsSplit
<1>0. PICK p \in Products :
      /\ ProductLock(p) \in locks /\ Exists(p) /\ q.moving \subseteq CanonicalVariants /\ q.matched \subseteq Variants
      /\ \A c \in q.moving : canonical[c].product = p
      /\ \A o \in q.offers : o \in Offers /\ \E v \in q.matched : Made(v) /\ variants[v].offer = o
      /\ \A o \in q.offers : ~offers[o].stale => offers[o].product = p
      /\ \A v \in Variants : Made(v) /\ Regular(v) /\ MatchedIn(v, p) => (variants[v].match \in q.moving <=> variants[v].offer \in q.offers)
  BY DEF FitsSplit
<1>1. ProductLock(p) \notin L /\ p # None
  BY <1>0, MatchingAssumption
<1>2. Exists(p)' /\ \A c \in q.moving : canonical'[c].product = p
  BY <1>0, <1>1 DEF Steady, SteadyProducts
<1>3. \A o \in q.offers : o \in Offers /\ \E v \in q.matched : Made(v)' /\ variants'[v].offer = o
  BY <1>0, OffersStay
<1>4. ASSUME NEW o \in q.offers, ~offers'[o].stale PROVE offers'[o].product = p
  <2>1. o \in Offers /\ ~offers[o].stale
    BY <1>3, <1>4 DEF Steady, SteadyOffers
  <2>2. offers[o].product = p
    BY <1>0, <2>1
  <2> QED BY <1>1, <1>4, <2>1, <2>2 DEF Steady, SteadyOffers
<1>5. ASSUME NEW v \in Variants, Made(v)', Regular(v)', MatchedIn(v, p)'
      PROVE  variants'[v].match \in q.moving <=> variants'[v].offer \in q.offers
  <2>1. Made(v) /\ Regular(v) /\ MatchedIn(v, p) /\ variants'[v].match = variants[v].match /\ variants'[v].offer = variants[v].offer
    BY <1>0, <1>1, <1>5, MatchWas
  <2> QED BY <1>0, <2>1
<1> QED BY <1>0, <1>2, <1>3, <1>4, <1>5 DEF FitsSplit

LEMMA FitsProductStays ==
  ASSUME Typed, References, NEW L, Steady(L), NEW q, NEW locks, locks \intersect L = {}, FitsProduct(q, locks)
  PROVE  FitsProduct(q, locks)'
<1>1. CASE q.op = "transition"
  BY <1>1 DEF FitsProduct, Steady, SteadyProducts, Mergeable, Exists
<1>2. CASE q.op = "rename"
  <2>1. q.product \in Products /\ q.name \in Names /\ q.approve \in BOOLEAN /\ renames[<<q.product, q.name>>] = "PENDING"
        /\ ProductLock(q.product) \in locks
    BY <1>2 DEF FitsProduct
  <2>2. Exists(q.product) /\ ProductLock(q.product) \notin L
    BY <2>1 DEF References
  <2>3. renames'[<<q.product, q.name>>] = "PENDING"
    BY <2>1, <2>2 DEF Steady, SteadyProducts
  <2> QED BY <1>2, <2>1, <2>3 DEF FitsProduct
<1> QED BY <1>1, <1>2 DEF FitsProduct

LEMMA FitsShopStays ==
  ASSUME Typed, NEW L, Steady(L), NEW q, NEW locks, locks \intersect L = {}, FitsShop(q, locks)
  PROVE  FitsShop(q, locks)'
<1>1. q.op = "status" => OfferLock(q.offer) \notin L /\ (q.first => ~listings'[q.offer].published)
  BY DEF FitsShop, Steady, SteadyOffers
<1>2. q.op = "update" => Made(q.variant)' /\ prices'[q.variant] = prices[q.variant]
  BY MadeStays DEF FitsShop, Steady, SteadyVariants
<1>3. Known(q.proposed) => Known(q.proposed)'
  BY DEF Steady, SteadyVariants, Known
<1> QED BY <1>1, <1>2, <1>3 DEF FitsShop

LEMMA FitsStays ==
  ASSUME Typed, References, NEW L, Steady(L), NEW q, NEW locks, locks \intersect L = {}, Fits(q, locks)
  PROVE  Fits(q, locks)'
BY FitsMatchStays, FitsLinkStays, FitsMergeStays, FitsSplitStays, FitsProductStays, FitsShopStays DEF Fits

LEMMA CatalogueUnmoved ==
  ASSUME Inv, UNCHANGED <<catalogue, listings, prices>> PROVE Steady({}) /\ References' /\ OfferFollowsItsVariants' /\ MergesEnd'
<1>1. /\ products' = products /\ canonical' = canonical /\ offers' = offers /\ variants' = variants
      /\ candidates' = candidates /\ renames' = renames /\ listings' = listings /\ prices' = prices
  BY DEF catalogue
<1>2. Steady({})
  BY <1>1 DEF Steady, SteadyProducts, SteadyOffers, SteadyVariants, Exists, Known, Made, Regular, MatchedIn
<1>3. References'
  BY <1>1 DEF Inv, States, References, Exists, Known, Made
<1> QED BY <1>1, <1>2, <1>3 DEF Inv, States, OfferFollowsItsVariants, MergesEnd

(* A request that fits begins, or goes on with other locks.                     *)
LEMMA Begin ==
  ASSUME Inv, NEW r \in Requests, NEW q, NEW locks, Runs(r, q, locks), FreeFor(r, locks), Fits(q, locks),
         UNCHANGED <<catalogue, shop>>
  PROVE  Inv'
<1>1. /\ running'[r] = q /\ held'[r] = locks /\ DOMAIN running' = Requests /\ DOMAIN held' = Requests
      /\ \A s \in Requests \ {r} : running'[s] = running[s] /\ held'[s] = held[s]
  BY DEF Runs, Inv, Typed
<1>2. Typed'
  BY <1>1 DEF Inv, Typed, catalogue, shop
<1>3. Steady({}) /\ References' /\ OfferFollowsItsVariants' /\ MergesEnd'
  BY CatalogueUnmoved DEF shop
<1>4. PricesOnRecord' /\ ToldOfPublication' /\ ToldOfNotice'
  BY DEF Inv, States, PricesOnRecord, ToldOfPublication, ToldOfNotice, Made, catalogue, shop
<1>5. Exclusive'
  BY <1>1 DEF Inv, Exclusive, FreeFor
<1>6. ASSUME NEW s \in Requests PROVE Fits(running[s], held[s])'
  <2>1. PICK x, l : x = running'[s] /\ l = held'[s]
    OBVIOUS
  <2>2. Fits(x, l)
    BY <1>1, <2>1 DEF Inv
  <2>3. Fits(x, l)'
    BY <1>3, <2>2, FitsStays DEF Inv, States
  <2> QED BY <2>1, <2>3
<1> QED BY <1>2, <1>3, <1>4, <1>5, <1>6 DEF Inv, States

LEMMA BeginsRuns ==
  ASSUME NEW r \in Requests, NEW q, NEW locks, Begins(r, q, locks) PROVE Runs(r, q, locks) /\ FreeFor(r, locks)
BY DEF Begins, Free, FreeFor

LEMMA IdleFits == ASSUME NEW locks PROVE Fits(Idle, locks) /\ Fits(Idle, locks)'
BY DEF Fits, FitsMatch, FitsLink, FitsMerge, FitsSplit, FitsProduct, FitsShop, Idle

(* A request that holds the locks of what it changes, or finds them free, ends.    *)
LEMMA End ==
  ASSUME Inv, NEW r \in Requests, Runs(r, Idle, {}), Typed', States', NEW L, FreeFor(r, L), Steady(held[r] \union L)
  PROVE  Inv'
<1>1. /\ running'[r] = Idle /\ held'[r] = {}
      /\ \A s \in Requests \ {r} : running'[s] = running[s] /\ held'[s] = held[s]
  BY DEF Runs, Inv, Typed
<1>2. Exclusive'
  BY <1>1 DEF Inv, Exclusive
<1>3. ASSUME NEW s \in Requests PROVE Fits(running[s], held[s])'
  <2>1. CASE s = r
    BY <1>1, <2>1, IdleFits
  <2>2. CASE s # r
    <3>1. PICK x, l : x = running[s] /\ l = held[s]
      OBVIOUS
    <3>2. Fits(x, l) /\ l \intersect (held[r] \union L) = {}
      BY <2>2, <3>1 DEF Inv, Exclusive, FreeFor
    <3>3. Fits(x, l)'
      BY <3>2, FitsStays DEF Inv, States
    <3> QED BY <1>1, <2>2, <3>1, <3>3
  <2> QED BY <2>1, <2>2
<1> QED BY <1>2, <1>3 DEF Inv

(* A statement of its own, or a clock, changes what nobody holds.              *)
LEMMA Aside ==
  ASSUME Inv, NEW L, Free(L), UNCHANGED <<running, held>>, Typed', States', Steady(L)
  PROVE  Inv'
<1>1. ASSUME NEW s \in Requests PROVE Fits(running[s], held[s])'
  <2>1. PICK x, l : x = running[s] /\ l = held[s]
    OBVIOUS
  <2>2. Fits(x, l) /\ l \intersect L = {}
    BY <2>1 DEF Inv, Free
  <2>3. Fits(x, l)'
    BY <2>2, FitsStays DEF Inv, States
  <2> QED BY <2>1, <2>3
<1> QED BY <1>1 DEF Inv, Exclusive

(* Every request begins with what Fits says it knows.                          *)
LEMMA SearchBegins ==
  ASSUME Inv, NEW r \in Requests, NEW v \in Variants, Search(r, v), UNCHANGED shop PROVE Inv'
<1>1. PICK q : q = [op |-> "search", variant |-> v]
  OBVIOUS
<1>2. PICK locks : locks = {}
  OBVIOUS
<1>3. Begins(r, q, locks) /\ UNCHANGED <<catalogue, shop>>
  BY <1>1, <1>2 DEF Search
<1>4. Fits(q, locks)
  BY <1>1, <1>2 DEF Fits, FitsMatch, FitsLink, FitsMerge, FitsSplit, FitsProduct, FitsShop, Search, Made
<1> QED BY <1>3, <1>4, BeginsRuns, Begin

LEMMA ConfirmReadsBegins ==
  ASSUME Inv, NEW r \in Requests, NEW v \in Variants, NEW confirm \in BOOLEAN, ConfirmReads(r, v, confirm), UNCHANGED shop PROVE Inv'
<1>1. PICK q : q = [op |-> "confirm_reads", variant |-> v, confirm |-> confirm,
                    target |-> IF confirm THEN Target(variants[v].proposed) ELSE None]
  OBVIOUS
<1>2. PICK locks : locks = {}
  OBVIOUS
<1>3. Begins(r, q, locks) /\ UNCHANGED <<catalogue, shop>>
  BY <1>1, <1>2 DEF ConfirmReads
<1>4. Fits(q, locks)
  BY <1>1, <1>2 DEF Fits, FitsMatch, FitsLink, FitsMerge, FitsSplit, FitsProduct, FitsShop, ConfirmReads, Made
<1> QED BY <1>3, <1>4, BeginsRuns, Begin

LEMMA DecideReadsBegins ==
  ASSUME Inv, NEW r \in Requests, NEW k \in DOMAIN candidates, NEW approve \in BOOLEAN, DecideReads(r, k, approve), UNCHANGED shop PROVE Inv'
<1>1. PICK q : q = [op |-> "decide_reads", candidate |-> k, approve |-> approve,
                    target |-> IF approve THEN Target(k[2]) ELSE None]
  OBVIOUS
<1>2. PICK locks : locks = {}
  OBVIOUS
<1>3. Begins(r, q, locks) /\ UNCHANGED <<catalogue, shop>>
  BY <1>1, <1>2 DEF DecideReads
<1>4. Fits(q, locks)
  BY <1>1, <1>2 DEF Fits, FitsMatch, FitsLink, FitsMerge, FitsSplit, FitsProduct, FitsShop, DecideReads, Inv, Typed, States, References
<1> QED BY <1>3, <1>4, BeginsRuns, Begin

LEMMA ReportBegins ==
  ASSUME Inv, NEW r \in Requests, NEW v \in Variants, NEW reporter \in Reporters, Report(r, v, reporter), UNCHANGED shop PROVE Inv'
<1>1. PICK q : q = [op |-> "report_reads", candidate |-> <<v, variants[v].match>>, reporter |-> reporter,
                    exact |-> variants[v].proposal = "CONFIRMED"]
  OBVIOUS
<1>2. PICK locks : locks = {}
  OBVIOUS
<1>3. Begins(r, q, locks) /\ UNCHANGED <<catalogue, shop>>
  BY <1>1, <1>2 DEF Report
<1>4. Fits(q, locks)
  BY <1>1, <1>2 DEF Fits, FitsMatch, FitsLink, FitsMerge, FitsSplit, FitsProduct, FitsShop, Report, Inv, States, References, Known
<1> QED BY <1>3, <1>4, BeginsRuns, Begin

LEMMA TransitionBegins ==
  ASSUME Inv, NEW r \in Requests, NEW p \in Products, NEW to, Transition(r, p, to), UNCHANGED shop PROVE Inv'
<1>1. PICK q : q = [op |-> "transition", product |-> p, to |-> to]
  OBVIOUS
<1>2. PICK locks : locks = TransitionLocks(p)
  OBVIOUS
<1>3. Begins(r, q, locks) /\ UNCHANGED <<catalogue, shop>>
  BY <1>1, <1>2 DEF Transition
<1>4. Fits(q, locks)
  BY <1>1, <1>2 DEF Fits, FitsMatch, FitsLink, FitsMerge, FitsSplit, FitsProduct, FitsShop, Transition, TransitionLocks, Mergeable, NextStatus, Inv, Typed, Product
<1> QED BY <1>3, <1>4, BeginsRuns, Begin

LEMMA DecideRenameBegins ==
  ASSUME Inv, NEW r \in Requests, NEW p \in Products, NEW n \in Names, NEW approve \in BOOLEAN, DecideRename(r, p, n, approve), UNCHANGED shop PROVE Inv'
<1>1. PICK q : q = [op |-> "rename", product |-> p, name |-> n, approve |-> approve]
  OBVIOUS
<1>2. PICK locks : locks = {ProductLock(p)}
  OBVIOUS
<1>3. Begins(r, q, locks) /\ UNCHANGED <<catalogue, shop>>
  BY <1>1, <1>2 DEF DecideRename
<1>4. Fits(q, locks)
  BY <1>1, <1>2 DEF Fits, FitsMatch, FitsLink, FitsMerge, FitsSplit, FitsProduct, FitsShop, DecideRename
<1> QED BY <1>3, <1>4, BeginsRuns, Begin

LEMMA UpdateOfferBegins ==
  ASSUME Inv, NEW r \in Requests, NEW o \in Offers, UpdateOffer(r, o) PROVE Inv'
<1>1. PICK q : q = [op |-> "edit", offer |-> o]
  OBVIOUS
<1>2. PICK locks : locks = {OfferLock(o)}
  OBVIOUS
<1>3. Begins(r, q, locks) /\ UNCHANGED <<catalogue, shop>>
  BY <1>1, <1>2 DEF UpdateOffer
<1>4. Fits(q, locks)
  BY <1>1, <1>2 DEF Fits, FitsMatch, FitsLink, FitsMerge, FitsSplit, FitsProduct, FitsShop, UpdateOffer
<1> QED BY <1>3, <1>4, BeginsRuns, Begin

LEMMA UpdateStatusBegins ==
  ASSUME Inv, NEW r \in Requests, NEW o \in Offers, NEW to \in {"ACTIVE", "INACTIVE", "DRAFT", "ARCHIVED"}, UpdateStatus(r, o, to) PROVE Inv'
<1>1. PICK q : q = [op |-> "status", offer |-> o, to |-> to,
                    first |-> to = "ACTIVE" /\ ~listings[o].published]
  OBVIOUS
<1>2. PICK locks : locks = OfferRow(o)
  OBVIOUS
<1>3. Begins(r, q, locks) /\ UNCHANGED <<catalogue, shop>>
  BY <1>1, <1>2 DEF UpdateStatus
<1>4. Fits(q, locks)
  BY <1>1, <1>2 DEF Fits, FitsMatch, FitsLink, FitsMerge, FitsSplit, FitsProduct, FitsShop, UpdateStatus, OfferRow
<1> QED BY <1>3, <1>4, BeginsRuns, Begin

LEMMA CreateVariantBegins ==
  ASSUME Inv, NEW r \in Requests, NEW o \in Offers, NEW identifier \in Identifiers, NEW price \in Prices, CreateVariant(r, o, identifier, price) PROVE Inv'
<1>1. PICK q : q = [op |-> "create", offer |-> o, identifier |-> identifier,
                    proposed |-> ExactMatch(identifier), price |-> price]
  OBVIOUS
<1>2. PICK locks : locks = {}
  OBVIOUS
<1>3. Begins(r, q, locks) /\ UNCHANGED <<catalogue, shop>>
  BY <1>1, <1>2 DEF CreateVariant
<1>4. Fits(q, locks)
  BY <1>1, <1>2, CatalogueAssumption DEF Fits, FitsMatch, FitsLink, FitsMerge, FitsSplit, FitsProduct, FitsShop, CreateVariant, ExactMatch, Known, Prices
<1> QED BY <1>3, <1>4, BeginsRuns, Begin

LEMMA ImportBegins ==
  ASSUME Inv, NEW r \in Requests, NEW o \in Offers, NEW identifier \in Identifiers, NEW reuse \in BOOLEAN, Import(r, o, identifier, reuse) PROVE Inv'
<1>1. PICK q : q = [op |-> "import", offer |-> o, identifier |-> identifier, reuse |-> reuse]
  OBVIOUS
<1>2. PICK locks : locks = IF reuse \/ identifier = None THEN {} ELSE {<<"import", identifier>>}
  OBVIOUS
<1>3. Begins(r, q, locks) /\ UNCHANGED <<catalogue, shop>>
  BY <1>1, <1>2 DEF Import
<1>4. Fits(q, locks)
  BY <1>1, <1>2, CatalogueAssumption DEF Fits, FitsMatch, FitsLink, FitsMerge, FitsSplit, FitsProduct, FitsShop, Import
<1> QED BY <1>3, <1>4, BeginsRuns, Begin

LEMMA UpdateVariantBegins ==
  ASSUME Inv, NEW r \in Requests, NEW v \in Variants, NEW identifier \in CanonicalVariants \union {None}, NEW price \in Prices, NEW details \in BOOLEAN,
         UpdateVariant(r, v, identifier, price, details) PROVE Inv'
<1>1. PICK q : q = [op |-> "update", variant |-> v, identifier |-> identifier, price |-> price, details |-> details,
                    was |-> prices[v]]
  OBVIOUS
<1>2. PICK locks : locks = VariantRow(v)
  OBVIOUS
<1>3. Begins(r, q, locks) /\ UNCHANGED <<catalogue, shop>>
  BY <1>1, <1>2 DEF UpdateVariant
<1>4. Fits(q, locks)
  BY <1>1, <1>2 DEF Fits, FitsMatch, FitsLink, FitsMerge, FitsSplit, FitsProduct, FitsShop, UpdateVariant, VariantRow
<1> QED BY <1>3, <1>4, BeginsRuns, Begin

LEMMA SweepBegins ==
  ASSUME Inv, NEW r \in Requests, Sweep(r) PROVE Inv'
<1>1. PICK q : q = [op |-> "sweep", queue |-> {<<v, prices[v].window>> : v \in Discounted}]
  OBVIOUS
<1>2. PICK locks : locks = {}
  OBVIOUS
<1>3. Begins(r, q, locks) /\ UNCHANGED <<catalogue, shop>>
  BY <1>1, <1>2 DEF Sweep
<1>4. \A v \in Discounted : v \in Variants /\ prices[v].window \in Windows
  BY DEF Discounted, On, Inv, Typed, Prices
<1>5. q.op = "sweep" /\ q.queue \subseteq Variants \X Windows
  BY <1>1, <1>4
<1>6. Fits(q, locks)
  BY <1>1, <1>5 DEF Fits, FitsMatch, FitsLink, FitsMerge, FitsSplit, FitsProduct, FitsShop
<1> QED BY <1>3, <1>6, BeginsRuns, Begin

LEMMA MatchedOffers ==
  ASSUME Inv, NEW cs \in SUBSET CanonicalVariants
  PROVE  \A o \in OffersOf(MatchedTo(cs)) :
           /\ o \in Offers /\ \E v \in MatchedTo(cs) : Made(v) /\ variants[v].offer = o
           /\ ~offers[o].stale => \E c \in cs : offers[o].product = canonical[c].product
<1> TAKE o \in OffersOf(MatchedTo(cs))
<1>1. PICK v \in MatchedTo(cs) : variants[v].offer = o
  BY DEF OffersOf
<1>2. v \in Variants /\ variants[v].match \in cs /\ variants[v].match # None
  BY <1>1, MatchingAssumption DEF MatchedTo
<1>3. Made(v)
  BY <1>2 DEF Inv, States, References
<1>4. o \in Offers
  BY <1>1, <1>2, <1>3, MadeHasOffer DEF Inv
<1>5. ~offers[o].stale => offers[o].product = canonical[variants[v].match].product
  BY <1>1, <1>2 DEF Inv, States, OfferFollowsItsVariants
<1> QED BY <1>1, <1>2, <1>3, <1>4, <1>5

LEMMA MatchedInIsMatchedTo ==
  ASSUME Inv, NEW v \in Variants, NEW p \in Products, MatchedIn(v, p)
  PROVE  variants[v].match \in CanonicalOf(p)
BY DEF Inv, States, References, Known, MatchedIn, CanonicalOf

LEMMA MergeBegins ==
  ASSUME Inv, NEW r \in Requests, NEW loser \in Products, NEW survivor \in Products, Merge(r, loser, survivor), UNCHANGED shop
  PROVE  Inv'
<1> PICK cs : cs = CanonicalOf(loser) \union CanonicalOf(survivor)
  OBVIOUS
<1> PICK matched, leaving : matched = MatchedTo(cs) /\ leaving = OffersOf(matched)
  OBVIOUS
<1>1. PICK q : q = [op |-> "merge", loser |-> loser, survivor |-> survivor, matched |-> matched, offers |-> leaving]
  OBVIOUS
<1>2. PICK locks : locks = MergeLocks(loser, survivor)
  OBVIOUS
<1>3. Begins(r, q, locks) /\ UNCHANGED <<catalogue, shop>>
  BY <1>1, <1>2 DEF Merge
<1>4. loser # survivor /\ Mergeable(loser) /\ Mergeable(survivor) /\ cs \in SUBSET CanonicalVariants /\ matched \subseteq Variants
  BY DEF Merge, CanonicalOf, MatchedTo
<1>5. \A o \in leaving : o \in Offers /\ \E v \in matched : Made(v) /\ variants[v].offer = o
  BY <1>4, MatchedOffers
<1>6. \A o \in leaving : ~offers[o].stale => offers[o].product \in {loser, survivor}
  BY <1>4, MatchedOffers DEF CanonicalOf
<1>7. ASSUME NEW v \in Variants, MatchedIn(v, loser) \/ MatchedIn(v, survivor) PROVE variants[v].offer \in leaving
  <2>1. variants[v].match \in cs
    BY <1>7, MatchedInIsMatchedTo
  <2> QED BY <2>1 DEF MatchedTo, OffersOf
<1>8. FitsMerge(q, locks)
  <2>1. q.loser = loser /\ q.survivor = survivor /\ q.matched = matched /\ q.offers = leaving
    BY <1>1
  <2> QED BY <1>2, <1>4, <1>5, <1>6, <1>7, <2>1 DEF FitsMerge, MergeLocks
<1>9. Fits(q, locks)
  BY <1>1, <1>8 DEF Fits, FitsMatch, FitsLink, FitsSplit, FitsProduct, FitsShop
<1> QED BY <1>3, <1>9, BeginsRuns, Begin

LEMMA SplitBegins ==
  ASSUME Inv, NEW r \in Requests, NEW p \in Products, NEW moving \in SUBSET CanonicalOf(p), Split(r, p, moving), UNCHANGED shop
  PROVE  Inv'
<1> PICK matched, leaving : matched = MatchedTo(CanonicalOf(p)) /\ leaving = OffersOf(MatchedTo(moving))
  OBVIOUS
<1>1. PICK q : q = [op |-> "split", moving |-> moving, matched |-> matched, offers |-> leaving]
  OBVIOUS
<1>2. PICK locks : locks = {ProductLock(p)}
  OBVIOUS
<1>3. Begins(r, q, locks) /\ UNCHANGED <<catalogue, shop>>
  BY <1>1, <1>2 DEF Split
<1>4. /\ Exists(p) /\ moving \subseteq CanonicalVariants /\ matched \subseteq Variants /\ MatchedTo(moving) \subseteq matched
      /\ \A c \in moving : canonical[c].product = p
  BY DEF Split, CanonicalOf, MatchedTo, Mergeable, Exists
<1>5. \A o \in leaving : o \in Offers /\ \E v \in matched : Made(v) /\ variants[v].offer = o
  BY <1>4, MatchedOffers
<1>6. \A o \in leaving : ~offers[o].stale => offers[o].product = p
  BY <1>4, MatchedOffers
<1>7. ASSUME NEW v \in Variants, MatchedIn(v, p)
      PROVE  variants[v].match \in moving <=> variants[v].offer \in leaving
  <2>1. variants[v].match \in CanonicalOf(p)
    BY <1>7, MatchedInIsMatchedTo
  <2>2. variants[v].match \in moving => variants[v].offer \in leaving
    BY DEF MatchedTo, OffersOf
  <2>3. variants[v].match \notin moving => variants[v].offer \in OffersOf(MatchedTo(CanonicalOf(p) \ moving))
    BY <2>1 DEF MatchedTo, OffersOf
  <2>4. leaving \intersect OffersOf(MatchedTo(CanonicalOf(p) \ moving)) = {}
    BY DEF Split
  <2> QED BY <2>2, <2>3, <2>4
<1>8. FitsSplit(q, locks)
  <2>1. q.moving = moving /\ q.matched = matched /\ q.offers = leaving
    BY <1>1
  <2> QED BY <1>2, <1>4, <1>5, <1>6, <1>7, <2>1 DEF FitsSplit
<1>9. Fits(q, locks)
  BY <1>1, <1>8 DEF Fits, FitsMatch, FitsLink, FitsMerge, FitsProduct, FitsShop
<1> QED BY <1>3, <1>9, BeginsRuns, Begin

(* What a decision reads under the locks its lookup led to.                     *)
LEMMA ReadFits ==
  ASSUME Inv, NEW op \in {"confirm", "approve"}, NEW v \in Variants, Made(v), NEW c, Known(c), NEW target, FitsOffer(v, c),
         NEW q, q = Read(op, v, c, target)
  PROVE  Fits(q, DecisionLocks(target, variants[v].offer))
<1>1. canonical[c].product \in Products /\ Exists(canonical[c].product) /\ canonical[c].product # None
  <2>1. canonical[c] \in CanonicalVariant /\ canonical[c].product # None
    BY DEF Inv, Typed, Known
  <2> QED BY <2>1 DEF Inv, States, References, Known, CanonicalVariant
<1>2. products[canonical[c].product] \in Product
  BY <1>1 DEF Inv, Typed
<1>3. products[canonical[c].product].name \in Titles \union Names \union {None}
  BY <1>2 DEF Product
<1>4. /\ q.op = op /\ q.variant = v /\ q.canonical = c /\ q.product = canonical[c].product
      /\ q.stale = (target # canonical[c].product) /\ q.name = products[canonical[c].product].name
  BY DEF Read
<1>5. OfferLock(variants[v].offer) \in DecisionLocks(target, variants[v].offer)
      /\ (~q.stale => ProductLock(q.product) \in DecisionLocks(target, variants[v].offer))
  BY <1>1, <1>4 DEF DecisionLocks
<1>6. FitsLink(q, DecisionLocks(target, variants[v].offer))
  BY <1>1, <1>3, <1>4, <1>5 DEF FitsLink, FitsOffer
<1> QED BY <1>4, <1>6 DEF Fits, FitsMatch, FitsMerge, FitsSplit, FitsProduct, FitsShop

LEMMA ConfirmGoesOn ==
  ASSUME Inv, NEW r \in Requests, ConfirmLocks(r), UNCHANGED shop PROVE Inv'
<1> PICK v, target : v = running[r].variant /\ target = running[r].target
  OBVIOUS
<1>1. running[r].op = "confirm_reads" /\ v \in Variants /\ Made(v) /\ running[r].confirm \in BOOLEAN
  BY DEF ConfirmLocks, Inv, Fits, FitsMatch
<1>2. PICK q : q = IF running[r].confirm THEN Read("confirm", v, variants[v].proposed, target) ELSE [op |-> "decline", variant |-> v]
  OBVIOUS
<1>3. PICK locks : locks = DecisionLocks(target, variants[v].offer)
  OBVIOUS
<1>4. Runs(r, q, locks) /\ FreeFor(r, locks) /\ UNCHANGED <<catalogue, shop>>
  BY <1>2, <1>3 DEF ConfirmLocks, Proceeds
<1>5. CASE running[r].confirm
  <2>1. Known(variants[v].proposed) /\ FitsOffer(v, variants[v].proposed)
    BY <1>1, <1>5 DEF ConfirmLocks, Inv, States, References
  <2>2. q = Read("confirm", v, variants[v].proposed, target)
    BY <1>2, <1>5
  <2>3. Fits(q, locks)
    BY <1>1, <1>3, <2>1, <2>2, ReadFits
  <2> QED BY <1>4, <2>3, Begin
<1>6. CASE ~running[r].confirm
  <2>1. q = [op |-> "decline", variant |-> v]
    BY <1>2, <1>6
  <2>2. Fits(q, locks)
    BY <1>1, <2>1 DEF Fits, FitsMatch, FitsLink, FitsMerge, FitsSplit, FitsProduct, FitsShop
  <2> QED BY <1>4, <2>2, Begin
<1> QED BY <1>1, <1>5, <1>6

LEMMA DecideGoesOn ==
  ASSUME Inv, NEW r \in Requests, DecideLocks(r), UNCHANGED shop PROVE Inv'
<1> PICK k, target : k = running[r].candidate /\ target = running[r].target
  OBVIOUS
<1>1. /\ running[r].op = "decide_reads" /\ k \in Variants \X CanonicalVariants /\ k[1] \in Variants
      /\ Made(k[1]) /\ Known(k[2]) /\ running[r].approve \in BOOLEAN
  BY DEF DecideLocks, Inv, Fits, FitsMatch
<1>2. PICK q : q = IF running[r].approve THEN Read("approve", k[1], k[2], target) ELSE [op |-> "reject", candidate |-> k]
  OBVIOUS
<1>3. PICK locks : locks = DecisionLocks(target, variants[k[1]].offer)
  OBVIOUS
<1>4. Runs(r, q, locks) /\ FreeFor(r, locks) /\ UNCHANGED <<catalogue, shop>>
  BY <1>2, <1>3 DEF DecideLocks, Proceeds
<1>5. CASE running[r].approve
  <2>1. FitsOffer(k[1], k[2])
    BY <1>5 DEF DecideLocks
  <2>2. q = Read("approve", k[1], k[2], target)
    BY <1>2, <1>5
  <2>3. Fits(q, locks)
    BY <1>1, <1>3, <2>1, <2>2, ReadFits
  <2> QED BY <1>4, <2>3, Begin
<1>6. CASE ~running[r].approve
  <2>1. q = [op |-> "reject", candidate |-> k]
    BY <1>2, <1>6
  <2>2. Fits(q, locks)
    BY <1>1, <2>1 DEF Fits, FitsMatch, FitsLink, FitsMerge, FitsSplit, FitsProduct, FitsShop
  <2> QED BY <1>4, <2>2, Begin
<1> QED BY <1>1, <1>5, <1>6

LEMMA ReportGoesOn ==
  ASSUME Inv, NEW r \in Requests, ReportCounts(r), UNCHANGED shop PROVE Inv'
<1> PICK k, c : k = running[r].candidate /\ c = candidates[k]
  OBVIOUS
<1> PICK requeue : requeue = (c.reports = {} /\ c.status \in {"APPROVED", "REJECTED"})
  OBVIOUS
<1>1. running[r].op = "report_reads" /\ k \in Variants \X CanonicalVariants /\ Made(k[1]) /\ Known(k[2]) /\ running[r].reporter \in Reporters
  BY DEF ReportCounts, Inv, Fits, FitsMatch
<1>2. PICK q : q = [op |-> "report", candidate |-> k, reporter |-> running[r].reporter, requeue |-> requeue]
  OBVIOUS
<1>3. Runs(r, q, ReportLocks(k)) /\ FreeFor(r, ReportLocks(k)) /\ UNCHANGED <<catalogue, shop>>
  BY <1>2 DEF ReportCounts, Proceeds
<1>4. q.op = "report" /\ q.candidate = k /\ q.reporter = running[r].reporter
  BY <1>2
<1>5. Fits(q, ReportLocks(k))
  BY <1>1, <1>4 DEF Fits, FitsMatch, FitsLink, FitsMerge, FitsSplit, FitsProduct, FitsShop
<1> QED BY <1>3, <1>5, Begin

(* What most steps leave as it is: they change none of this.                    *)
Quiet ==
  /\ \A p \in Products : /\ products'[p].status = products[p].status /\ products'[p].into = products[p].into
                         /\ products'[p].name = products[p].name
  /\ UNCHANGED <<canonical, renames, prices, recorded, told, notices>>
  /\ \A o \in Offers : /\ offers'[o].product = offers[o].product /\ offers'[o].stale = offers[o].stale
                       /\ listings'[o].published = listings[o].published
  /\ \A v \in Variants : /\ variants'[v].offer = variants[v].offer /\ variants'[v].match = variants[v].match
                         /\ variants'[v].proposal = "PENDING" => Known(variants'[v].proposed)
  /\ \A k \in Variants \X CanonicalVariants : candidates'[k].status # "absent" => Made(k[1]) /\ Known(k[2])

LEMMA QuietKeeps ==
  ASSUME Inv, Quiet PROVE States' /\ Steady({})
<1>1. /\ \A p \in Products : Exists(p)' <=> Exists(p)
      /\ \A c : Known(c)' <=> Known(c)
      /\ \A v \in Variants : Made(v)' <=> Made(v)
  BY DEF Quiet, Exists, Known, Made
<1>2. References'
  <2>1. \A c \in CanonicalVariants : canonical'[c].product # None => Exists(canonical[c].product)'
    <3> TAKE c \in CanonicalVariants
    <3>1. canonical'[c].product # None => canonical[c].product \in Products
      BY DEF Quiet, Inv, Typed, CanonicalVariant
    <3> QED BY <1>1, <3>1 DEF Quiet, Inv, States, References
  <2>2. \A o \in Offers : offers'[o].product # None => Exists(offers[o].product)'
    <3> TAKE o \in Offers
    <3>1. offers'[o].product # None => offers[o].product \in Products
      BY DEF Quiet, Inv, Typed, Offer
    <3> QED BY <1>1, <3>1 DEF Quiet, Inv, States, References
  <2>3. \A v \in Variants : /\ variants'[v].match # None => Made(v)' /\ Known(variants[v].match)'
                            /\ variants'[v].proposal = "PENDING" => Known(variants[v].proposed)'
    BY <1>1 DEF Quiet, Inv, States, References
  <2>4. \A v \in Variants, c \in CanonicalVariants : candidates'[<<v, c>>].status # "absent" => Made(v)' /\ Known(c)'
    <3> TAKE v \in Variants, c \in CanonicalVariants
    <3>1. <<v, c>> \in Variants \X CanonicalVariants /\ <<v, c>>[1] = v /\ <<v, c>>[2] = c
      OBVIOUS
    <3>2. candidates'[<<v, c>>].status # "absent" => Made(v) /\ Known(c)
      BY <3>1 DEF Quiet
    <3> QED BY <1>1, <3>2
  <2>5. \A p \in Products : /\ ~Exists(p)' => products'[p].name = None
                            /\ \A n \in Names : renames'[<<p, n>>] # "none" => Exists(p)'
    BY <1>1 DEF Quiet, Inv, States, References
  <2> QED BY <2>1, <2>2, <2>3, <2>4, <2>5 DEF References
<1>3. OfferFollowsItsVariants'
  <2> SUFFICES ASSUME NEW v \in Variants, variants'[v].match # None, ~offers'[variants'[v].offer].stale
               PROVE  offers'[variants'[v].offer].product = canonical'[variants'[v].match].product
    BY DEF OfferFollowsItsVariants
  <2>1. variants[v].match # None /\ variants[v].offer \in Offers
    BY MadeHasOffer DEF Quiet, Inv, States, References
  <2> QED BY <2>1 DEF Quiet, Inv, States, OfferFollowsItsVariants
<1>4. MergesEnd'
  BY DEF Quiet, Inv, States, MergesEnd
<1>5. PricesOnRecord' /\ ToldOfPublication' /\ ToldOfNotice'
  BY <1>1 DEF Quiet, Inv, States, PricesOnRecord, ToldOfPublication, ToldOfNotice
<1>6. SteadyProducts({}) /\ SteadyOffers({})
  BY <1>1 DEF Quiet, SteadyProducts, SteadyOffers
<1>7. SteadyVariants({})
  <2>1. \A v \in Variants, p \in Products : MatchedIn(v, p)' => MatchedIn(v, p)
    BY DEF Quiet, MatchedIn
  <2> QED BY <1>1, <2>1 DEF Quiet, SteadyVariants
<1> QED BY <1>2, <1>3, <1>4, <1>5, <1>6, <1>7 DEF States, Steady

(* A search adds pending candidates of variants and canonical variants that exist. *)
LEMMA SearchedFits ==
  ASSUME Inv, NEW vs \in SUBSET Variants, \A v \in vs : Made(v)
  PROVE  /\ Searched(vs) \in [Variants \X CanonicalVariants -> Candidate]
         /\ \A k \in Variants \X CanonicalVariants : Searched(vs)[k].status # "absent" => Made(k[1]) /\ Known(k[2])
<1>1. DOMAIN candidates = Variants \X CanonicalVariants /\ \A k \in Variants \X CanonicalVariants : candidates[k] \in Candidate
  BY DEF Inv, Typed
<1>2. NewCandidate \in Candidate
  BY DEF NewCandidate, Candidate
<1>3. ASSUME NEW k \in Variants \X CanonicalVariants
      PROVE  Searched(vs)[k] \in Candidate /\ (Searched(vs)[k].status # "absent" => Made(k[1]) /\ Known(k[2]))
  <2>1. CASE k[1] \in vs /\ k[2] \in Resembles[k[1]] /\ Matchable(k[2]) /\ candidates[k].status = "absent"
    BY <1>1, <1>2, <2>1 DEF Searched, Matchable, Known
  <2>2. CASE ~(k[1] \in vs /\ k[2] \in Resembles[k[1]] /\ Matchable(k[2]) /\ candidates[k].status = "absent")
    <3>1. Searched(vs)[k] = candidates[k]
      BY <1>1, <2>2 DEF Searched
    <3>2. PICK v \in Variants, c \in CanonicalVariants : k = <<v, c>> /\ k[1] = v /\ k[2] = c
      OBVIOUS
    <3>3. candidates[k].status # "absent" => Made(v) /\ Known(c)
      BY <3>2 DEF Inv, States, References
    <3> QED BY <1>1, <3>1, <3>2, <3>3
  <2> QED BY <2>1, <2>2
<1> QED BY <1>1, <1>3 DEF Searched

LEMMA QuietEnd ==
  ASSUME Inv, NEW r \in Requests, Runs(r, Idle, {}), Typed', Quiet PROVE Inv'
<1>1. States' /\ Steady({})
  BY QuietKeeps
<1>2. Steady(held[r] \union {}) /\ FreeFor(r, {})
  BY <1>1, SteadyMore DEF FreeFor
<1> QED BY <1>1, <1>2, End

LEMMA QuietAside ==
  ASSUME Inv, UNCHANGED <<running, held>>, Typed', Quiet PROVE Inv'
<1>1. States' /\ Steady({})
  BY QuietKeeps
<1> QED BY <1>1, Aside DEF Free

(* The candidates that are there belong to what is there.                       *)
LEMMA CandidatesKnown ==
  ASSUME Inv, NEW k \in Variants \X CanonicalVariants, candidates[k].status # "absent" PROVE Made(k[1]) /\ Known(k[2])
<1>1. PICK v \in Variants, c \in CanonicalVariants : k = <<v, c>>
  OBVIOUS
<1>2. k[1] = v /\ k[2] = c
  BY <1>1
<1> QED BY <1>1, <1>2 DEF Inv, States, References

LEMMA PendingKnown ==
  ASSUME Inv, NEW v \in Variants, variants[v].proposal = "PENDING" PROVE Known(variants[v].proposed)
BY DEF Inv, States, References

LEMMA SearchEndsKeeps ==
  ASSUME Inv, NEW r \in Requests, SearchEnds(r), UNCHANGED shop PROVE Inv'
<1>1. running[r].variant \in Variants /\ Made(running[r].variant)
  BY DEF SearchEnds, Commits, Inv, Fits, FitsMatch
<1> PICK vs : vs = {running[r].variant}
  OBVIOUS
<1>2. vs \in SUBSET Variants /\ \A v \in vs : Made(v)
  BY <1>1
<1>3. candidates' = Searched(vs)
  BY DEF SearchEnds
<1>4. Typed'
  BY <1>2, <1>3, SearchedFits DEF SearchEnds, Commits, Runs, Inv, Typed, shop
<1>5. \A k \in Variants \X CanonicalVariants : candidates'[k].status # "absent" => Made(k[1]) /\ Known(k[2])
  BY <1>2, <1>3, SearchedFits
<1>6. Quiet
  BY <1>5, PendingKnown DEF SearchEnds, Quiet, shop
<1> QED BY <1>4, <1>6, QuietEnd DEF SearchEnds, Commits

LEMMA OfferUpdatedKeeps ==
  ASSUME Inv, NEW r \in Requests, OfferUpdated(r) PROVE Inv'
<1> PICK o : o = running[r].offer
  OBVIOUS
<1>1. o \in Offers /\ Runs(r, Idle, {}) /\ offers' = [offers EXCEPT ![o].title = "edited"]
      /\ UNCHANGED <<products, canonical, variants, renames, listings, prices, recorded, told, notices>>
  BY DEF OfferUpdated, Commits, Inv, Fits, FitsShop, shop
<1>2. PICK vs \in SUBSET Variants : vs = {v \in VariantsOf(o) : variants[v].proposal \in {"NONE", "REJECTED"}}
  BY DEF VariantsOf
<1>3. \A v \in vs : Made(v)
  BY <1>1, <1>2, MatchingAssumption DEF VariantsOf, Made
<1>4. candidates' = Searched(vs)
  BY <1>2 DEF OfferUpdated
<1>5. offers \in [Offers -> Offer] /\ offers[o] \in Offer
  BY <1>1 DEF Inv, Typed
<1>6. PICK w : w = [offers[o] EXCEPT !.title = "edited"]
  OBVIOUS
<1>7. w \in Offer /\ w.product = offers[o].product /\ w.stale = offers[o].stale
  BY <1>5, <1>6, CatalogueAssumption DEF Offer
<1>8. offers' = [offers EXCEPT ![o] = w]
  BY <1>1, <1>5, <1>6
<1>9. offers' \in [Offers -> Offer] /\ \A p \in Offers : offers'[p].product = offers[p].product /\ offers'[p].stale = offers[p].stale
  BY <1>5, <1>7, <1>8
<1>10. Typed'
  BY <1>1, <1>3, <1>4, <1>9, SearchedFits DEF Runs, Inv, Typed
<1>11. \A k \in Variants \X CanonicalVariants : candidates'[k].status # "absent" => Made(k[1]) /\ Known(k[2])
  BY <1>3, <1>4, SearchedFits
<1>12. Quiet
  BY <1>1, <1>9, <1>11, PendingKnown DEF Quiet
<1> QED BY <1>1, <1>10, <1>12, QuietEnd

(* A variant's row changes in its proposal alone.                              *)
LEMMA DeclinedKeeps ==
  ASSUME Inv, NEW r \in Requests, Declined(r), UNCHANGED shop PROVE Inv'
<1> PICK v : v = running[r].variant
  OBVIOUS
<1>1. v \in Variants /\ Runs(r, Idle, {}) /\ variants' = [variants EXCEPT ![v].proposal = "REJECTED"]
      /\ UNCHANGED <<products, canonical, offers, candidates, renames, listings, prices, recorded, told, notices>>
  BY DEF Declined, Commits, Inv, Fits, FitsMatch, shop
<1>2. variants \in [Variants -> Variant] /\ variants[v] \in Variant
  BY <1>1 DEF Inv, Typed
<1>3. PICK w : w = [variants[v] EXCEPT !.proposal = "REJECTED"]
  OBVIOUS
<1>4. w \in Variant /\ w.offer = variants[v].offer /\ w.match = variants[v].match /\ w.proposal = "REJECTED"
  BY <1>2, <1>3 DEF Variant
<1>5. variants' = [variants EXCEPT ![v] = w]
  BY <1>1, <1>2, <1>3
<1>6. /\ variants' \in [Variants -> Variant]
      /\ \A u \in Variants : /\ variants'[u].offer = variants[u].offer /\ variants'[u].match = variants[u].match
                             /\ variants'[u].proposal = "PENDING" => variants'[u] = variants[u]
  BY <1>2, <1>4, <1>5
<1>7. Typed'
  BY <1>1, <1>6 DEF Runs, Inv, Typed
<1>8. Quiet
  BY <1>1, <1>6, PendingKnown, CandidatesKnown DEF Quiet
<1> QED BY <1>1, <1>7, <1>8, QuietEnd

(* One candidate changes.                                                    *)
LEMMA CandidateChanges ==
  ASSUME Inv, NEW r \in Requests, Runs(r, Idle, {}), NEW k \in Variants \X CanonicalVariants, NEW w \in Candidate,
         candidates' = [candidates EXCEPT ![k] = w], Made(k[1]), Known(k[2]),
         UNCHANGED <<products, canonical, offers, variants, renames, shop>>
  PROVE  Inv'
<1>1. /\ candidates \in [Variants \X CanonicalVariants -> Candidate]
      /\ UNCHANGED <<listings, prices, recorded, told, notices>>
  BY DEF Inv, Typed, shop
<1>2. candidates' \in [Variants \X CanonicalVariants -> Candidate]
  BY <1>1
<1>3. Typed'
  BY <1>1, <1>2 DEF Runs, Inv, Typed
<1>4. \A j \in Variants \X CanonicalVariants : candidates'[j].status # "absent" => Made(j[1]) /\ Known(j[2])
  BY <1>1, CandidatesKnown
<1>5. Quiet
  BY <1>1, <1>4, PendingKnown DEF Quiet
<1> QED BY <1>3, <1>5, QuietEnd

LEMMA RejectedKeeps ==
  ASSUME Inv, NEW r \in Requests, Rejected(r), UNCHANGED shop PROVE Inv'
<1> PICK k : k = running[r].candidate
  OBVIOUS
<1>1. k \in Variants \X CanonicalVariants /\ Made(k[1]) /\ Known(k[2])
  BY DEF Rejected, Commits, Inv, Fits, FitsMatch
<1>2. candidates \in [Variants \X CanonicalVariants -> Candidate] /\ candidates[k] \in Candidate
  BY <1>1 DEF Inv, Typed
<1>3. PICK w : w = [candidates[k] EXCEPT !.status = "REJECTED"]
  OBVIOUS
<1>4. w \in Candidate
  BY <1>2, <1>3 DEF Candidate
<1>5. candidates' = [candidates EXCEPT ![k] = w]
  BY <1>2, <1>3 DEF Rejected
<1> QED BY <1>1, <1>4, <1>5, CandidateChanges DEF Rejected, Commits

LEMMA ReportedKeeps ==
  ASSUME Inv, NEW r \in Requests, Reported(r), UNCHANGED shop PROVE Inv'
<1> PICK k, reporter : k = running[r].candidate /\ reporter = running[r].reporter
  OBVIOUS
<1>1. k \in Variants \X CanonicalVariants /\ Made(k[1]) /\ Known(k[2]) /\ reporter \in Reporters
  BY DEF Reported, Commits, Inv, Fits, FitsMatch
<1>2. candidates \in [Variants \X CanonicalVariants -> Candidate] /\ candidates[k] \in Candidate
  BY <1>1 DEF Inv, Typed
<1>3. PICK s, n : s = (IF running[r].requeue \/ candidates[k].status = "absent" THEN "PENDING" ELSE candidates[k].status)
                  /\ n = candidates[k].reports \union {reporter}
  OBVIOUS
<1>4. [status |-> s, reports |-> n] \in Candidate
  BY <1>1, <1>2, <1>3 DEF Candidate
<1>5. candidates' = [candidates EXCEPT ![k] = [status |-> s, reports |-> n]]
  BY <1>2, <1>3 DEF Reported
<1> QED BY <1>1, <1>4, <1>5, CandidateChanges DEF Reported, Commits

LEMMA RollsBackKeeps ==
  ASSUME Inv, NEW r \in Requests, RollsBack(r), UNCHANGED shop PROVE Inv'
<1>1. Runs(r, Idle, {}) /\ UNCHANGED <<catalogue, shop>>
  BY DEF RollsBack, Abandons
<1> QED BY <1>1, Begin, IdleFits DEF FreeFor

(* Asides that change nothing the argument depends on.                         *)
LEMMA SetRestrictedKeeps ==
  ASSUME Inv, NEW p \in Products, SetRestricted(p), UNCHANGED shop PROVE Inv'
<1>1. products \in [Products -> Product] /\ products[p] \in Product
  BY DEF Inv, Typed
<1>2. PICK w : w = [products[p] EXCEPT !.restricted = ~@]
  OBVIOUS
<1>3. w \in Product /\ w.status = products[p].status /\ w.into = products[p].into /\ w.name = products[p].name
  BY <1>1, <1>2 DEF Product
<1>4. products' = [products EXCEPT ![p] = w]
  BY <1>1, <1>2 DEF SetRestricted
<1>5. /\ products' \in [Products -> Product]
      /\ \A o \in Products : /\ products'[o].status = products[o].status /\ products'[o].into = products[o].into
                             /\ products'[o].name = products[o].name
  BY <1>1, <1>3, <1>4
<1>6. UNCHANGED <<running, held, canonical, offers, variants, candidates, renames, listings, prices, recorded, told, notices>>
  BY DEF SetRestricted, Writes, shop
<1>7. Typed'
  BY <1>5, <1>6 DEF Inv, Typed
<1>8. Quiet
  BY <1>5, <1>6, PendingKnown, CandidatesKnown DEF Quiet
<1> QED BY <1>6, <1>7, <1>8, QuietAside

LEMMA UnmovedKeeps ==
  ASSUME Inv, UNCHANGED <<running, held, catalogue, listings, prices, recorded, told, notices>> PROVE Inv'
<1>1. UNCHANGED <<products, canonical, offers, variants, candidates, renames>>
  BY DEF catalogue
<1>2. Typed'
  BY <1>1 DEF Inv, Typed
<1>3. Quiet
  BY <1>1, PendingKnown, CandidatesKnown DEF Quiet
<1> QED BY <1>2, <1>3, QuietAside

LEMMA CreateOfferKeeps ==
  ASSUME Inv, NEW o \in Offers, CreateOffer(o) PROVE Inv'
<1>1. UNCHANGED <<running, held, products, canonical, offers, variants, candidates, renames, prices, recorded, told, notices>>
  BY DEF CreateOffer, Writes, catalogue
<1>2. listings \in [Offers -> Listing] /\ listings[o] \in Listing
  BY DEF Inv, Typed
<1>3. PICK w : w = [listings[o] EXCEPT !.status = "DRAFT"]
  OBVIOUS
<1>4. w \in Listing /\ w.published = listings[o].published
  BY <1>2, <1>3 DEF Listing
<1>5. listings' = [listings EXCEPT ![o] = w]
  BY <1>2, <1>3 DEF CreateOffer, Listed
<1>6. listings' \in [Offers -> Listing] /\ \A p \in Offers : listings'[p].published = listings[p].published
  BY <1>2, <1>4, <1>5
<1>7. Typed'
  BY <1>1, <1>6 DEF Inv, Typed
<1>8. Quiet
  BY <1>1, <1>6, PendingKnown, CandidatesKnown DEF Quiet
<1> QED BY <1>1, <1>7, <1>8, QuietAside

(* A rename may be asked for of a product that exists.                          *)
LEMMA RequestRenameKeeps ==
  ASSUME Inv, NEW p \in Products, NEW n \in Names, RequestRename(p, n), UNCHANGED shop PROVE Inv'
<1>1. /\ UNCHANGED <<running, held, products, canonical, offers, variants, candidates, listings, prices, recorded, told, notices>>
      /\ Free({ProductLock(p)}) /\ renames' = [renames EXCEPT ![<<p, n>>] = "PENDING"]
  BY DEF RequestRename, Writes, shop
<1>2. Exists(p)
  BY MatchingAssumption DEF RequestRename, Inv, States, References
<1>3. /\ renames \in [Products \X Names -> {"none", "PENDING", "APPROVED", "REJECTED"}]
      /\ <<p, n>> \in Products \X Names
  BY DEF Inv, Typed
<1>4. /\ renames' \in [Products \X Names -> {"none", "PENDING", "APPROVED", "REJECTED"}]
      /\ \A k \in Products \X Names : k # <<p, n>> => renames'[k] = renames[k]
  BY <1>1, <1>3
<1>5. \A o \in Products, m \in Names : o # p => <<o, m>> # <<p, n>> /\ <<o, m>> \in Products \X Names
  OBVIOUS
<1>6. \A o \in Products, m \in Names : o # p => renames'[<<o, m>>] = renames[<<o, m>>]
  BY <1>4, <1>5
<1>7. Typed'
  BY <1>1, <1>4 DEF Inv, Typed
<1>8. References'
  BY <1>1, <1>2, <1>6 DEF Inv, States, References, Exists, Known, Made
<1>9. States'
  BY <1>1, <1>8 DEF Inv, States, OfferFollowsItsVariants, MergesEnd, PricesOnRecord, Made, ToldOfPublication, ToldOfNotice
<1>10. SteadyProducts({ProductLock(p)})
  BY <1>1, <1>6 DEF SteadyProducts, Exists
<1>11. SteadyOffers({ProductLock(p)}) /\ SteadyVariants({ProductLock(p)})
  BY <1>1 DEF SteadyOffers, SteadyVariants, Exists, Known, Made, Regular, MatchedIn
<1> QED BY <1>1, <1>7, <1>9, <1>10, <1>11, Aside DEF Steady

LEMMA TryNotifyKeeps ==
  ASSUME Inv, NEW r \in Requests, TryNotify(r) PROVE Inv'
<1>1. /\ UNCHANGED <<catalogue, listings, prices, recorded, held>>
      /\ UNCHANGED <<products, canonical, offers, variants, candidates, renames>>
  BY DEF TryNotify, catalogue
<1>2. PICK notice \in running[r].queue :
        /\ notices' = notices \union {notice}
        /\ told' = [told EXCEPT ![<<"sweep", notice>>] = @ + IF IsNew(notice) THEN 1 ELSE 0]
        /\ running' = [running EXCEPT ![r] = IF running[r].queue = {notice} THEN Idle
                                             ELSE [running[r] EXCEPT !.queue = @ \ {notice}]]
  BY DEF TryNotify
<1>3. running[r].queue \subseteq Variants \X Windows /\ running[r].op = "sweep"
  BY DEF TryNotify, Inv, Fits, FitsShop
<1>4. PICK e : e = <<"sweep", notice>>
  OBVIOUS
<1>5. told \in [Events -> Nat] /\ e \in Events /\ notice \in Variants \X Windows
  BY <1>2, <1>3, <1>4 DEF Inv, Typed, Events
<1>6. PICK n \in Nat : n = told[e] + (IF IsNew(notice) THEN 1 ELSE 0) /\ n \in {0, 1}
  <2>1. told[e] = 0 \/ (told[e] = 1 /\ notice \in notices)
    BY <1>4, <1>5 DEF Inv, States, ToldOfNotice
  <2> QED BY <2>1 DEF IsNew
<1>7. /\ told' \in [Events -> Nat] /\ ToldOfPublication' /\ ToldOfNotice'
  <2>1. told' \in [Events -> Nat] /\ told'[e] = n /\ \A f \in Events : f # e => told'[f] = told[f]
    BY <1>2, <1>4, <1>5, <1>6
  <2>2. \A o \in Offers : told'[<<"published", o>>] = told[<<"published", o>>]
    BY <1>4, <2>1 DEF Events
  <2>3. \A m \in Variants \X Windows : m # notice => told'[<<"sweep", m>>] = told[<<"sweep", m>>]
    BY <1>4, <2>1 DEF Events
  <2>4. ToldOfPublication'
    BY <1>1, <2>2 DEF Inv, States, ToldOfPublication
  <2>5. ToldOfNotice'
    BY <1>2, <1>4, <1>6, <2>1, <2>3 DEF Inv, States, ToldOfNotice
  <2> QED BY <2>1, <2>4, <2>5
<1>8. Steady({}) /\ References' /\ OfferFollowsItsVariants' /\ MergesEnd'
  BY <1>1, CatalogueUnmoved
<1>9. States'
  BY <1>1, <1>7, <1>8 DEF States, Inv, PricesOnRecord, Made
<1>10. Typed' /\ \A s \in Requests \ {r} : running'[s] = running[s]
  BY <1>1, <1>2, <1>7 DEF Inv, Typed
<1>11. Fits(running'[r], held[r])
  <2>1. CASE running[r].queue = {notice}
    <3>1. running'[r] = Idle
      BY <1>2, <2>1 DEF Inv, Typed
    <3> QED BY <3>1, IdleFits
  <2>2. CASE running[r].queue # {notice}
    <3>1. running'[r] = [running[r] EXCEPT !.queue = running[r].queue \ {notice}]
      BY <1>2, <2>2 DEF Inv, Typed
    <3>2. PICK q : q = running'[r]
      OBVIOUS
    <3>3. q.op = "sweep" /\ q.queue \subseteq Variants \X Windows
      BY <1>3, <3>1, <3>2
    <3>4. Fits(q, held[r])
      BY <3>3 DEF Fits, FitsMatch, FitsLink, FitsMerge, FitsSplit, FitsProduct, FitsShop
    <3> QED BY <3>2, <3>4
  <2> QED BY <2>1, <2>2
<1>12. ASSUME NEW s \in Requests PROVE Fits(running[s], held[s])'
  <2>1. PICK x, l : x = running'[s] /\ l = held'[s]
    OBVIOUS
  <2>2. Fits(x, l)
    BY <1>1, <1>10, <1>11, <2>1 DEF Inv
  <2>3. Fits(x, l)'
    BY <1>8, <2>2, FitsStays DEF Inv, States
  <2> QED BY <2>1, <2>3
<1> QED BY <1>1, <1>9, <1>10, <1>12 DEF Inv, Exclusive

(* Followers hear of a publication when it is the first.                        *)
LEMMA StatusUpdatedKeeps ==
  ASSUME Inv, NEW r \in Requests, StatusUpdated(r) PROVE Inv'
<1> PICK q, o : q = running[r] /\ o = q.offer
  OBVIOUS
<1>1. /\ o \in Offers /\ OfferLock(o) \in held[r] /\ q.to \in {"ACTIVE", "INACTIVE", "DRAFT", "ARCHIVED"}
      /\ q.first \in BOOLEAN /\ (q.first => ~listings[o].published)
  BY DEF StatusUpdated, Commits, Inv, Fits, FitsShop
<1>2. Runs(r, Idle, {}) /\ UNCHANGED <<catalogue, prices, recorded, notices>>
      /\ UNCHANGED <<products, canonical, offers, variants, candidates, renames>>
  BY DEF StatusUpdated, Commits, catalogue
<1>3. listings \in [Offers -> Listing] /\ listings[o] \in Listing /\ told \in [Events -> Nat]
  BY <1>1 DEF Inv, Typed
<1>4. PICK w : w = [status |-> q.to, published |-> listings[o].published \/ q.first]
  OBVIOUS
<1>5. w \in Listing /\ (w.published <=> listings[o].published \/ q.first)
  BY <1>1, <1>3, <1>4 DEF Listing
<1>6. listings' = [listings EXCEPT ![o] = w]
  BY <1>3, <1>4 DEF StatusUpdated
<1>7. listings' \in [Offers -> Listing] /\ listings'[o] = w /\ \A p \in Offers : p # o => listings'[p] = listings[p]
  <2>1. w \in Listing /\ o \in Offers
    BY <1>1, <1>5
  <2> QED BY <1>3, <1>6, <2>1
<1>8. PICK e : e = <<"published", o>>
  OBVIOUS
<1>9. e \in Events
  BY <1>1, <1>8 DEF Events
<1>10. told[e] = 0 \/ (told[e] = 1 /\ listings[o].published)
  BY <1>1, <1>8 DEF Inv, States, ToldOfPublication
<1>11. PICK n \in Nat : n = told[e] + (IF q.first THEN 1 ELSE 0) /\ (n = 0 \/ (n = 1 /\ w.published))
  BY <1>1, <1>5, <1>10
<1>12. told' \in [Events -> Nat] /\ told'[e] = n /\ \A f \in Events : f # e => told'[f] = told[f]
  BY <1>3, <1>8, <1>9, <1>11 DEF StatusUpdated
<1>13. ToldOfNotice'
  <2>1. \A m \in Variants \X Windows : told'[<<"sweep", m>>] = told[<<"sweep", m>>]
    BY <1>8, <1>12 DEF Events
  <2> QED BY <1>2, <2>1 DEF Inv, States, ToldOfNotice
<1>14. ToldOfPublication'
  <2>1. ASSUME NEW p \in Offers PROVE told'[<<"published", p>>] = 0 \/ (told'[<<"published", p>>] = 1 /\ listings'[p].published)
    <3>1. CASE p = o
      BY <1>7, <1>8, <1>11, <1>12, <3>1
    <3>2. CASE p # o
      <4>0. PICK g : g = <<"published", p>>
        OBVIOUS
      <4>1. PICK f \in Events : f = <<"published", p>> /\ f # e
        <5>1. g \in Events
          BY <4>0 DEF Events
        <5>2. g # e
          BY <1>8, <3>2, <4>0
        <5> QED BY <4>0, <5>1, <5>2
      <4>2. told[f] = 0 \/ (told[f] = 1 /\ listings[p].published)
        BY <4>1 DEF Inv, States, ToldOfPublication
      <4> QED BY <1>7, <1>12, <3>2, <4>1, <4>2
    <3> QED BY <3>1, <3>2
  <2> QED BY <2>1, Zenon DEF ToldOfPublication
<1>15. References' /\ OfferFollowsItsVariants' /\ MergesEnd' /\ PricesOnRecord'
  BY <1>2 DEF Inv, States, References, OfferFollowsItsVariants, MergesEnd, PricesOnRecord, Exists, Known, Made
<1>16. Typed'
  BY <1>2, <1>7, <1>12 DEF Runs, Inv, Typed
<1>17. Steady(held[r] \union {})
  BY <1>1, <1>2, <1>7 DEF Steady, SteadyProducts, SteadyOffers, SteadyVariants, Exists, Known, Made, Regular, MatchedIn
<1> QED BY <1>2, <1>13, <1>14, <1>15, <1>16, <1>17, End DEF States, FreeFor

(* A variant comes to be, or one that is there keeps its offer and match.         *)
LEMMA VariantChanges ==
  ASSUME Inv, NEW v \in Variants, NEW w \in Variant, variants' = [variants EXCEPT ![v] = w], w.offer # None,
         Made(v) => w.offer = variants[v].offer /\ w.match = variants[v].match, ~Made(v) => w.match = None,
         w.proposal = "PENDING" => Known(w.proposed),
         \A k \in Variants \X CanonicalVariants : candidates'[k].status # "absent" => Made(k[1]) /\ Known(k[2]),
         \A u \in Variants : u # v => prices'[u] = prices[u] /\ recorded'[u] = recorded[u],
         recorded'[v] = prices'[v], \A o \in Offers : listings'[o].published = listings[o].published,
         \A e \in Events : e[1] # "edit" => told'[e] = told[e],
         NEW L, Made(v) => VariantLock(v) \in L, UNCHANGED <<products, canonical, offers, renames, notices>>
  PROVE  variants' \in [Variants -> Variant] /\ States' /\ Steady(L)
<1>1. variants' \in [Variants -> Variant] /\ variants'[v] = w /\ \A u \in Variants : u # v => variants'[u] = variants[u]
  BY DEF Inv, Typed
<1>2. /\ \A p \in Products : Exists(p)' <=> Exists(p)
      /\ \A c : Known(c)' <=> Known(c)
      /\ \A u \in Variants : Made(u) => Made(u)' /\ variants'[u].offer = variants[u].offer
      /\ \A u \in Variants : variants'[u].match # None => Made(u) /\ variants'[u].match = variants[u].match
      /\ Made(v)'
  <2>1. \A u \in Variants : Made(u) => variants'[u].offer = variants[u].offer /\ variants'[u].match = variants[u].match
    BY <1>1
  <2>2. \A u \in Variants : variants'[u].match # None => Made(u)
    BY <1>1 DEF Inv, States, References
  <2> QED BY <1>1, <2>1, <2>2 DEF Exists, Known, Made
<1>3. References'
  <2>1. \A u \in Variants : /\ variants'[u].match # None => Made(u)' /\ Known(variants[u].match)'
                            /\ variants'[u].proposal = "PENDING" => Known(variants[u].proposed)'
    BY <1>1, <1>2 DEF Inv, States, References
  <2>2. \A u \in Variants, c \in CanonicalVariants : candidates'[<<u, c>>].status # "absent" => Made(u)' /\ Known(c)'
    <3> TAKE u \in Variants, c \in CanonicalVariants
    <3>1. <<u, c>> \in Variants \X CanonicalVariants /\ <<u, c>>[1] = u /\ <<u, c>>[2] = c
      OBVIOUS
    <3> QED BY <1>2, <3>1
  <2>3. /\ \A c \in CanonicalVariants : canonical'[c].product # None => Exists(canonical[c].product)'
        /\ \A o \in Offers : offers'[o].product # None => Exists(offers[o].product)'
        /\ \A p \in Products : /\ ~Exists(p)' => products'[p].name = None
                               /\ \A n \in Names : renames'[<<p, n>>] # "none" => Exists(p)'
    BY DEF Inv, States, References, Exists
  <2> QED BY <2>1, <2>2, <2>3 DEF References
<1>4. OfferFollowsItsVariants'
  BY <1>2 DEF Inv, States, OfferFollowsItsVariants
<1>5. PricesOnRecord'
  BY <1>1, <1>2 DEF Inv, States, PricesOnRecord, Made
<1>6. MergesEnd' /\ ToldOfPublication' /\ ToldOfNotice'
  <2>1. \A o \in Offers : told'[<<"published", o>>] = told[<<"published", o>>]
    BY DEF Events
  <2>2. \A n \in Variants \X Windows : told'[<<"sweep", n>>] = told[<<"sweep", n>>]
    BY DEF Events
  <2>3. ToldOfPublication' /\ ToldOfNotice'
    BY <2>1, <2>2 DEF Inv, States, ToldOfPublication, ToldOfNotice
  <2> QED BY <2>3 DEF Inv, States, MergesEnd
<1>7. SteadyProducts(L) /\ SteadyOffers(L)
  BY DEF SteadyProducts, SteadyOffers, Exists
<1>8. SteadyVariants(L)
  BY <1>2 DEF SteadyVariants, MatchedIn
<1> QED BY <1>1, <1>3, <1>4, <1>5, <1>6, <1>7, <1>8 DEF States, Steady

LEMMA CreatesKeeps ==
  ASSUME Inv, NEW r \in Requests, NEW v \in Variants, ~Made(v), NEW o \in Offers, NEW proposed, proposed = None \/ Known(proposed),
         NEW identifier \in CanonicalVariants \union {None}, NEW price \in Prices, Creates(v, o, proposed, identifier, price),
         listings' \in [Offers -> Listing], \A p \in Offers : listings'[p].published = listings[p].published,
         Runs(r, Idle, {}), UNCHANGED <<products, canonical, offers, candidates, renames, told, notices>>
  PROVE  Inv'
<1>1. PICK w : w = [offer |-> o, identifier |-> identifier, proposed |-> proposed,
                    proposal |-> IF proposed = None THEN "NONE" ELSE "PENDING", match |-> None]
  OBVIOUS
<1>2. w \in Variant /\ w.offer # None /\ w.match = None /\ (w.proposal = "PENDING" => Known(w.proposed))
  BY <1>1, MatchingAssumption DEF Variant, Known
<1>3. variants' = [variants EXCEPT ![v] = w]
  <2>1. PICK s : s = IF proposed = None THEN "NONE" ELSE "PENDING"
    OBVIOUS
  <2>2. PICK x : x = [Blank EXCEPT !.offer = o, !.identifier = identifier, !.proposed = proposed, !.proposal = s]
    OBVIOUS
  <2>3. x = [offer |-> o, identifier |-> identifier, proposed |-> proposed, proposal |-> s, match |-> None]
    BY <2>2 DEF Blank
  <2> QED BY <1>1, <2>1, <2>2, <2>3 DEF Creates
<1>4. /\ prices' \in [Variants -> Prices] /\ recorded' \in [Variants -> Prices] /\ recorded'[v] = prices'[v]
      /\ \A u \in Variants : u # v => prices'[u] = prices[u] /\ recorded'[u] = recorded[u]
  BY DEF Creates, Inv, Typed
<1>5. variants' \in [Variants -> Variant] /\ States' /\ Steady({})
  BY <1>2, <1>3, <1>4, CandidatesKnown, VariantChanges
<1>6. Typed'
  BY <1>4, <1>5 DEF Runs, Inv, Typed
<1>7. Steady(held[r] \union {}) /\ FreeFor(r, {})
  BY <1>5, SteadyMore DEF FreeFor
<1> QED BY <1>5, <1>6, <1>7, End

LEMMA ExactMatchKnown ==
  ASSUME NEW identifier \in CanonicalVariants \union {None} PROVE ExactMatch(identifier) = None \/ Known(ExactMatch(identifier))
BY DEF ExactMatch, Known

LEMMA VariantCreatedKeeps ==
  ASSUME Inv, NEW r \in Requests, NEW v \in Variants, VariantCreated(r, v) PROVE Inv'
<1> PICK q : q = running[r]
  OBVIOUS
<1>1. /\ q.offer \in Offers /\ q.identifier \in CanonicalVariants \union {None} /\ q.price \in Prices
      /\ (q.proposed = None \/ Known(q.proposed))
  BY DEF VariantCreated, Commits, Inv, Fits, FitsShop
<1>2. /\ Runs(r, Idle, {}) /\ ~Made(v) /\ Creates(v, q.offer, q.proposed, q.identifier, q.price)
      /\ UNCHANGED <<products, canonical, offers, candidates, renames, listings, told, notices>>
  BY DEF VariantCreated, Commits
<1> QED BY <1>1, <1>2, CreatesKeeps DEF Inv, Typed

LEMMA ImportedKeeps ==
  ASSUME Inv, NEW r \in Requests, NEW v \in Variants, NEW price \in ListPrices, Imported(r, v, [list |-> price, window |-> None]) PROVE Inv'
<1> PICK q, proposed, full : q = running[r] /\ proposed = ExactMatch(q.identifier) /\ full = [list |-> price, window |-> None]
  OBVIOUS
<1>1. q.offer \in Offers /\ q.identifier \in CanonicalVariants \union {None}
  BY DEF Imported, Commits, Inv, Fits, FitsShop
<1>2. /\ Runs(r, Idle, {}) /\ ~Made(v) /\ Creates(v, q.offer, proposed, q.identifier, full)
      /\ UNCHANGED <<products, canonical, offers, candidates, renames, told, notices>>
  BY DEF Imported, Commits
<1>3. listings \in [Offers -> Listing] /\ listings[q.offer] \in Listing
  BY <1>1 DEF Inv, Typed
<1>4. PICK status : status = IF listings[q.offer].status = "none" THEN "DRAFT" ELSE listings[q.offer].status
  OBVIOUS
<1>5. PICK w : w = [listings[q.offer] EXCEPT !.status = status]
  OBVIOUS
<1>6. w \in Listing /\ w.published = listings[q.offer].published
  BY <1>3, <1>4, <1>5 DEF Listing
<1>7. listings' = [listings EXCEPT ![q.offer] = w]
  BY <1>3, <1>4, <1>5 DEF Imported, Listed
<1>8. listings' \in [Offers -> Listing] /\ \A p \in Offers : listings'[p].published = listings[p].published
  BY <1>3, <1>6, <1>7
<1>9. full \in Prices
  BY DEF Prices
<1>10. proposed = None \/ Known(proposed)
  BY <1>1, ExactMatchKnown
<1> QED BY <1>1, <1>2, <1>8, <1>9, <1>10, CreatesKeeps

LEMMA VariantUpdatedKeeps ==
  ASSUME Inv, NEW r \in Requests, VariantUpdated(r) PROVE Inv'
<1> PICK q, v : q = running[r] /\ v = q.variant
  OBVIOUS
<1>1. /\ v \in Variants /\ Made(v) /\ VariantLock(v) \in held[r] /\ q.price \in Prices
      /\ q.identifier \in CanonicalVariants \union {None} /\ q.was = prices[v]
  BY DEF VariantUpdated, Commits, Inv, Fits, FitsShop
<1>2. Runs(r, Idle, {}) /\ UNCHANGED <<products, canonical, offers, renames, listings, notices>>
  BY DEF VariantUpdated, Commits
<1>3. /\ prices' = [prices EXCEPT ![v] = q.price]
      /\ recorded' = IF q.price # q.was THEN [recorded EXCEPT ![v] = q.price] ELSE recorded
  BY DEF VariantUpdated
<1>4. /\ prices' \in [Variants -> Prices] /\ recorded' \in [Variants -> Prices] /\ recorded'[v] = prices'[v]
      /\ \A u \in Variants : u # v => prices'[u] = prices[u] /\ recorded'[u] = recorded[u]
  <2>1. prices \in [Variants -> Prices] /\ recorded \in [Variants -> Prices] /\ recorded[v] = prices[v]
    BY <1>1 DEF Inv, Typed, States, PricesOnRecord
  <2> QED BY <1>1, <1>3, <2>1
<1>5. variants \in [Variants -> Variant] /\ variants[v] \in Variant
  BY <1>1 DEF Inv, Typed
<1>6. PICK w \in Variant :
        /\ variants' = [variants EXCEPT ![v] = w] /\ w.offer = variants[v].offer /\ w.match = variants[v].match
        /\ w.proposal = "PENDING" => Known(w.proposed)
  <2>1. CASE q.identifier # variants[v].identifier /\ variants[v].proposal # "CONFIRMED"
    <3>1. PICK x : x = ExactMatch(q.identifier)
      OBVIOUS
    <3>2. x \in CanonicalVariants \union {None} /\ (x = None \/ Known(x))
      BY <1>1, <3>1 DEF ExactMatch, Known
    <3>3. PICK w : w = [variants[v] EXCEPT !.identifier = q.identifier, !.proposed = x,
                                           !.proposal = IF x = None THEN "NONE" ELSE "PENDING"]
      OBVIOUS
    <3>4. w \in Variant /\ w.offer = variants[v].offer /\ w.match = variants[v].match /\ w.proposed = x
          /\ w.proposal = IF x = None THEN "NONE" ELSE "PENDING"
      BY <1>1, <1>5, <3>2, <3>3 DEF Variant
    <3>5. variants' = [variants EXCEPT ![v] = w]
      BY <1>5, <2>1, <3>1, <3>3 DEF VariantUpdated, Proposal
    <3>6. w.proposal = "PENDING" => Known(w.proposed)
      BY <3>2, <3>4
    <3> QED BY <3>4, <3>5, <3>6
  <2>2. CASE ~(q.identifier # variants[v].identifier /\ variants[v].proposal # "CONFIRMED")
    <3>1. variants' = variants
      BY <2>2 DEF VariantUpdated
    <3> QED BY <1>1, <1>5, <3>1, PendingKnown
  <2> QED BY <2>1, <2>2
<1>7. /\ candidates' \in [Variants \X CanonicalVariants -> Candidate]
      /\ \A k \in Variants \X CanonicalVariants : candidates'[k].status # "absent" => Made(k[1]) /\ Known(k[2])
  <2>1. PICK vs : vs = {v}
    OBVIOUS
  <2>2. vs \in SUBSET Variants /\ \A u \in vs : Made(u)
    BY <1>1, <2>1
  <2>3. candidates' = candidates \/ candidates' = Searched(vs)
    BY <2>1 DEF VariantUpdated
  <2> QED BY <2>2, <2>3, SearchedFits, CandidatesKnown DEF Inv, Typed
<1>8. told' \in [Events -> Nat] /\ \A e \in Events : e[1] # "edit" => told'[e] = told[e]
  <2>1. PICK n, e : n = <<v, IF On(q.price) /\ q.price.window # q.was.window THEN q.price.window ELSE None>> /\ e = <<"edit", n>>
    OBVIOUS
  <2>2. n \in Variants \X (Windows \union {None})
    BY <1>1, <2>1 DEF Prices
  <2>3. e \in Events /\ e[1] = "edit"
    BY <2>1, <2>2 DEF Events
  <2>4. told \in [Events -> Nat] /\ (told' = told \/ told' = [told EXCEPT ![e] = @ + 1])
    BY <2>1 DEF VariantUpdated, PriceDrop, Inv, Typed
  <2> QED BY <2>3, <2>4
<1>9. variants' \in [Variants -> Variant] /\ States' /\ Steady(held[r])
  BY <1>1, <1>2, <1>4, <1>6, <1>7, <1>8, VariantChanges DEF Made
<1>10. Typed'
  BY <1>2, <1>4, <1>7, <1>8, <1>9 DEF Runs, Inv, Typed
<1>11. Steady(held[r] \union {}) /\ FreeFor(r, {})
  BY <1>9, SteadyMore DEF FreeFor
<1> QED BY <1>2, <1>9, <1>10, <1>11, End

(* One product's row changes; it is neither merged nor revived.                  *)
LEMMA OneProductChanges ==
  ASSUME Inv, NEW p \in Products, NEW w \in Product, products' = [products EXCEPT ![p] = w], w.into = products[p].into,
         w.status = "MERGED" <=> products[p].status = "MERGED", w.status # "none", NEW L,
         Exists(p) /\ ProductLock(p) \notin L
           => w.status = products[p].status /\ w.name = products[p].name /\ \A n \in Names : renames'[<<p, n>>] = renames[<<p, n>>],
         \A o \in Products, n \in Names : o # p => renames'[<<o, n>>] = renames[<<o, n>>], UNCHANGED canonical
  PROVE  /\ products' \in [Products -> Product] /\ MergesEnd' /\ SteadyProducts(L)
         /\ \A o \in Products : /\ Exists(o) => Exists(o)'
                                /\ ~Exists(o)' => products'[o].name = None
                                /\ \A n \in Names : renames'[<<o, n>>] # "none" => Exists(o)'
<1>1. products' \in [Products -> Product] /\ products'[p] = w /\ \A o \in Products : o # p => products'[o] = products[o]
  BY DEF Inv, Typed
<1>2. \A o \in Products : products'[o].into = products[o].into /\ (products'[o].status = "MERGED" <=> products[o].status = "MERGED")
  BY <1>1
<1>3. MergesEnd'
  <2>1. \A o \in Products : products'[o].into # None <=> products'[o].status = "MERGED"
    BY <1>2 DEF Inv, States, MergesEnd
  <2>2. \A cycle \in (SUBSET Products) \ {{}} : \E o \in cycle : products'[o].into \notin cycle
    BY <1>2 DEF Inv, States, MergesEnd
  <2> QED BY <2>1, <2>2 DEF MergesEnd
<1>4. \A o \in Products : Exists(o) => Exists(o)'
  BY <1>1 DEF Exists
<1>5. SteadyProducts(L)
  BY <1>1, <1>4 DEF SteadyProducts
<1>6. \A o \in Products : /\ ~Exists(o)' => products'[o].name = None
                          /\ \A n \in Names : renames'[<<o, n>>] # "none" => Exists(o)'
  BY <1>1 DEF Exists, Inv, States, References
<1> QED BY <1>1, <1>3, <1>4, <1>5, <1>6

(* Nothing but products, their renames and the titles of offers changes.         *)
LEMMA ProductChanges ==
  ASSUME Inv, products' \in [Products -> Product], MergesEnd', NEW L, SteadyProducts(L),
         \A o \in Products : /\ Exists(o) => Exists(o)'
                             /\ ~Exists(o)' => products'[o].name = None
                             /\ \A n \in Names : renames'[<<o, n>>] # "none" => Exists(o)',
         \A o \in Offers : offers'[o].product = offers[o].product /\ offers'[o].stale = offers[o].stale,
         UNCHANGED <<canonical, variants, candidates, shop>>
  PROVE  States' /\ Steady(L)
<1>1. UNCHANGED <<listings, prices, recorded, told, notices>>
  BY DEF shop
<1>2. \A v \in Variants : Made(v) => variants[v].offer \in Offers
  BY MadeHasOffer DEF Inv
<1>3. References'
  <2>1. \A c \in CanonicalVariants : canonical'[c].product # None => Exists(canonical[c].product)'
    <3> TAKE c \in CanonicalVariants
    <3>1. canonical[c].product # None => canonical[c].product \in Products
      BY DEF Inv, Typed, CanonicalVariant
    <3> QED BY <3>1 DEF Inv, States, References
  <2>2. \A o \in Offers : offers'[o].product # None => Exists(offers[o].product)'
    <3> TAKE o \in Offers
    <3>1. offers[o].product # None => offers[o].product \in Products
      BY DEF Inv, Typed, Offer
    <3> QED BY <3>1 DEF Inv, States, References
  <2>3. /\ \A v \in Variants : /\ variants'[v].match # None => Made(v)' /\ Known(variants[v].match)'
                               /\ variants'[v].proposal = "PENDING" => Known(variants[v].proposed)'
        /\ \A v \in Variants, c \in CanonicalVariants : candidates'[<<v, c>>].status # "absent" => Made(v)' /\ Known(c)'
    BY DEF Inv, States, References, Known, Made
  <2> QED BY <2>1, <2>2, <2>3 DEF References
<1>4. OfferFollowsItsVariants'
  BY <1>2 DEF Inv, States, References, OfferFollowsItsVariants
<1>5. PricesOnRecord' /\ ToldOfPublication' /\ ToldOfNotice'
  BY <1>1 DEF Inv, States, PricesOnRecord, ToldOfPublication, ToldOfNotice, Made
<1>6. SteadyOffers(L)
  BY <1>1 DEF SteadyOffers
<1>7. SteadyVariants(L)
  BY <1>1 DEF SteadyVariants, Known, Made, MatchedIn
<1> QED BY <1>3, <1>4, <1>5, <1>6, <1>7 DEF States, Steady

LEMMA TransitionedKeeps ==
  ASSUME Inv, NEW r \in Requests, Transitioned(r), UNCHANGED shop PROVE Inv'
<1> PICK p, to : p = running[r].product /\ to = running[r].to
  OBVIOUS
<1>1. p \in Products /\ ProductLock(p) \in held[r] /\ Mergeable(p) /\ to \in {"DRAFT", "PENDING_REVIEW", "PUBLISHED", "ARCHIVED"}
  BY DEF Transitioned, Commits, Inv, Fits, FitsProduct
<1>2. Runs(r, Idle, {}) /\ UNCHANGED <<canonical, offers, variants, candidates, renames, listings, prices, recorded, told, notices>>
  BY DEF Transitioned, Commits, shop
<1>3. products \in [Products -> Product] /\ products[p] \in Product
  BY <1>1 DEF Inv, Typed
<1>4. PICK w : w = [products[p] EXCEPT !.status = to]
  OBVIOUS
<1>5. w \in Product /\ w.status = to /\ w.into = products[p].into
  BY <1>1, <1>3, <1>4 DEF Product
<1>6. products' = [products EXCEPT ![p] = w]
  BY <1>3, <1>4 DEF Transitioned
<1>7. w.status # "none" /\ w.status # "MERGED" /\ products[p].status # "MERGED"
  BY <1>1, <1>5 DEF Mergeable
<1>8. /\ products' \in [Products -> Product] /\ MergesEnd' /\ SteadyProducts(held[r])
      /\ \A o \in Products : /\ Exists(o) => Exists(o)'
                             /\ ~Exists(o)' => products'[o].name = None
                             /\ \A n \in Names : renames'[<<o, n>>] # "none" => Exists(o)'
  BY <1>1, <1>2, <1>5, <1>6, <1>7, OneProductChanges
<1>9. States' /\ Steady(held[r])
  BY <1>2, <1>8, ProductChanges
<1>10. Typed'
  BY <1>2, <1>8 DEF Runs, Inv, Typed
<1>11. Steady(held[r] \union {}) /\ FreeFor(r, {})
  BY <1>9, SteadyMore DEF FreeFor
<1> QED BY <1>2, <1>9, <1>10, <1>11, End

LEMMA CreateProductKeeps ==
  ASSUME Inv, NEW p \in Products, CreateProduct(p), UNCHANGED shop PROVE Inv'
<1>1. ~Exists(p) /\ products' = [products EXCEPT ![p] = NewProduct]
      /\ UNCHANGED <<running, held, canonical, offers, variants, candidates, renames, listings, prices, recorded, told, notices>>
  BY DEF CreateProduct, Writes, shop
<1>2. /\ NewProduct \in Product /\ NewProduct.into = None /\ NewProduct.name = None
      /\ NewProduct.status = "DRAFT"
  BY DEF NewProduct, Product
<1>3. products[p].into = None /\ products[p].status # "MERGED"
  BY <1>1 DEF Exists, Inv, States, MergesEnd
<1>4. /\ products' \in [Products -> Product] /\ MergesEnd' /\ SteadyProducts({})
      /\ \A o \in Products : /\ Exists(o) => Exists(o)'
                             /\ ~Exists(o)' => products'[o].name = None
                             /\ \A n \in Names : renames'[<<o, n>>] # "none" => Exists(o)'
  <2>1. NewProduct.status # "none" /\ NewProduct.status # "MERGED" /\ NewProduct.into = products[p].into
    BY <1>2, <1>3
  <2>2. PICK L : L = {}
    OBVIOUS
  <2> QED BY <1>1, <1>2, <1>3, <2>1, OneProductChanges
<1>5. States' /\ Steady({})
  BY <1>1, <1>4, ProductChanges
<1>6. Typed'
  BY <1>1, <1>4 DEF Inv, Typed
<1> QED BY <1>1, <1>5, <1>6, Aside DEF Free

(* An approved rename also writes the titles of the product's offers.            *)
LEMMA RenameDecidedKeeps ==
  ASSUME Inv, NEW r \in Requests, RenameDecided(r), UNCHANGED shop PROVE Inv'
<1> PICK q, p : q = running[r] /\ p = q.product
  OBVIOUS
<1>1. /\ p \in Products /\ q.name \in Names /\ q.approve \in BOOLEAN /\ ProductLock(p) \in held[r]
      /\ renames[<<p, q.name>>] = "PENDING" /\ Exists(p)
  BY DEF RenameDecided, Commits, Inv, States, References, Fits, FitsProduct
<1>2. Runs(r, Idle, {}) /\ UNCHANGED <<canonical, variants, candidates, listings, prices, recorded, told, notices, shop>>
  BY DEF RenameDecided, Commits, shop
<1>3. products \in [Products -> Product] /\ products[p] \in Product /\ offers \in [Offers -> Offer]
      /\ renames \in [Products \X Names -> {"none", "PENDING", "APPROVED", "REJECTED"}]
  BY <1>1 DEF Inv, Typed
<1>4. PICK name : name = IF q.approve THEN q.name ELSE products[p].name
  OBVIOUS
<1>5. PICK w : w = [products[p] EXCEPT !.name = name]
  OBVIOUS
<1>6. w \in Product /\ w.status = products[p].status /\ w.into = products[p].into
  BY <1>1, <1>3, <1>4, <1>5 DEF Product
<1>7. products' = [products EXCEPT ![p] = w]
  BY <1>3, <1>4, <1>5 DEF RenameDecided
<1>8. offers' \in [Offers -> Offer] /\ \A o \in Offers : offers'[o].product = offers[o].product /\ offers'[o].stale = offers[o].stale
  <2>1. PICK named : named = {o \in Offers : q.approve /\ offers[o].product = p}
    OBVIOUS
  <2>2. offers' = [o \in Offers |-> IF o \in named THEN [offers[o] EXCEPT !.title = q.name] ELSE offers[o]]
    BY <2>1 DEF RenameDecided
  <2>3. ASSUME NEW o \in Offers
        PROVE  offers'[o] \in Offer /\ offers'[o].product = offers[o].product /\ offers'[o].stale = offers[o].stale
    <3>1. PICK x : x = [offers[o] EXCEPT !.title = q.name]
      OBVIOUS
    <3>2. x \in Offer /\ x.product = offers[o].product /\ x.stale = offers[o].stale
      BY <1>1, <1>3, <3>1 DEF Offer
    <3> QED BY <1>3, <2>2, <3>1, <3>2
  <2> QED BY <2>2, <2>3
<1>9. /\ renames' \in [Products \X Names -> {"none", "PENDING", "APPROVED", "REJECTED"}]
      /\ \A o \in Products, n \in Names : o # p => renames'[<<o, n>>] = renames[<<o, n>>]
  <2>1. renames' = [k \in Products \X Names |->
          IF k = <<p, q.name>> THEN IF q.approve THEN "APPROVED" ELSE "REJECTED"
          ELSE IF k[1] = p /\ q.approve /\ renames[k] = "PENDING" THEN "REJECTED" ELSE renames[k]]
    BY <1>3 DEF RenameDecided
  <2>2. renames' \in [Products \X Names -> {"none", "PENDING", "APPROVED", "REJECTED"}]
    BY <1>3, <2>1
  <2>3. ASSUME NEW o \in Products, NEW n \in Names, o # p PROVE renames'[<<o, n>>] = renames[<<o, n>>]
    <3>1. <<o, n>> \in Products \X Names /\ <<o, n>>[1] = o /\ <<o, n>> # <<p, q.name>>
      BY <2>3
    <3> QED BY <2>1, <2>3, <3>1
  <2> QED BY <2>2, <2>3
<1>10. /\ products' \in [Products -> Product] /\ MergesEnd' /\ SteadyProducts(held[r])
       /\ \A o \in Products : /\ Exists(o) => Exists(o)'
                              /\ ~Exists(o)' => products'[o].name = None
                              /\ \A n \in Names : renames'[<<o, n>>] # "none" => Exists(o)'
  <2>1. w.status # "none"
    BY <1>1, <1>6 DEF Exists
  <2>2. w.status = "MERGED" <=> products[p].status = "MERGED"
    BY <1>6
  <2>3. /\ p \in Products /\ w \in Product /\ products' = [products EXCEPT ![p] = w] /\ w.into = products[p].into
        /\ ProductLock(p) \in held[r] /\ UNCHANGED canonical
        /\ \A o \in Products, n \in Names : o # p => renames'[<<o, n>>] = renames[<<o, n>>]
    BY <1>1, <1>2, <1>6, <1>7, <1>9
  <2> QED BY <2>1, <2>2, <2>3, OneProductChanges
<1>11. States' /\ Steady(held[r])
  BY <1>2, <1>8, <1>10, ProductChanges
<1>12. Typed'
  BY <1>2, <1>8, <1>9, <1>10 DEF Runs, Inv, Typed
<1>13. Steady(held[r] \union {}) /\ FreeFor(r, {})
  BY <1>11, SteadyMore DEF FreeFor
<1> QED BY <1>2, <1>11, <1>12, <1>13, End

LEMMA CreateCanonicalVariantKeeps ==
  ASSUME Inv, NEW c \in CanonicalVariants, NEW p \in Products, CreateCanonicalVariant(c, p), UNCHANGED shop PROVE Inv'
<1>1. /\ Free({ProductLock(p)}) /\ Exists(p) /\ canonical[c].product = None /\ canonical' = [canonical EXCEPT ![c].product = p]
      /\ UNCHANGED <<running, held, products, offers, variants, candidates, renames, listings, prices, recorded, told, notices>>
  BY DEF CreateCanonicalVariant, Writes, shop
<1>2. canonical \in [CanonicalVariants -> CanonicalVariant] /\ canonical[c] \in CanonicalVariant
  BY DEF Inv, Typed
<1>3. PICK w : w = [canonical[c] EXCEPT !.product = p]
  OBVIOUS
<1>4. w \in CanonicalVariant /\ w.product = p /\ p # None
  BY <1>2, <1>3, MatchingAssumption DEF CanonicalVariant
<1>5. canonical' = [canonical EXCEPT ![c] = w]
  BY <1>1, <1>2, <1>3
<1>6. /\ canonical' \in [CanonicalVariants -> CanonicalVariant] /\ canonical'[c].product = p
      /\ \A d \in CanonicalVariants : d # c => canonical'[d] = canonical[d]
  BY <1>2, <1>4, <1>5
<1>7. /\ \A d : Known(d) => d # c /\ d \in CanonicalVariants /\ canonical'[d] = canonical[d] /\ Known(d)'
      /\ \A o \in Products : Exists(o)' <=> Exists(o)
      /\ \A v \in Variants : Made(v)' <=> Made(v)
  BY <1>1, <1>6 DEF Known, Exists, Made
<1>8. References'
  <2>1. \A d \in CanonicalVariants : canonical'[d].product # None => Exists(canonical[d].product)'
    <3> TAKE d \in CanonicalVariants
    <3>1. CASE d = c
      <4>1. canonical'[d].product = p /\ Exists(p)'
        BY <1>1, <1>6, <1>7, <3>1
      <4> QED BY <4>1 DEF Exists
    <3>2. CASE d # c
      BY <1>1, <1>6, <3>2 DEF Exists, Inv, States, References
    <3> QED BY <3>1, <3>2
  <2>2. \A o \in Offers : offers'[o].product # None => Exists(offers[o].product)'
    BY <1>1 DEF Exists, Inv, States, References
  <2>3. \A v \in Variants : /\ variants'[v].match # None => Made(v)' /\ Known(variants[v].match)'
                            /\ variants'[v].proposal = "PENDING" => Known(variants[v].proposed)'
    <3> TAKE v \in Variants
    <3>1. /\ variants[v].match # None => Made(v) /\ Known(variants[v].match)
          /\ variants[v].proposal = "PENDING" => Known(variants[v].proposed)
      BY DEF Inv, States, References
    <3> QED BY <1>1, <1>7, <3>1 DEF Known
  <2>4. \A v \in Variants, d \in CanonicalVariants : candidates'[<<v, d>>].status # "absent" => Made(v)' /\ Known(d)'
    BY <1>1, <1>7 DEF Inv, States, References
  <2>5. \A o \in Products : /\ ~Exists(o)' => products'[o].name = None
                            /\ \A n \in Names : renames'[<<o, n>>] # "none" => Exists(o)'
    BY <1>1, <1>7 DEF Inv, States, References
  <2> QED BY <2>1, <2>2, <2>3, <2>4, <2>5 DEF References
<1>9. \A v \in Variants : variants[v].match # None => canonical'[variants[v].match] = canonical[variants[v].match]
  BY <1>7 DEF Inv, States, References
<1>10. OfferFollowsItsVariants'
  BY <1>1, <1>9 DEF Inv, States, OfferFollowsItsVariants
<1>11. MergesEnd' /\ PricesOnRecord' /\ ToldOfPublication' /\ ToldOfNotice'
  BY <1>1 DEF Inv, States, MergesEnd, PricesOnRecord, ToldOfPublication, ToldOfNotice, Made
<1>12. Typed'
  BY <1>1, <1>6 DEF Inv, Typed
<1>13. Steady({ProductLock(p)})
  <2>1. SteadyProducts({ProductLock(p)})
    <3>1. ASSUME NEW o \in Products, ProductLock(o) \notin {ProductLock(p)}, NEW d \in CanonicalVariants
          PROVE  canonical'[d].product = o <=> canonical[d].product = o
      <4>1. o # p /\ o # None
        BY <3>1, MatchingAssumption
      <4> QED BY <1>1, <1>6, <4>1
    <3> QED BY <1>1, <1>7, <3>1 DEF SteadyProducts
  <2>2. SteadyOffers({ProductLock(p)})
    BY <1>1 DEF SteadyOffers
  <2>3. SteadyVariants({ProductLock(p)})
    <3>1. \A v \in Variants, o \in Products : MatchedIn(v, o)' => MatchedIn(v, o)
      BY <1>1, <1>9 DEF MatchedIn
    <3> QED BY <1>1, <1>7, <3>1 DEF SteadyVariants
  <2> QED BY <2>1, <2>2, <2>3 DEF Steady
<1> QED BY <1>1, <1>8, <1>10, <1>11, <1>12, <1>13, Aside DEF States

(* The offer and the product after a link.                                     *)
LEMMA AdoptingFits ==
  ASSUME NEW offer \in Offer, NEW q, q.product \in Products, q.name \in Titles \union Names \union {None}, q.stale \in BOOLEAN
  PROVE  /\ Adopting(offer, q) \in Offer
         /\ Adopting(offer, q).product = IF offer.product = None THEN q.product ELSE offer.product
         /\ Adopting(offer, q).stale <=> offer.stale \/ q.stale
<1>1. PICK product, title : /\ product = (IF offer.product = None THEN q.product ELSE offer.product)
                            /\ title = (IF q.name = None THEN offer.title ELSE q.name)
  OBVIOUS
<1>2. PICK stale : stale = (offer.stale \/ q.stale)
  OBVIOUS
<1>3. product \in Products \union {None} /\ title \in Titles \union Names
  BY <1>1 DEF Offer
<1>4. PICK w : w = [offer EXCEPT !.product = product, !.title = title, !.stale = stale]
  OBVIOUS
<1>5. w = Adopting(offer, q)
  BY <1>1, <1>2, <1>4 DEF Adopting, Offer
<1>6. stale \in BOOLEAN
  BY <1>2
<1>7. w \in Offer /\ w.product = product /\ w.stale = stale
  BY <1>3, <1>4, <1>6 DEF Offer
<1>8. w.stale <=> offer.stale \/ q.stale
  BY <1>2, <1>7
<1> QED BY <1>1, <1>5, <1>7, <1>8

(* A variant is linked to a canonical variant, and its offer to the product.      *)
LEMMA LinkedKeeps ==
  ASSUME Inv, NEW r \in Requests, NEW q, q = running[r], q.op \in {"confirm", "approve"}, MayLink(r, q), Links(q),
         NEW w \in Variant, variants' = [variants EXCEPT ![q.variant] = w], w.match = q.canonical,
         w.offer = variants[q.variant].offer, w.proposal = "PENDING" => Known(w.proposed),
         candidates' \in [Variants \X CanonicalVariants -> Candidate],
         \A k \in Variants \X CanonicalVariants : candidates'[k].status # "absent" => Made(k[1]) /\ Known(k[2]),
         Runs(r, Idle, {}), UNCHANGED <<canonical, renames, shop>>
  PROVE  Inv'
<1> PICK v, o, p, c : v = q.variant /\ o = variants[v].offer /\ p = q.product /\ c = q.canonical
  OBVIOUS
<1>1. /\ v \in Variants /\ Made(v) /\ o \in Offers /\ OfferLock(o) \in held[r] /\ q.stale \in BOOLEAN /\ Known(c)
      /\ p \in Products /\ Exists(p) /\ q.name \in Titles \union Names \union {None} /\ p # None
      /\ ~q.stale => ProductLock(p) \in held[r] /\ canonical[c].product = p /\ offers[o].product \in {None, p}
  <2>1. FitsLink(q, held[r])
    BY DEF Inv, Fits
  <2> QED BY <2>1, MadeHasOffer, MatchingAssumption DEF FitsLink, Inv
<1>2. /\ products \in [Products -> Product] /\ products[p] \in Product /\ offers \in [Offers -> Offer] /\ offers[o] \in Offer
      /\ variants \in [Variants -> Variant] /\ canonical \in [CanonicalVariants -> CanonicalVariant]
  BY <1>1 DEF Inv, Typed
<1>30. PICK L : L = held[r] \union {VariantLock(q.variant), CanonicalLock(q.canonical)} \union
             (IF offers[o].product = None \/ q.name = None THEN {ProductLock(p)} ELSE {})
  OBVIOUS
<1>3. UNCHANGED <<listings, prices, recorded, told, notices>>
  BY DEF shop
<1>31. PICK os \in BOOLEAN : os = (offers[o].stale \/ q.stale)
  OBVIOUS
<1>4. PICK op : op = IF offers[o].product = None THEN p ELSE offers[o].product
  OBVIOUS
<1>5. PICK wo : wo = Adopting(offers[o], q)
  OBVIOUS
<1>6. wo \in Offer /\ wo.product = op /\ (wo.stale <=> os)
  <2>1. offers[o] \in Offer /\ q.product \in Products /\ q.name \in Titles \union Names \union {None} /\ q.stale \in BOOLEAN
    BY <1>1, <1>2
  <2>2. wo \in Offer /\ wo.product = op /\ (wo.stale <=> offers[o].stale \/ q.stale)
    BY <1>4, <1>5, <2>1, AdoptingFits
  <2> QED BY <1>31, <2>2
<1>7. offers' = [offers EXCEPT ![o] = wo]
  BY <1>5 DEF Links
<1>8. offers' \in [Offers -> Offer] /\ offers'[o] = wo /\ \A x \in Offers : x # o => offers'[x] = offers[x]
  <2>1. wo \in Offer /\ o \in Offers
    BY <1>1, <1>6
  <2> QED BY <1>2, <1>7, <2>1
<1>9. PICK name : name = IF q.name = None THEN offers[o].title ELSE products[p].name
  OBVIOUS
<1>32. PICK ps \in BOOLEAN : ps = (products[p].stale \/ q.stale)
  OBVIOUS
<1>10. PICK wp : wp = NamedAfter(offers[o], products[p], q)
  OBVIOUS
<1>11. wp \in Product /\ wp.name = name /\ wp.status = products[p].status /\ wp.into = products[p].into
  <2>1. name \in Titles \union Names \union {None}
    BY <1>1, <1>2, <1>9 DEF Offer, Product
  <2>2. wp = [products[p] EXCEPT !.name = name, !.stale = ps]
    BY <1>9, <1>10, <1>32 DEF NamedAfter
  <2> QED BY <1>2, <2>1, <2>2 DEF Product
<1>12. products' = [products EXCEPT ![p] = wp]
  BY <1>10 DEF Links
<1>13. /\ products' \in [Products -> Product] /\ MergesEnd' /\ SteadyProducts(L)
       /\ \A x \in Products : /\ Exists(x) => Exists(x)'
                              /\ ~Exists(x)' => products'[x].name = None
                              /\ \A n \in Names : renames'[<<x, n>>] # "none" => Exists(x)'
  <2>1. wp.status # "none" /\ (wp.status = "MERGED" <=> products[p].status = "MERGED")
    BY <1>1, <1>11 DEF Exists
  <2>2. ProductLock(p) \notin L => wp.name = products[p].name
    BY <1>9, <1>11, <1>30
  <2> QED BY <1>1, <1>11, <1>12, <2>1, <2>2, OneProductChanges
<1>14. variants' \in [Variants -> Variant] /\ variants'[v] = w /\ \A u \in Variants : u # v => variants'[u] = variants[u]
  BY <1>1, <1>2
<1>15. /\ \A u \in Variants : Made(u)' <=> Made(u)
       /\ \A u \in Variants : variants'[u].offer = variants[u].offer
       /\ \A d : Known(d)' <=> Known(d)
  BY <1>1, <1>14 DEF Made, Known
<1>16. References'
  <2>1. \A d \in CanonicalVariants : canonical'[d].product # None => Exists(canonical[d].product)'
    <3> TAKE d \in CanonicalVariants
    <3>1. canonical[d].product # None => canonical[d].product \in Products
      BY <1>2 DEF CanonicalVariant
    <3> QED BY <1>13, <3>1 DEF Inv, States, References
  <2>2. \A x \in Offers : offers'[x].product # None => Exists(offers[x].product)'
    <3> TAKE x \in Offers
    <3>1. offers[x].product # None => offers[x].product \in Products /\ Exists(offers[x].product)
      BY <1>2 DEF Offer, Inv, States, References
    <3>2. offers'[x].product \in {p, offers[x].product}
      BY <1>4, <1>6, <1>8
    <3>3. offers'[x].product # None => \E y \in Products : y = offers'[x].product /\ Exists(y)'
      BY <1>1, <1>13, <3>1, <3>2
    <3> QED BY <3>3 DEF Exists
  <2>3. \A u \in Variants : /\ variants'[u].match # None => Made(u)' /\ Known(variants[u].match)'
                            /\ variants'[u].proposal = "PENDING" => Known(variants[u].proposed)'
    <3> TAKE u \in Variants
    <3>1. CASE u = v
      BY <1>1, <1>14, <1>15, <3>1 DEF Known
    <3>2. CASE u # v
      BY <1>14, <1>15, <3>2 DEF Known, Inv, States, References
    <3> QED BY <3>1, <3>2
  <2>4. \A u \in Variants, d \in CanonicalVariants : candidates'[<<u, d>>].status # "absent" => Made(u)' /\ Known(d)'
    <3> TAKE u \in Variants, d \in CanonicalVariants
    <3>1. <<u, d>> \in Variants \X CanonicalVariants /\ <<u, d>>[1] = u /\ <<u, d>>[2] = d
      OBVIOUS
    <3> QED BY <1>15, <3>1
  <2> QED BY <1>13, <2>1, <2>2, <2>3, <2>4 DEF References
<1>17. OfferFollowsItsVariants'
  <2> SUFFICES ASSUME NEW u \in Variants, variants'[u].match # None, ~offers'[variants'[u].offer].stale
               PROVE  offers'[variants'[u].offer].product = canonical'[variants'[u].match].product
    BY DEF OfferFollowsItsVariants
  <2>1. CASE u = v
    <3>1. variants'[u].offer = o /\ variants'[u].match = c /\ ~q.stale
      BY <1>6, <1>8, <1>14, <1>15, <1>31, <2>1
    <3> QED BY <1>1, <1>4, <1>6, <1>8, <3>1
  <2>2. CASE u # v
    <3>1. variants[u].match # None /\ variants'[u] = variants[u]
      BY <1>14, <2>2
    <3>2. Known(variants[u].match) /\ Made(u) /\ variants[u].offer \in Offers
      BY <3>1, MadeHasOffer DEF Inv, States, References
    <3>3. ~offers[variants[u].offer].stale
      BY <1>6, <1>8, <1>31, <3>1, <3>2
    <3>4. offers[variants[u].offer].product = canonical[variants[u].match].product /\ offers[variants[u].offer].product # None
      BY <3>1, <3>2, <3>3 DEF Inv, States, OfferFollowsItsVariants, Known
    <3>5. offers'[variants[u].offer].product = offers[variants[u].offer].product
      BY <1>4, <1>6, <1>8, <3>2, <3>4
    <3> QED BY <3>1, <3>4, <3>5
  <2> QED BY <2>1, <2>2
<1>18. PricesOnRecord' /\ ToldOfPublication' /\ ToldOfNotice'
  BY <1>3, <1>15 DEF Inv, States, PricesOnRecord, ToldOfPublication, ToldOfNotice
<1>19. SteadyOffers(L)
  <2> SUFFICES ASSUME NEW x \in Offers
      PROVE  /\ offers[x].stale => offers'[x].stale
             /\ OfferLock(x) \notin L => offers'[x].product = offers[x].product
             /\ offers[x].product # None => offers'[x].product = offers[x].product
    BY <1>3 DEF SteadyOffers
  <2>1. CASE x = o
    <3>1. offers'[o] = wo /\ (offers[o].stale => os) /\ (offers[o].product # None => op = offers[o].product)
      BY <1>4, <1>8, <1>31
    <3>2. OfferLock(o) \in L
      BY <1>1, <1>30
    <3> QED BY <1>6, <2>1, <3>1, <3>2
  <2>2. CASE x # o
    BY <1>8, <2>2
  <2> QED BY <2>1, <2>2
<1>20. SteadyVariants(L)
  <2>1. ASSUME NEW u \in Variants, NEW t \in Products, ProductLock(t) \notin L, Regular(u)', MatchedIn(u, t)'
        PROVE  Made(u) /\ MatchedIn(u, t) /\ variants[u].match = variants'[u].match
    <3>1. CASE u = v
      <4>1. ~q.stale /\ canonical[c].product = t
        BY <1>6, <1>8, <1>14, <1>15, <1>31, <2>1, <3>1 DEF Regular, MatchedIn
      <4> QED BY <1>1, <1>30, <2>1, <4>1
    <3>2. CASE u # v
      BY <1>14, <2>1, <3>2 DEF MatchedIn, Inv, States, References
    <3> QED BY <3>1, <3>2
  <2> QED BY <1>3, <1>15, <2>1 DEF SteadyVariants
<1>21. PICK M : FreeFor(r, M) /\ L = held[r] \union M
  BY <1>30 DEF MayLink
<1>22. Typed'
  BY <1>3, <1>8, <1>13, <1>14 DEF Runs, Inv, Typed
<1> QED BY <1>13, <1>16, <1>17, <1>18, <1>19, <1>20, <1>21, <1>22, End DEF States, Steady

LEMMA ConfirmedKeeps ==
  ASSUME Inv, NEW r \in Requests, Confirmed(r), UNCHANGED shop PROVE Inv'
<1> PICK q : q = running[r]
  OBVIOUS
<1>1. /\ q.op = "confirm" /\ MayLink(r, q) /\ Links(q) /\ Runs(r, Idle, {}) /\ UNCHANGED <<canonical, candidates, renames, shop>>
      /\ variants' = [variants EXCEPT ![q.variant].match = q.canonical, ![q.variant].proposal = "CONFIRMED"]
  BY DEF Confirmed, Commits
<1>2. q.variant \in Variants /\ q.canonical \in CanonicalVariants
  BY <1>1 DEF Inv, Fits, FitsLink, Known
<1>3. variants \in [Variants -> Variant] /\ variants[q.variant] \in Variant
      /\ candidates \in [Variants \X CanonicalVariants -> Candidate]
  BY <1>2 DEF Inv, Typed
<1>4. PICK w : w = [variants[q.variant] EXCEPT !.match = q.canonical, !.proposal = "CONFIRMED"]
  OBVIOUS
<1>5. w \in Variant /\ w.match = q.canonical /\ w.offer = variants[q.variant].offer /\ w.proposal = "CONFIRMED"
  BY <1>2, <1>3, <1>4 DEF Variant
<1>6. variants' = [variants EXCEPT ![q.variant] = w]
  BY <1>1, <1>2, <1>3, <1>4 DEF Variant
<1>7. \A k \in Variants \X CanonicalVariants : candidates'[k].status # "absent" => Made(k[1]) /\ Known(k[2])
  BY <1>1, CandidatesKnown
<1>8. candidates' \in [Variants \X CanonicalVariants -> Candidate]
  BY <1>1, <1>3
<1>9. w.proposal = "PENDING" => Known(w.proposed)
  BY <1>5
<1>10. /\ q.op \in {"confirm", "approve"} /\ w.match = q.canonical /\ w.offer = variants[q.variant].offer
       /\ UNCHANGED <<canonical, renames, shop>>
  BY <1>1, <1>5
<1> QED BY <1>1, <1>5, <1>6, <1>7, <1>8, <1>9, <1>10, LinkedKeeps

LEMMA ApprovedKeeps ==
  ASSUME Inv, NEW r \in Requests, Approved(r), UNCHANGED shop PROVE Inv'
<1> PICK q : q = running[r]
  OBVIOUS
<1> PICK k, S : k = <<q.variant, q.canonical>> /\ S = Siblings(k)
  OBVIOUS
<1>1. /\ q.op = "approve" /\ MayLink(r, q) /\ Links(q) /\ Runs(r, Idle, {}) /\ UNCHANGED <<canonical, renames, shop>>
      /\ variants' = [variants EXCEPT ![q.variant].match = q.canonical]
  BY DEF Approved, Commits
<1>2. q.variant \in Variants /\ q.canonical \in CanonicalVariants /\ Made(q.variant) /\ Known(q.canonical)
  BY <1>1 DEF Inv, Fits, FitsLink, Known
<1>3. variants \in [Variants -> Variant] /\ variants[q.variant] \in Variant
      /\ candidates \in [Variants \X CanonicalVariants -> Candidate]
  BY <1>2 DEF Inv, Typed
<1>4. PICK w : w = [variants[q.variant] EXCEPT !.match = q.canonical]
  OBVIOUS
<1>5. w \in Variant /\ w.match = q.canonical /\ w.offer = variants[q.variant].offer
      /\ w.proposal = variants[q.variant].proposal /\ w.proposed = variants[q.variant].proposed
  BY <1>2, <1>3, <1>4 DEF Variant
<1>6. variants' = [variants EXCEPT ![q.variant] = w]
  BY <1>1, <1>3, <1>4
<1>7. candidates' = [j \in Variants \X CanonicalVariants |->
          IF j = k THEN [candidates[j] EXCEPT !.status = "APPROVED"]
          ELSE IF j \in S THEN [candidates[j] EXCEPT !.status = "REJECTED"] ELSE candidates[j]]
  BY <1>3 DEF Approved
<1>8. ASSUME NEW j \in Variants \X CanonicalVariants
      PROVE  candidates'[j] \in Candidate /\ (candidates'[j].status # "absent" => Made(j[1]) /\ Known(j[2]))
  <2>1. candidates[j] \in Candidate
    BY <1>3
  <2>2. PICK x, y : x = [candidates[j] EXCEPT !.status = "APPROVED"] /\ y = [candidates[j] EXCEPT !.status = "REJECTED"]
    OBVIOUS
  <2>3. x \in Candidate /\ y \in Candidate
    BY <2>1, <2>2 DEF Candidate
  <2>4. CASE j = k
    BY <1>2, <1>7, <2>2, <2>3, <2>4
  <2>5. CASE j # k /\ j \in S
    <3>1. candidates[j].status = "PENDING"
      BY <2>5 DEF Siblings
    <3>2. candidates'[j] = y
      BY <1>7, <2>2, <2>5
    <3> QED BY <2>3, <3>1, <3>2, CandidatesKnown
  <2>6. CASE j # k /\ j \notin S
    BY <1>7, <2>1, <2>6, CandidatesKnown
  <2> QED BY <2>4, <2>5, <2>6
<1>9. candidates' \in [Variants \X CanonicalVariants -> Candidate]
  BY <1>7, <1>8
<1>10. w.proposal = "PENDING" => Known(w.proposed)
  BY <1>2, <1>5, PendingKnown
<1> QED BY <1>1, <1>5, <1>6, <1>8, <1>9, <1>10, LinkedKeeps

(* The offers that a merge or a split moves are locked, and so is what they         *)
(* were linked to.                                                           *)
LEMMA MovedOffersLocked ==
  ASSUME NEW matched, NEW o, \E v \in matched : Made(v) /\ variants[v].offer = o PROVE OfferLock(o) \in RowLocks(matched)
BY DEF RowLocks, OffersOf

LEMMA TwinIs ==
  ASSUME NEW c, NEW p, Cardinality(Twins(c, p)) = 1
  PROVE  (CHOOSE d \in Twins(c, p) : TRUE) \in CanonicalVariants /\ canonical[CHOOSE d \in Twins(c, p) : TRUE].product = p
<1>1. PICK T : T = Twins(c, p)
  OBVIOUS
<1>2. T # {}
  BY <1>1, FS_EmptySet
<1>3. (CHOOSE d \in T : TRUE) \in T
  BY <1>2
<1> QED BY <1>1, <1>3 DEF Twins, CanonicalOf

LEMMA MergedStates ==
  ASSUME Inv, NEW a \in Products, NEW b \in Products, a # b, Mergeable(a), Mergeable(b), NEW moved \in SUBSET Offers,
         \A o \in moved : ~offers[o].stale => offers[o].product \in {a, b},
         \A v \in Variants : Made(v) /\ Regular(v) /\ (MatchedIn(v, a) \/ MatchedIn(v, b)) => variants[v].offer \in moved,
         NEW w \in Product, w.status = "MERGED", w.into = b, w.name = products[a].name, products' = [products EXCEPT ![a] = w],
         canonical' \in [CanonicalVariants -> CanonicalVariant],
         \A c \in CanonicalVariants : canonical'[c].product = canonical[c].product,
         variants' \in [Variants -> Variant],
         \A v \in Variants : /\ variants'[v].offer = variants[v].offer /\ variants'[v].proposal = variants[v].proposal
                             /\ variants'[v].proposed = variants[v].proposed
                             /\ IF MatchedIn(v, a) THEN Known(variants'[v].match) /\ canonical[variants'[v].match].product = b
                                ELSE variants'[v].match = variants[v].match,
         offers' \in [Offers -> Offer],
         \A o \in Offers : /\ offers'[o].stale = offers[o].stale
                           /\ offers'[o].product = IF o \in moved THEN b ELSE offers[o].product,
         NEW L, ProductLock(a) \in L, ProductLock(b) \in L, \A o \in moved : OfferLock(o) \in L,
         UNCHANGED <<candidates, renames, shop>>
  PROVE  products' \in [Products -> Product] /\ States' /\ Steady(L)
<1>1. products' \in [Products -> Product] /\ products'[a] = w /\ \A p \in Products : p # a => products'[p] = products[p]
  BY DEF Inv, Typed
<1>2. /\ \A p \in Products : Exists(p)' <=> Exists(p)
      /\ \A c : Known(c)' <=> Known(c)
      /\ \A v \in Variants : Made(v)' <=> Made(v)
      /\ Exists(b) /\ a # None /\ b # None
  BY <1>1, MatchingAssumption DEF Exists, Known, Made, Mergeable
<1>3. UNCHANGED <<listings, prices, recorded, told, notices>>
  BY DEF shop
<1>4. MergesEnd'
  <2>1. /\ \A p \in Products : products[p].into # None <=> products[p].status = "MERGED"
        /\ \A cycle \in (SUBSET Products) \ {{}} : \E p \in cycle : products[p].into \notin cycle
    BY DEF Inv, States, MergesEnd
  <2>2. \A p \in Products : products'[p].into # None <=> products'[p].status = "MERGED"
    BY <1>1, <1>2, <2>1
  <2>3. products'[b].into = None /\ products'[a].into = b
    BY <1>1, <2>1 DEF Mergeable
  <2>4. ASSUME NEW cycle \in (SUBSET Products) \ {{}} PROVE \E p \in cycle : products'[p].into \notin cycle
    <3>1. CASE a \notin cycle
      <4>1. PICK p \in cycle : products[p].into \notin cycle
        BY <2>1
      <4> QED BY <1>1, <3>1, <4>1
    <3>2. CASE a \in cycle /\ b \notin cycle
      BY <2>3, <3>2
    <3>3. CASE b \in cycle
      BY <2>3, <3>3, MatchingAssumption
    <3> QED BY <3>1, <3>2, <3>3
  <2> QED BY <2>2, <2>4 DEF MergesEnd
<1>5. References'
  <2>1. \A c \in CanonicalVariants : canonical'[c].product # None => Exists(canonical[c].product)'
    <3> TAKE c \in CanonicalVariants
    <3>1. canonical[c].product # None => canonical[c].product \in Products /\ Exists(canonical[c].product)
      BY DEF Inv, Typed, States, References, CanonicalVariant
    <3>2. canonical'[c].product # None => \E p \in Products : p = canonical'[c].product /\ Exists(p)'
      BY <1>2, <3>1
    <3> QED BY <3>2 DEF Exists
  <2>2. \A o \in Offers : offers'[o].product # None => Exists(offers[o].product)'
    <3> TAKE o \in Offers
    <3>1. offers[o].product # None => offers[o].product \in Products /\ Exists(offers[o].product)
      BY DEF Inv, Typed, States, References, Offer
    <3>2. offers'[o].product # None => \E p \in Products : p = offers'[o].product /\ Exists(p)'
      BY <1>2, <3>1
    <3> QED BY <3>2 DEF Exists
  <2>3. \A v \in Variants : /\ variants'[v].match # None => Made(v)' /\ Known(variants[v].match)'
                            /\ variants'[v].proposal = "PENDING" => Known(variants[v].proposed)'
    <3> TAKE v \in Variants
    <3>1. /\ variants[v].match # None => Made(v) /\ Known(variants[v].match)
          /\ variants[v].proposal = "PENDING" => Known(variants[v].proposed)
      BY DEF Inv, States, References
    <3>2. CASE MatchedIn(v, a)
      BY <1>2, <3>1, <3>2 DEF MatchedIn, Known
    <3>3. CASE ~MatchedIn(v, a)
      BY <1>2, <3>1, <3>3 DEF Known
    <3> QED BY <3>2, <3>3
  <2>4. \A v \in Variants, c \in CanonicalVariants : candidates'[<<v, c>>].status # "absent" => Made(v)' /\ Known(c)'
    BY <1>2 DEF Inv, States, References
  <2>5. \A p \in Products : /\ ~Exists(p)' => products'[p].name = None
                            /\ \A n \in Names : renames'[<<p, n>>] # "none" => Exists(p)'
    BY <1>1, <1>2 DEF Inv, States, References
  <2> QED BY <2>1, <2>2, <2>3, <2>4, <2>5 DEF References
<1>6. OfferFollowsItsVariants'
  <2> SUFFICES ASSUME NEW v \in Variants, variants'[v].match # None, ~offers'[variants'[v].offer].stale
               PROVE  offers'[variants'[v].offer].product = canonical'[variants'[v].match].product
    BY DEF OfferFollowsItsVariants
  <2>1. PICK o : o = variants[v].offer /\ o = variants'[v].offer
    OBVIOUS
  <2>2. variants[v].match # None
    BY DEF MatchedIn
  <2>3. Made(v) /\ o \in Offers /\ Known(variants[v].match)
    BY <2>1, <2>2, MadeHasOffer DEF Inv, States, References
  <2>4. Regular(v) /\ offers[o].product = canonical[variants[v].match].product /\ ~offers[o].stale
    BY <2>1, <2>2, <2>3 DEF Regular, Inv, States, OfferFollowsItsVariants
  <2>5. CASE MatchedIn(v, a)
    <3>1. o \in moved /\ Known(variants'[v].match) /\ canonical[variants'[v].match].product = b
      BY <2>1, <2>3, <2>4, <2>5
    <3> QED BY <2>1, <2>3, <3>1 DEF Known
  <2>6. CASE ~MatchedIn(v, a) /\ MatchedIn(v, b)
    <3>1. o \in moved /\ variants'[v].match = variants[v].match /\ canonical[variants[v].match].product = b
      BY <2>1, <2>3, <2>4, <2>6 DEF MatchedIn
    <3> QED BY <2>1, <2>3, <3>1 DEF Known
  <2>7. CASE ~MatchedIn(v, a) /\ ~MatchedIn(v, b)
    <3>1. variants'[v].match = variants[v].match /\ offers[o].product \notin {a, b}
      BY <2>2, <2>4, <2>7 DEF MatchedIn
    <3>2. o \notin moved
      BY <2>4, <3>1
    <3> QED BY <2>1, <2>3, <2>4, <3>1, <3>2 DEF Known
  <2> QED BY <2>5, <2>6, <2>7
<1>7. PricesOnRecord' /\ ToldOfPublication' /\ ToldOfNotice'
  BY <1>2, <1>3 DEF Inv, States, PricesOnRecord, ToldOfPublication, ToldOfNotice
<1>8. SteadyProducts(L)
  BY <1>1, <1>2 DEF SteadyProducts
<1>9. SteadyOffers(L)
  BY <1>3 DEF SteadyOffers
<1>10. SteadyVariants(L)
  <2>1. ASSUME NEW v \in Variants, NEW p \in Products, ProductLock(p) \notin L, MatchedIn(v, p)'
        PROVE  MatchedIn(v, p) /\ variants[v].match = variants'[v].match
    <3>1. CASE MatchedIn(v, a)
      BY <2>1, <3>1 DEF MatchedIn, Known
    <3>2. CASE ~MatchedIn(v, a)
      <4>1. variants'[v].match = variants[v].match /\ variants[v].match # None
        BY <2>1, <3>2 DEF MatchedIn
      <4>2. variants[v].match \in CanonicalVariants
        BY <4>1 DEF Inv, States, References, Known
      <4> QED BY <2>1, <4>1, <4>2 DEF MatchedIn
    <3> QED BY <3>1, <3>2
  <2>2. \A v \in Variants, p \in Products : Exists(p) /\ ProductLock(p) \notin L /\ Made(v)' /\ Regular(v)' /\ MatchedIn(v, p)'
          => Made(v) /\ MatchedIn(v, p) /\ variants[v].match = variants'[v].match
    BY <1>2, <2>1
  <2> QED BY <1>2, <1>3, <2>2 DEF SteadyVariants
<1> QED BY <1>1, <1>4, <1>5, <1>6, <1>7, <1>8, <1>9, <1>10 DEF States, Steady

LEMMA MergedKeeps ==
  ASSUME Inv, NEW r \in Requests, Merged(r), UNCHANGED shop PROVE Inv'
<1> PICK q : q = running[r]
  OBVIOUS
<1> PICK a, b, moved : a = q.loser /\ b = q.survivor /\ moved = q.offers
  OBVIOUS
<1>1. /\ q.op = "merge" /\ Runs(r, Idle, {}) /\ FreeFor(r, RowLocks(q.matched)) /\ UNCHANGED <<candidates, renames, shop>>
      /\ \A c \in CanonicalOf(a) : Cardinality(Twins(c, b)) = 1
  BY DEF Merged, Commits
<1>2. /\ a \in Products /\ b \in Products /\ a # b /\ ProductLock(a) \in held[r] /\ ProductLock(b) \in held[r]
      /\ Mergeable(a) /\ Mergeable(b) /\ q.matched \subseteq Variants
      /\ \A o \in moved : o \in Offers /\ \E v \in q.matched : Made(v) /\ variants[v].offer = o
      /\ \A o \in moved : ~offers[o].stale => offers[o].product \in {a, b}
      /\ \A v \in Variants : Made(v) /\ Regular(v) /\ (MatchedIn(v, a) \/ MatchedIn(v, b)) => variants[v].offer \in moved
  <2>1. FitsMerge(q, held[r])
    BY DEF Inv, Fits
  <2> QED BY <1>1, <2>1 DEF FitsMerge
<1>3. /\ products \in [Products -> Product] /\ offers \in [Offers -> Offer] /\ variants \in [Variants -> Variant]
      /\ canonical \in [CanonicalVariants -> CanonicalVariant]
  BY DEF Inv, Typed
<1>4. PICK L : L = held[r] \union RowLocks(q.matched)
  OBVIOUS
<1>5. \A o \in moved : OfferLock(o) \in L
  BY <1>2, <1>4, MovedOffersLocked
<1>6. PICK twin : /\ twin = [c \in CanonicalVariants |-> CHOOSE d \in Twins(c, b) : TRUE]
  OBVIOUS
<1>7. \A c \in CanonicalVariants : canonical[c].product = a => twin[c] \in CanonicalVariants /\ canonical[twin[c]].product = b
  BY <1>1, <1>6, TwinIs DEF CanonicalOf
<1>8. canonical' = [c \in CanonicalVariants |-> IF canonical[c].product = a THEN [canonical[c] EXCEPT !.into = twin[c]] ELSE canonical[c]]
  <2>1. canonical' = [c \in CanonicalVariants |->
          IF canonical[c].product = a THEN [canonical[c] EXCEPT !.into = CHOOSE d \in Twins(c, b) : TRUE] ELSE canonical[c]]
    BY DEF Merged
  <2> QED BY <1>6, <2>1
<1>9. /\ canonical' \in [CanonicalVariants -> CanonicalVariant]
      /\ \A c \in CanonicalVariants : canonical'[c].product = canonical[c].product
  <2>1. ASSUME NEW c \in CanonicalVariants PROVE canonical'[c] \in CanonicalVariant /\ canonical'[c].product = canonical[c].product
    <3>1. CASE canonical[c].product = a
      <4>1. PICK x : x = [canonical[c] EXCEPT !.into = twin[c]]
        OBVIOUS
      <4>2. x \in CanonicalVariant /\ x.product = canonical[c].product
        BY <1>3, <1>7, <3>1, <4>1 DEF CanonicalVariant
      <4> QED BY <1>8, <3>1, <4>1, <4>2
    <3>2. CASE canonical[c].product # a
      BY <1>3, <1>8, <3>2
    <3> QED BY <3>1, <3>2
  <2> QED BY <1>8, <2>1
<1>10. variants' = [v \in Variants |->
          IF v \in MatchedTo(CanonicalOf(a)) THEN [variants[v] EXCEPT !.match = CHOOSE d \in Twins(@, b) : TRUE] ELSE variants[v]]
  BY DEF Merged
<1>11. ASSUME NEW v \in Variants
       PROVE  /\ variants'[v] \in Variant
              /\ variants'[v].offer = variants[v].offer /\ variants'[v].proposal = variants[v].proposal
              /\ variants'[v].proposed = variants[v].proposed
              /\ IF MatchedIn(v, a) THEN Known(variants'[v].match) /\ canonical[variants'[v].match].product = b
                 ELSE variants'[v].match = variants[v].match
  <2>1. v \in MatchedTo(CanonicalOf(a)) <=> MatchedIn(v, a)
    <3>1. variants[v].match # None => variants[v].match \in CanonicalVariants
      BY DEF Inv, States, References, Known
    <3> QED BY <3>1, MatchingAssumption DEF MatchedTo, CanonicalOf, MatchedIn
  <2>2. CASE MatchedIn(v, a)
    <3>1. PICK d : d = CHOOSE e \in Twins(variants[v].match, b) : TRUE
      OBVIOUS
    <3>2. variants[v].match \in CanonicalOf(a)
      BY <2>1, <2>2 DEF MatchedTo
    <3>3. d \in CanonicalVariants /\ canonical[d].product = b /\ Known(d)
      BY <1>1, <1>2, <3>1, <3>2, TwinIs, MatchingAssumption DEF Known
    <3>4. PICK x : x = [variants[v] EXCEPT !.match = d]
      OBVIOUS
    <3>5. /\ x \in Variant /\ x.offer = variants[v].offer /\ x.match = d /\ x.proposal = variants[v].proposal
          /\ x.proposed = variants[v].proposed
      BY <1>3, <3>3, <3>4 DEF Variant
    <3>6. variants'[v] = x
      BY <1>10, <2>1, <2>2, <3>1, <3>4
    <3> QED BY <2>2, <3>3, <3>5, <3>6
  <2>3. CASE ~MatchedIn(v, a)
    <3>1. variants'[v] = variants[v]
      BY <1>10, <2>1, <2>3
    <3> QED BY <1>3, <2>3, <3>1
  <2> QED BY <2>2, <2>3
<1>12. variants' \in [Variants -> Variant]
  BY <1>10, <1>11
<1>13. /\ offers' \in [Offers -> Offer]
       /\ \A o \in Offers : /\ offers'[o].stale = offers[o].stale
                            /\ offers'[o].product = IF o \in moved THEN b ELSE offers[o].product
  <2>1. offers' = [o \in Offers |-> IF o \in moved THEN [offers[o] EXCEPT !.product = b] ELSE offers[o]]
    BY DEF Merged
  <2>2. ASSUME NEW o \in Offers
        PROVE  /\ offers'[o] \in Offer /\ offers'[o].stale = offers[o].stale
               /\ offers'[o].product = IF o \in moved THEN b ELSE offers[o].product
    <3>1. PICK x : x = [offers[o] EXCEPT !.product = b]
      OBVIOUS
    <3>2. x \in Offer /\ x.product = b /\ x.stale = offers[o].stale
      BY <1>2, <1>3, <3>1 DEF Offer
    <3> QED BY <1>3, <2>1, <3>1, <3>2
  <2> QED BY <2>1, <2>2
<1>14. PICK w : w = [products[a] EXCEPT !.status = "MERGED", !.into = b]
  OBVIOUS
<1>15. w \in Product /\ w.status = "MERGED" /\ w.into = b /\ w.name = products[a].name
  <2>1. products[a] \in Product /\ b \in Products \union {None}
    BY <1>2, <1>3
  <2> QED BY <1>14, <2>1 DEF Product
<1>16. products' = [products EXCEPT ![a] = w]
  BY <1>2, <1>3, <1>14 DEF Merged, Product
<1>17. products' \in [Products -> Product] /\ States' /\ Steady(L)
  <2>1. ProductLock(a) \in L /\ ProductLock(b) \in L /\ moved \in SUBSET Offers
    BY <1>2, <1>4
  <2>2. \A v \in Variants :
          /\ variants'[v].offer = variants[v].offer /\ variants'[v].proposal = variants[v].proposal
          /\ variants'[v].proposed = variants[v].proposed
          /\ IF MatchedIn(v, a) THEN Known(variants'[v].match) /\ canonical[variants'[v].match].product = b
             ELSE variants'[v].match = variants[v].match
    BY <1>11
  <2>3. a \in Products /\ b \in Products /\ a # b /\ Mergeable(a) /\ Mergeable(b) /\ w \in Product
    BY <1>2, <1>15
  <2>4. /\ \A o \in moved : ~offers[o].stale => offers[o].product \in {a, b}
        /\ \A v \in Variants : Made(v) /\ Regular(v) /\ (MatchedIn(v, a) \/ MatchedIn(v, b)) => variants[v].offer \in moved
    BY <1>2
  <2>5. w.status = "MERGED" /\ w.into = b /\ w.name = products[a].name
    BY <1>15
  <2>6. UNCHANGED <<candidates, renames, shop>>
    BY <1>1
  <2> QED BY <1>5, <1>9, <1>12, <1>13, <1>16, <2>1, <2>2, <2>3, <2>4, <2>5, <2>6, MergedStates
<1>18. Typed'
  BY <1>1, <1>9, <1>12, <1>13, <1>17 DEF Runs, Inv, Typed, shop
<1> QED BY <1>1, <1>4, <1>17, <1>18, End

SplitShape(p, new, moving, moved) ==
  /\ Exists(p) /\ ~Exists(new) /\ \A c \in moving : canonical[c].product = p
  /\ \A o \in moved : ~offers[o].stale => offers[o].product = p
  /\ \A v \in Variants : Made(v) /\ Regular(v) /\ MatchedIn(v, p) => (variants[v].match \in moving <=> variants[v].offer \in moved)
  /\ products' = [products EXCEPT ![new] = NewProduct]
  /\ canonical' \in [CanonicalVariants -> CanonicalVariant]
  /\ \A c \in CanonicalVariants : canonical'[c].product = IF c \in moving THEN new ELSE canonical[c].product
  /\ offers' \in [Offers -> Offer]
  /\ \A o \in Offers : /\ offers'[o].stale = offers[o].stale
                       /\ offers'[o].product = IF o \in moved THEN new ELSE offers[o].product
  /\ UNCHANGED <<variants, candidates, renames, shop>>

LEMMA SplitStates ==
  ASSUME Inv, NEW p \in Products, NEW new \in Products, NEW moving \in SUBSET CanonicalVariants, NEW moved \in SUBSET Offers,
         SplitShape(p, new, moving, moved), NEW L, ProductLock(p) \in L, \A o \in moved : OfferLock(o) \in L
  PROVE  products' \in [Products -> Product] /\ States' /\ Steady(L)
<1> USE DEF SplitShape
<1>0. NewProduct \in Product /\ NewProduct.status = "DRAFT" /\ NewProduct.into = None /\ NewProduct.name = None
  BY DEF NewProduct, Product
<1>1. products' \in [Products -> Product] /\ products'[new] = NewProduct /\ \A q \in Products : q # new => products'[q] = products[q]
  BY <1>0 DEF Inv, Typed
<1>2. /\ \A q \in Products : Exists(q) => Exists(q)' /\ q # new
      /\ Exists(new)' /\ new # None /\ p # new
      /\ \A c : Known(c) => Known(c)'
      /\ \A v \in Variants : Made(v)' <=> Made(v)
  BY <1>0, <1>1, MatchingAssumption DEF Exists, Known, Made
<1>3. UNCHANGED <<listings, prices, recorded, told, notices>>
  BY DEF shop
<1>4. MergesEnd'
  <2>1. \A q \in Products : products'[q].into = products[q].into /\ (products'[q].status = "MERGED" <=> products[q].status = "MERGED")
    BY <1>0, <1>1 DEF Exists, Inv, States, MergesEnd
  <2>2. \A q \in Products : products'[q].into # None <=> products'[q].status = "MERGED"
    BY <2>1 DEF Inv, States, MergesEnd
  <2>3. \A cycle \in (SUBSET Products) \ {{}} : \E q \in cycle : products'[q].into \notin cycle
    BY <2>1 DEF Inv, States, MergesEnd
  <2> QED BY <2>2, <2>3 DEF MergesEnd
<1>5. References'
  <2>1. \A c \in CanonicalVariants : canonical'[c].product # None => Exists(canonical[c].product)'
    <3> TAKE c \in CanonicalVariants
    <3>1. canonical[c].product # None => canonical[c].product \in Products /\ Exists(canonical[c].product)
      BY DEF Inv, Typed, States, References, CanonicalVariant
    <3>2. canonical'[c].product # None => \E q \in Products : q = canonical'[c].product /\ Exists(q)'
      BY <1>2, <3>1
    <3> QED BY <3>2 DEF Exists
  <2>2. \A o \in Offers : offers'[o].product # None => Exists(offers[o].product)'
    <3> TAKE o \in Offers
    <3>1. offers[o].product # None => offers[o].product \in Products /\ Exists(offers[o].product)
      BY DEF Inv, Typed, States, References, Offer
    <3>2. offers'[o].product # None => \E q \in Products : q = offers'[o].product /\ Exists(q)'
      BY <1>2, <3>1
    <3> QED BY <3>2 DEF Exists
  <2>3. \A v \in Variants : /\ variants'[v].match # None => Made(v)' /\ Known(variants[v].match)'
                            /\ variants'[v].proposal = "PENDING" => Known(variants[v].proposed)'
    <3> TAKE v \in Variants
    <3>1. /\ variants[v].match # None => Made(v) /\ Known(variants[v].match)
          /\ variants[v].proposal = "PENDING" => Known(variants[v].proposed)
      BY DEF Inv, States, References
    <3> QED BY <1>2, <3>1 DEF Known
  <2>4. \A v \in Variants, c \in CanonicalVariants : candidates'[<<v, c>>].status # "absent" => Made(v)' /\ Known(c)'
    BY <1>2 DEF Inv, States, References
  <2>5. \A q \in Products : /\ ~Exists(q)' => products'[q].name = None
                            /\ \A n \in Names : renames'[<<q, n>>] # "none" => Exists(q)'
    BY <1>1, <1>2 DEF Exists, Inv, States, References
  <2> QED BY <2>1, <2>2, <2>3, <2>4, <2>5 DEF References
<1>6. OfferFollowsItsVariants'
  <2> SUFFICES ASSUME NEW v \in Variants, variants[v].match # None, ~offers'[variants[v].offer].stale
               PROVE  offers'[variants[v].offer].product = canonical'[variants[v].match].product
    BY DEF OfferFollowsItsVariants
  <2>1. PICK o, c : o = variants[v].offer /\ c = variants[v].match
    OBVIOUS
  <2>2. Made(v) /\ o \in Offers /\ Known(c) /\ c \in CanonicalVariants
    BY <2>1, MadeHasOffer DEF Inv, States, References, Known
  <2>3. Regular(v) /\ offers[o].product = canonical[c].product /\ ~offers[o].stale
    BY <2>1, <2>2 DEF Regular, Inv, States, OfferFollowsItsVariants
  <2>4. CASE canonical[c].product = p
    <3>1. c \in moving <=> o \in moved
      BY <2>1, <2>2, <2>3, <2>4 DEF MatchedIn
    <3> QED BY <2>1, <2>2, <2>3, <3>1
  <2>5. CASE canonical[c].product # p
    <3>1. c \notin moving /\ o \notin moved
      BY <2>3, <2>5
    <3> QED BY <2>1, <2>2, <2>3, <3>1
  <2> QED BY <2>4, <2>5
<1>7. PricesOnRecord' /\ ToldOfPublication' /\ ToldOfNotice'
  BY <1>2, <1>3 DEF Inv, States, PricesOnRecord, ToldOfPublication, ToldOfNotice
<1>8. SteadyProducts(L)
  <2>1. ASSUME NEW q \in Products, Exists(q), ProductLock(q) \notin L, NEW c \in CanonicalVariants
        PROVE  canonical'[c].product = q <=> canonical[c].product = q
    <3>1. q # p /\ q # new
      BY <1>2, <2>1
    <3> QED BY <3>1
  <2> QED BY <1>1, <1>2, <2>1 DEF SteadyProducts
<1>9. SteadyOffers(L)
  BY <1>3 DEF SteadyOffers
<1>10. SteadyVariants(L)
  <2>1. ASSUME NEW v \in Variants, NEW q \in Products, Exists(q), ProductLock(q) \notin L, MatchedIn(v, q)'
        PROVE  MatchedIn(v, q)
    <3>1. variants[v].match # None /\ canonical'[variants[v].match].product = q /\ variants[v].match \in CanonicalVariants
      BY <2>1 DEF MatchedIn, Inv, States, References, Known
    <3>2. q # new
      BY <1>2, <2>1
    <3> QED BY <3>1, <3>2 DEF MatchedIn
  <2> QED BY <1>2, <1>3, <2>1 DEF SteadyVariants
<1> QED BY <1>1, <1>4, <1>5, <1>6, <1>7, <1>8, <1>9, <1>10 DEF States, Steady

LEMMA SplitEndsKeeps ==
  ASSUME Inv, NEW r \in Requests, NEW new \in Products, SplitEnds(r, new), UNCHANGED shop PROVE Inv'
<1> PICK q : q = running[r]
  OBVIOUS
<1> PICK moving, moved : moving = q.moving /\ moved = q.offers
  OBVIOUS
<1>1. /\ q.op = "split" /\ Runs(r, Idle, {}) /\ FreeFor(r, RowLocks(q.matched)) /\ UNCHANGED <<variants, candidates, renames, shop>>
      /\ ~Exists(new) /\ products' = [products EXCEPT ![new] = NewProduct]
  BY DEF SplitEnds, Commits
<1>2. PICK p \in Products :
      /\ ProductLock(p) \in held[r] /\ Exists(p) /\ moving \subseteq CanonicalVariants /\ q.matched \subseteq Variants
      /\ \A c \in moving : canonical[c].product = p
      /\ \A o \in moved : o \in Offers /\ \E v \in q.matched : Made(v) /\ variants[v].offer = o
      /\ \A o \in moved : ~offers[o].stale => offers[o].product = p
      /\ \A v \in Variants : Made(v) /\ Regular(v) /\ MatchedIn(v, p) => (variants[v].match \in moving <=> variants[v].offer \in moved)
  <2>1. FitsSplit(q, held[r])
    BY DEF Inv, Fits
  <2> QED BY <1>1, <2>1 DEF FitsSplit
<1>3. /\ offers \in [Offers -> Offer] /\ canonical \in [CanonicalVariants -> CanonicalVariant]
  BY DEF Inv, Typed
<1>4. PICK L : L = held[r] \union RowLocks(q.matched)
  OBVIOUS
<1>5. \A o \in moved : OfferLock(o) \in L
  BY <1>2, <1>4, MovedOffersLocked
<1>6. /\ canonical' \in [CanonicalVariants -> CanonicalVariant]
      /\ \A c \in CanonicalVariants : canonical'[c].product = IF c \in moving THEN new ELSE canonical[c].product
  <2>1. canonical' = [c \in CanonicalVariants |-> IF c \in moving THEN [canonical[c] EXCEPT !.product = new] ELSE canonical[c]]
    BY DEF SplitEnds
  <2>2. ASSUME NEW c \in CanonicalVariants
        PROVE  canonical'[c] \in CanonicalVariant /\ canonical'[c].product = IF c \in moving THEN new ELSE canonical[c].product
    <3>1. PICK x : x = [canonical[c] EXCEPT !.product = new]
      OBVIOUS
    <3>2. x \in CanonicalVariant /\ x.product = new
      BY <1>3, <3>1 DEF CanonicalVariant
    <3> QED BY <1>3, <2>1, <3>1, <3>2
  <2> QED BY <2>1, <2>2
<1>7. /\ offers' \in [Offers -> Offer]
      /\ \A o \in Offers : /\ offers'[o].stale = offers[o].stale
                           /\ offers'[o].product = IF o \in moved THEN new ELSE offers[o].product
  <2>1. offers' = [o \in Offers |-> IF o \in moved THEN [offers[o] EXCEPT !.product = new] ELSE offers[o]]
    BY DEF SplitEnds
  <2>2. ASSUME NEW o \in Offers
        PROVE  /\ offers'[o] \in Offer /\ offers'[o].stale = offers[o].stale
               /\ offers'[o].product = IF o \in moved THEN new ELSE offers[o].product
    <3>1. PICK x : x = [offers[o] EXCEPT !.product = new]
      OBVIOUS
    <3>2. x \in Offer /\ x.product = new /\ x.stale = offers[o].stale
      BY <1>3, <3>1 DEF Offer
    <3> QED BY <1>3, <2>1, <3>1, <3>2
  <2> QED BY <2>1, <2>2
<1>8. products' \in [Products -> Product] /\ States' /\ Steady(L)
  <2>1. ProductLock(p) \in L /\ moved \in SUBSET Offers /\ moving \in SUBSET CanonicalVariants
    BY <1>2, <1>4
  <2>2. SplitShape(p, new, moving, moved)
    BY <1>1, <1>2, <1>6, <1>7 DEF SplitShape
  <2> QED BY <1>5, <2>1, <2>2, SplitStates
<1>9. Typed'
  BY <1>1, <1>6, <1>7, <1>8 DEF Runs, Inv, Typed, shop
<1> QED BY <1>1, <1>4, <1>8, <1>9, End

----------------------------------------------------------------------------
(* The initial states, each step, and every reachable state.                    *)
LEMMA InitTyped ==
  ASSUME CatalogueInit
  PROVE  /\ Typed /\ Exclusive /\ \A r \in Requests : Fits(running[r], held[r])
         /\ \A k \in Products \X Names : renames[k] = "none"
         /\ \A e \in Events : told[e] = 0
<1>1. PICK start \in Starts :
       /\ products = start.products /\ canonical = start.canonical /\ offers = start.offers
       /\ variants = start.variants /\ candidates = start.candidates
  BY DEF CatalogueInit, Init
<1>2. /\ products \in [Products -> Product] /\ canonical \in [CanonicalVariants -> CanonicalVariant]
      /\ offers \in [Offers -> Offer] /\ variants \in [Variants -> Variant]
      /\ candidates \in [Variants \X CanonicalVariants -> Candidate]
  BY <1>1, MatchingAssumption DEF WellFormed
<1>3. renames = [k \in Products \X Names |-> "none"] /\ running = [r \in Requests |-> Idle] /\ held = [r \in Requests |-> {}]
  BY DEF CatalogueInit, Init, NothingRuns
<1>4. renames \in [Products \X Names -> {"none", "PENDING", "APPROVED", "REJECTED"}]
  BY <1>3
<1>5. listings \in [Offers -> Listing]
  <2>1. /\ [status |-> "none", published |-> FALSE] \in Listing
        /\ [status |-> "DRAFT", published |-> FALSE] \in Listing
    BY DEF Listing
  <2>2. \A o \in Offers : (IF VariantsOf(o) = {} THEN Unlisted ELSE [status |-> "DRAFT", published |-> FALSE]) \in Listing
    BY <2>1 DEF Unlisted
  <2> QED BY <2>2 DEF CatalogueInit
<1>6. prices \in [Variants -> Prices] /\ recorded = prices
  <2>1. (CHOOSE p \in ListPrices : TRUE) \in ListPrices
    BY CatalogueAssumption
  <2>2. [list |-> CHOOSE p \in ListPrices : TRUE, window |-> None] \in Prices
    BY <2>1 DEF Prices
  <2> QED BY <2>2 DEF CatalogueInit
<1>7. told = [e \in Events |-> 0]
  BY DEF CatalogueInit
<1>8. told \in [Events -> Nat]
  BY <1>7
<1>9. Typed
  BY <1>2, <1>3, <1>4, <1>5, <1>6, <1>8 DEF Typed
<1> QED BY <1>3, <1>7, <1>9, IdleFits DEF Exclusive

LEMMA InitReferences ==
  ASSUME CatalogueInit PROVE References /\ OfferFollowsItsVariants /\ MergesEnd
<1>1. PICK start \in Starts :
       /\ products = start.products /\ canonical = start.canonical /\ offers = start.offers
       /\ variants = start.variants /\ candidates = start.candidates
  BY DEF CatalogueInit, Init
<1>2. WellFormed(start)
  BY MatchingAssumption
<1>3. Typed /\ \A k \in Products \X Names : renames[k] = "none"
  BY InitTyped
<1>4. MergesEnd
  BY <1>1, <1>2 DEF WellFormed, MergesEnd
<1>5. ASSUME NEW v \in Variants, variants[v].match # None
      PROVE  /\ Made(v) /\ Known(variants[v].match)
             /\ offers[variants[v].offer].product = canonical[variants[v].match].product
  <2>1. variants[v].match \in CanonicalVariants
    BY <1>3, <1>5 DEF Typed, Variant
  <2> QED BY <1>1, <1>2, <1>5, <2>1 DEF WellFormed, Made, Known
<1>6. ASSUME NEW v \in Variants, variants[v].proposal = "PENDING" PROVE Known(variants[v].proposed)
  <2>1. variants[v].proposed \in CanonicalVariants \union {None}
    BY <1>3 DEF Typed, Variant
  <2>2. variants[v].proposed # None /\ canonical[variants[v].proposed].product # None
    BY <1>1, <1>2, <1>6 DEF WellFormed
  <2> QED BY <2>1, <2>2 DEF Known
<1>7. ASSUME NEW v \in Variants, NEW c \in CanonicalVariants, candidates[<<v, c>>].status # "absent" PROVE Made(v) /\ Known(c)
  <2>1. PICK k \in Variants \X CanonicalVariants : k = <<v, c>>
    OBVIOUS
  <2>2. variants[k[1]].offer # None /\ canonical[k[2]].product # None
    BY <1>1, <1>2, <1>7, <2>1 DEF WellFormed
  <2> QED BY <2>1, <2>2 DEF Made, Known
<1>8. /\ \A c \in CanonicalVariants : canonical[c].product # None => Exists(canonical[c].product)
      /\ \A o \in Offers : offers[o].product # None => Exists(offers[o].product)
      /\ \A p \in Products : ~Exists(p) => products[p].name = None
  BY <1>1, <1>2 DEF WellFormed, Exists
<1>9. \A p \in Products, n \in Names : <<p, n>> \in Products \X Names /\ renames[<<p, n>>] = "none"
  BY <1>3
<1>10. References
  BY <1>5, <1>6, <1>7, <1>8, <1>9 DEF References
<1> QED BY <1>4, <1>5, <1>10 DEF OfferFollowsItsVariants

LEMMA InitHolds == ASSUME CatalogueInit PROVE Inv
<1>1. Typed /\ Exclusive /\ \A r \in Requests : Fits(running[r], held[r])
  BY InitTyped
<1>2. \A e \in Events : told[e] = 0
  BY InitTyped
<1>3. ToldOfNotice
  BY <1>2 DEF ToldOfNotice, Events
<1>4. ToldOfPublication
  BY <1>2 DEF ToldOfPublication, Events
<1>5. PricesOnRecord
  BY DEF PricesOnRecord, CatalogueInit
<1> QED BY <1>1, <1>3, <1>4, <1>5, InitReferences DEF Inv, States

LEMMA StutterKeeps == ASSUME Inv, UNCHANGED vars PROVE Inv'
BY UnmovedKeeps DEF vars, shop, transactions

(* Matching's steps leave the shop alone.                                     *)
LEMMA MatchingKeeps == ASSUME Inv, MatchingNext, UNCHANGED shop PROVE Inv'
<1>1. CASE \E r \in Requests, v \in Variants :
             \/ Search(r, v) \/ \E confirm \in BOOLEAN : ConfirmReads(r, v, confirm)
             \/ \E reporter \in Reporters : Report(r, v, reporter)
  BY <1>1, SearchBegins, ConfirmReadsBegins, ReportBegins
<1>2. CASE \E r \in Requests, k \in DOMAIN candidates, approve \in BOOLEAN : DecideReads(r, k, approve)
  BY <1>2, DecideReadsBegins
<1>3. ASSUME NEW r \in Requests, NEW p \in Products,
             \/ \E survivor \in Products : Merge(r, p, survivor)
             \/ \E moving \in SUBSET CanonicalOf(p) : Split(r, p, moving)
             \/ \E to \in NextStatus[products[p].status] : Transition(r, p, to)
             \/ \E n \in Names, approve \in BOOLEAN : DecideRename(r, p, n, approve)
             \/ SplitEnds(r, p)
      PROVE  Inv'
  <2>1. CASE \E survivor \in Products : Merge(r, p, survivor)
    BY <2>1, MergeBegins
  <2>2. CASE \E moving \in SUBSET CanonicalOf(p) : Split(r, p, moving)
    BY <2>2, SplitBegins
  <2>3. CASE \E to \in NextStatus[products[p].status] : Transition(r, p, to)
    BY <2>3, TransitionBegins
  <2>4. CASE \E n \in Names, approve \in BOOLEAN : DecideRename(r, p, n, approve)
    BY <2>4, DecideRenameBegins
  <2>5. CASE SplitEnds(r, p)
    BY <2>5, SplitEndsKeeps
  <2> QED BY <1>3, <2>1, <2>2, <2>3, <2>4, <2>5
<1>4. ASSUME NEW r \in Requests,
             \/ SearchEnds(r) \/ ConfirmLocks(r) \/ Confirmed(r) \/ Declined(r) \/ DecideLocks(r) \/ Approved(r) \/ Rejected(r)
             \/ ReportCounts(r) \/ Reported(r) \/ Merged(r) \/ Transitioned(r) \/ RenameDecided(r) \/ RollsBack(r)
      PROVE  Inv'
  <2>1. CASE SearchEnds(r) \/ ConfirmLocks(r) \/ Confirmed(r) \/ Declined(r)
    BY <2>1, SearchEndsKeeps, ConfirmGoesOn, ConfirmedKeeps, DeclinedKeeps
  <2>2. CASE DecideLocks(r) \/ Approved(r) \/ Rejected(r) \/ ReportCounts(r) \/ Reported(r)
    BY <2>2, DecideGoesOn, ApprovedKeeps, RejectedKeeps, ReportGoesOn, ReportedKeeps
  <2>3. CASE Merged(r) \/ Transitioned(r) \/ RenameDecided(r) \/ RollsBack(r)
    BY <2>3, MergedKeeps, TransitionedKeeps, RenameDecidedKeeps, RollsBackKeeps
  <2> QED BY <1>4, <2>1, <2>2, <2>3
<1>5. ASSUME NEW p \in Products,
             \/ SetRestricted(p) \/ CreateProduct(p)
             \/ \E c \in CanonicalVariants : CreateCanonicalVariant(c, p)
             \/ \E n \in Names : RequestRename(p, n)
      PROVE  Inv'
  BY <1>5, SetRestrictedKeeps, CreateProductKeeps, CreateCanonicalVariantKeeps, RequestRenameKeeps
<1> QED BY <1>1, <1>2, <1>3, <1>4, <1>5 DEF MatchingNext

LEMMA NextPreserves == ASSUME Inv, Next PROVE Inv'
<1>1. CASE MatchingNext /\ UNCHANGED shop
  BY <1>1, MatchingKeeps
<1>2. ASSUME NEW r \in Requests, NEW o \in Offers,
             \/ UpdateOffer(r, o) \/ \E to \in {"ACTIVE", "INACTIVE", "DRAFT", "ARCHIVED"} : UpdateStatus(r, o, to)
             \/ \E identifier \in Identifiers : \/ \E price \in Prices : CreateVariant(r, o, identifier, price)
                                                \/ \E reuse \in BOOLEAN : Import(r, o, identifier, reuse)
      PROVE  Inv'
  BY <1>2, UpdateOfferBegins, UpdateStatusBegins, CreateVariantBegins, ImportBegins
<1>3. ASSUME NEW r \in Requests, NEW v \in Variants,
             \/ VariantCreated(r, v) \/ \E price \in ListPrices : Imported(r, v, [list |-> price, window |-> None])
             \/ \E price \in Prices : UpdateVariant(r, v, variants[v].identifier, price, FALSE)
             \/ \E identifier \in Identifiers : UpdateVariant(r, v, identifier, prices[v], TRUE)
      PROVE  Inv'
  <2>1. /\ variants[v].identifier \in CanonicalVariants \union {None} /\ prices[v] \in Prices
        /\ Identifiers \subseteq CanonicalVariants \union {None}
    BY CatalogueAssumption DEF Inv, Typed, Variant
  <2>2. CASE VariantCreated(r, v) \/ \E price \in ListPrices : Imported(r, v, [list |-> price, window |-> None])
    BY <2>2, VariantCreatedKeeps, ImportedKeeps
  <2>3. CASE \E price \in Prices : UpdateVariant(r, v, variants[v].identifier, price, FALSE)
    BY <2>1, <2>3, UpdateVariantBegins
  <2>4. CASE \E identifier \in Identifiers : UpdateVariant(r, v, identifier, prices[v], TRUE)
    BY <2>1, <2>4, UpdateVariantBegins
  <2> QED BY <1>3, <2>2, <2>3, <2>4
<1>4. ASSUME NEW r \in Requests, OfferUpdated(r) \/ StatusUpdated(r) \/ VariantUpdated(r) \/ Sweep(r) \/ TryNotify(r) PROVE Inv'
  BY <1>4, OfferUpdatedKeeps, StatusUpdatedKeeps, VariantUpdatedKeeps, SweepBegins, TryNotifyKeeps
<1>5. CASE \E o \in Offers : CreateOffer(o)
  BY <1>5, CreateOfferKeeps
<1>6. CASE (\E v \in Variants : AddImage(v) \/ RemoveImage(v)) \/ \E w \in Windows : WindowPasses(w)
  BY <1>6, UnmovedKeeps DEF AddImage, RemoveImage, WindowPasses, Writes, transactions
<1> QED BY <1>1, <1>2, <1>3, <1>4, <1>5, <1>6 DEF Next

LEMMA InvHolds == Spec => []Inv
<1>1. CatalogueInit => Inv
  BY InitHolds
<1>2. Inv /\ [Next]_vars => Inv'
  BY NextPreserves, StutterKeeps
<1> QED BY <1>1, <1>2, PTL DEF Spec

----------------------------------------------------------------------------
(* When a step changes the name of a product.                                  *)
Named(p) ==
  products[p].name # None /\ products'[p].name # products[p].name
    => products'[p].stale \/ \E n \in Names : renames[<<p, n>>] = "PENDING" /\ renames'[<<p, n>>] = "APPROVED"

LEMMA OneRowKeepsNames ==
  ASSUME Inv, NEW q \in Products, NEW w, products' = [products EXCEPT ![q] = w],
         products[q].name # None => w.name = products[q].name \/ w.stale
  PROVE  \A p \in Products : Named(p)
<1> TAKE p \in Products
<1>1. products'[p] = IF p = q THEN w ELSE products[p]
  BY DEF Inv, Typed
<1> QED BY <1>1 DEF Named

(* The first confirmation names a product that has no name; the lookup of a lock    *)
(* that led to another product is marked.                                      *)
LEMMA LinksKeepNames ==
  ASSUME Inv, NEW r \in Requests, NEW q, q = running[r], q.op \in {"confirm", "approve"}, Links(q)
  PROVE  \A p \in Products : Named(p)
<1>1. FitsLink(q, held[r])
  BY DEF Inv, Fits
<1>2. q.product \in Products /\ q.stale \in BOOLEAN /\ (~q.stale /\ q.name = None => products[q.product].name = None)
  BY <1>1 DEF FitsLink
<1>3. PICK x, o : x = products[q.product] /\ o = offers[variants[q.variant].offer]
  OBVIOUS
<1>4. x \in Product
  BY <1>2, <1>3 DEF Inv, Typed
<1>5. products' = [products EXCEPT ![q.product] = NamedAfter(o, x, q)]
  BY <1>3 DEF Links
<1>6. NamedAfter(o, x, q).name = (IF q.name = None THEN o.title ELSE x.name) /\ (q.stale => NamedAfter(o, x, q).stale)
  BY <1>4 DEF NamedAfter, Product
<1> QED BY <1>2, <1>3, <1>5, <1>6, OneRowKeepsNames

LEMMA RenameKeepsNames ==
  ASSUME Inv, NEW r \in Requests, RenameDecided(r) PROVE \A p \in Products : Named(p)
<1> TAKE p \in Products
<1>1. PICK q : q = running[r]
  OBVIOUS
<1>2. /\ q.op = "rename" /\ products' = [products EXCEPT ![q.product].name = IF q.approve THEN q.name ELSE @]
      /\ renames' = [k \in DOMAIN renames |->
          IF k = <<q.product, q.name>> THEN IF q.approve THEN "APPROVED" ELSE "REJECTED"
          ELSE IF k[1] = q.product /\ q.approve /\ renames[k] = "PENDING" THEN "REJECTED" ELSE renames[k]]
  BY <1>1 DEF RenameDecided, Commits
<1>3. q.product \in Products /\ q.name \in Names /\ renames[<<q.product, q.name>>] = "PENDING"
  BY <1>1, <1>2 DEF Inv, Fits, FitsProduct
<1>4. PICK x : x = products[q.product]
  OBVIOUS
<1>5. x \in Product /\ products' = [products EXCEPT ![q.product] = [x EXCEPT !.name = IF q.approve THEN q.name ELSE @]]
  BY <1>2, <1>3, <1>4 DEF Inv, Typed
<1>6. products'[p] = IF p = q.product THEN [x EXCEPT !.name = IF q.approve THEN q.name ELSE @] ELSE products[p]
  BY <1>5 DEF Inv, Typed
<1>7. CASE p = q.product /\ q.approve
  <2>1. <<q.product, q.name>> \in DOMAIN renames
    BY <1>3 DEF Inv, Typed
  <2>2. renames'[<<q.product, q.name>>] = "APPROVED"
    BY <1>2, <1>7, <2>1
  <2> QED BY <1>3, <1>7, <2>2 DEF Named
<1>8. CASE ~(p = q.product /\ q.approve)
  <2>1. products'[p].name = products[p].name
    BY <1>4, <1>5, <1>6, <1>8 DEF Product
  <2> QED BY <2>1 DEF Named
<1> QED BY <1>7, <1>8

LEMMA MatchingKeepsNames ==
  ASSUME Inv, MatchingNext PROVE \A p \in Products : Named(p)
<1>1. ASSUME UNCHANGED products PROVE \A p \in Products : Named(p)
  BY <1>1 DEF Named
<1>2. ASSUME NEW r \in Requests, NEW v \in Variants,
             \/ Search(r, v) \/ \E confirm \in BOOLEAN : ConfirmReads(r, v, confirm)
             \/ \E reporter \in Reporters : Report(r, v, reporter)
      PROVE  UNCHANGED products
  BY <1>2 DEF Search, ConfirmReads, Report, catalogue
<1>3. ASSUME NEW r \in Requests, NEW k \in DOMAIN candidates, NEW approve \in BOOLEAN, DecideReads(r, k, approve)
      PROVE  UNCHANGED products
  BY <1>3 DEF DecideReads, catalogue
<1>4. ASSUME NEW r \in Requests, NEW p \in Products,
             \/ \E survivor \in Products : Merge(r, p, survivor)
             \/ \E moving \in SUBSET CanonicalOf(p) : Split(r, p, moving)
             \/ \E to \in NextStatus[products[p].status] : Transition(r, p, to)
             \/ \E n \in Names, approve \in BOOLEAN : DecideRename(r, p, n, approve)
      PROVE  UNCHANGED products
  BY <1>4 DEF Merge, Split, Transition, DecideRename, catalogue
<1>5. ASSUME NEW p \in Products, ~Exists(p), products' = [products EXCEPT ![p] = NewProduct]
      PROVE  \A o \in Products : Named(o)
  <2>1. products[p].name = None
    BY <1>5 DEF Inv, States, References
  <2> QED BY <1>5, <2>1, OneRowKeepsNames
<1>6. ASSUME NEW r \in Requests, NEW p \in Products, SplitEnds(r, p) PROVE \A o \in Products : Named(o)
  BY <1>5, <1>6 DEF SplitEnds
<1>7. ASSUME NEW r \in Requests,
             \/ SearchEnds(r) \/ ConfirmLocks(r) \/ Declined(r) \/ DecideLocks(r) \/ Rejected(r)
             \/ ReportCounts(r) \/ Reported(r) \/ RollsBack(r)
      PROVE  UNCHANGED products
  BY <1>7 DEF SearchEnds, ConfirmLocks, Declined, DecideLocks, Rejected, ReportCounts, Reported, RollsBack, catalogue
<1>8. ASSUME NEW r \in Requests, Confirmed(r) \/ Approved(r) PROVE \A o \in Products : Named(o)
  BY <1>8, LinksKeepNames DEF Confirmed, Approved, Commits
<1>9. ASSUME NEW r \in Requests, Merged(r) PROVE \A o \in Products : Named(o)
  <2>1. PICK a, x : a = running[r].loser /\ x = products[a]
    OBVIOUS
  <2>2. a \in Products
    BY <1>9, <2>1 DEF Merged, Commits, Inv, Fits, FitsMerge
  <2>3. x \in Product
    BY <2>1, <2>2 DEF Inv, Typed
  <2>4. products' = [products EXCEPT ![a].status = "MERGED", ![a].into = running[r].survivor]
    BY <1>9, <2>1 DEF Merged
  <2>5. products' = [products EXCEPT ![a] = [x EXCEPT !.status = "MERGED", !.into = running[r].survivor]]
    BY <2>1, <2>2, <2>4 DEF Inv, Typed
  <2>6. [x EXCEPT !.status = "MERGED", !.into = running[r].survivor].name = x.name
    BY <2>3 DEF Product
  <2> QED BY <2>1, <2>2, <2>5, <2>6, OneRowKeepsNames
<1>10. ASSUME NEW r \in Requests, Transitioned(r) PROVE \A o \in Products : Named(o)
  <2>1. PICK a, x : a = running[r].product /\ x = products[a]
    OBVIOUS
  <2>2. a \in Products
    BY <1>10, <2>1 DEF Transitioned, Commits, Inv, Fits, FitsProduct
  <2>3. x \in Product
    BY <2>1, <2>2 DEF Inv, Typed
  <2>4. products' = [products EXCEPT ![a] = [x EXCEPT !.status = running[r].to]]
    BY <1>10, <2>1, <2>2 DEF Transitioned, Inv, Typed
  <2>5. [x EXCEPT !.status = running[r].to].name = x.name
    BY <2>3 DEF Product
  <2> QED BY <2>1, <2>2, <2>4, <2>5, OneRowKeepsNames
<1>11. ASSUME NEW p \in Products,
             \/ SetRestricted(p) \/ CreateProduct(p)
             \/ \E c \in CanonicalVariants : CreateCanonicalVariant(c, p)
             \/ \E n \in Names : RequestRename(p, n)
      PROVE  \A o \in Products : Named(o)
  <2>1. CASE SetRestricted(p)
    <3>1. PICK x : x = products[p]
      OBVIOUS
    <3>2. x \in Product
      BY <3>1 DEF Inv, Typed
    <3>3. products' = [products EXCEPT ![p] = [x EXCEPT !.restricted = ~@]]
      BY <2>1, <3>1 DEF SetRestricted, Inv, Typed
    <3>4. [x EXCEPT !.restricted = ~@].name = x.name
      BY <3>2 DEF Product
    <3> QED BY <3>1, <3>3, <3>4, OneRowKeepsNames
  <2>2. CASE CreateProduct(p)
    BY <1>5, <2>2 DEF CreateProduct
  <2>3. CASE (\E c \in CanonicalVariants : CreateCanonicalVariant(c, p)) \/ \E n \in Names : RequestRename(p, n)
    BY <1>1, <2>3 DEF CreateCanonicalVariant, RequestRename
  <2> QED BY <1>11, <2>1, <2>2, <2>3
<1>12. ASSUME NEW r \in Requests, RenameDecided(r) PROVE \A p \in Products : Named(p)
  BY <1>12, RenameKeepsNames
<1> QED BY <1>1, <1>2, <1>3, <1>4, <1>6, <1>7, <1>8, <1>9, <1>10, <1>11, <1>12 DEF MatchingNext

LEMMA NextKeepsNames == ASSUME Inv, [Next]_vars PROVE \A p \in Products : Named(p)
<1>1. ASSUME UNCHANGED products PROVE \A p \in Products : Named(p)
  BY <1>1 DEF Named
<1>2. ASSUME NEW r \in Requests, NEW o \in Offers,
             \/ UpdateOffer(r, o) \/ \E to \in {"ACTIVE", "INACTIVE", "DRAFT", "ARCHIVED"} : UpdateStatus(r, o, to)
             \/ \E identifier \in Identifiers : \/ \E price \in Prices : CreateVariant(r, o, identifier, price)
                                                \/ \E reuse \in BOOLEAN : Import(r, o, identifier, reuse)
      PROVE  UNCHANGED products
  BY <1>2 DEF UpdateOffer, UpdateStatus, CreateVariant, Import, catalogue
<1>3. ASSUME NEW r \in Requests, NEW v \in Variants,
             \/ VariantCreated(r, v) \/ \E price \in ListPrices : Imported(r, v, [list |-> price, window |-> None])
             \/ \E price \in Prices : UpdateVariant(r, v, variants[v].identifier, price, FALSE)
             \/ \E identifier \in Identifiers : UpdateVariant(r, v, identifier, prices[v], TRUE)
      PROVE  UNCHANGED products
  BY <1>3 DEF VariantCreated, Imported, UpdateVariant, catalogue
<1>4. ASSUME NEW r \in Requests, OfferUpdated(r) \/ StatusUpdated(r) \/ VariantUpdated(r) \/ Sweep(r) \/ TryNotify(r)
      PROVE  UNCHANGED products
  BY <1>4 DEF OfferUpdated, StatusUpdated, VariantUpdated, Sweep, TryNotify, catalogue
<1>5. CASE (\E o \in Offers : CreateOffer(o)) \/ (\E v \in Variants : AddImage(v) \/ RemoveImage(v)) \/ \E w \in Windows : WindowPasses(w)
  BY <1>1, <1>5 DEF CreateOffer, AddImage, RemoveImage, WindowPasses, catalogue
<1>6. CASE UNCHANGED vars
  BY <1>1, <1>6 DEF vars, catalogue
<1>7. CASE MatchingNext
  BY <1>7, MatchingKeepsNames
<1> QED BY <1>1, <1>2, <1>3, <1>4, <1>5, <1>6, <1>7 DEF Next

----------------------------------------------------------------------------
(* Every row keeps its shape, whatever requests overlap (the columns of           *)
(* schema.prisma).                                                            *)
THEOREM CatalogueTyped == Spec => []Typed
BY InvHolds, PTL DEF Inv

(* No offer's variants are matched to two products, whatever is confirmed,         *)
(* approved, merged or split at the same time (applyOnConfirm(), merge(),         *)
(* split()).                                                                  *)
THEOREM OfferFollowsItsVariantsHolds == Spec => []OfferFollowsItsVariants
BY InvHolds, PTL DEF Inv, States

(* A merged product stays merged, and the redirects end, however merges and        *)
(* transitions overlap (merge(), attemptTransition()).                          *)
THEOREM MergesEndHolds == Spec => []MergesEnd
BY InvHolds, PTL DEF Inv, States

(* The newest row of the price history is the price, whichever edits of the          *)
(* variant overlap (updateVariant()).                                           *)
THEOREM PricesOnRecordHolds == Spec => []PricesOnRecord
BY InvHolds, PTL DEF Inv, States

(* A follower hears of a publication or of a discount at most once, from any         *)
(* number of requests and ticks (updateStatus(), tryNotifyOnce()).                *)
THEOREM ToldOnceHolds == Spec => []ToldOnce
<1>1. ASSUME Inv PROVE ToldOnce
  <2>1. /\ \A o \in Offers : told[<<"published", o>>] \in {0, 1}
        /\ \A n \in Variants \X Windows : told[<<"sweep", n>>] \in {0, 1}
    BY <1>1 DEF Inv, States, ToldOfPublication, ToldOfNotice
  <2> QED BY <2>1 DEF ToldOnce
<1> QED BY <1>1, InvHolds, PTL

(* A product keeps its first name until a pending rename is approved, however          *)
(* many offers are confirmed at once (applyOnConfirm(), decideNameChangeRequest()). *)
THEOREM NameIsFirstConfirmedHolds == Spec => NameIsFirstConfirmed
<1>1. Inv /\ [Next]_vars => [\A p \in Products :
       products[p].name # None /\ products'[p].name # products[p].name
         => products'[p].stale \/ \E n \in Names : renames[<<p, n>>] = "PENDING" /\ renames'[<<p, n>>] = "APPROVED"]_vars
  BY NextKeepsNames DEF Named
<1> QED BY <1>1, InvHolds, PTL DEF Spec, NameIsFirstConfirmed
=============================================================================
