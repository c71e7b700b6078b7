------------------------------ MODULE Matching ------------------------------
(***************************************************************************)
(* Matching: the platform's canonical products and the vendors' offers that   *)
(* are matched to them.  A vendor confirms the exact match proposed for a     *)
(* variant, or approves a candidate of the review queue; a customer reports   *)
(* a wrong match; the platform merges, splits, renames and publishes.        *)
(* The lock order is product, offer, offer variant, canonical variant.        *)
(***************************************************************************)
EXTENDS Transactions

CONSTANTS Products, CanonicalVariants, Offers, Variants, Reporters,
          Names,      \* names a vendor may request for a product
          Titles,     \* titles of offers
          Structure,  \* [CanonicalVariants -> structural attributes]
          Resembles,  \* [Variants -> SUBSET CanonicalVariants], above the score threshold
          Starts,     \* initial states: a record of the variables below
          None

VARIABLES products, canonical, offers,
          variants,    \* the vendors' offer variants
          candidates,  \* [Variants \X CanonicalVariants -> review candidate]
          renames      \* [Products \X Names -> status of the change request]

catalogue == <<products, canonical, offers, variants, candidates, renames>>

ProductLock(p) == <<"product", p>>
OfferLock(o) == <<"offer", o>>
VariantLock(v) == <<"variant", v>>
CandidateLock(k) == <<"candidate", k>>
CanonicalLock(c) == <<"canonical", c>>

CanonicalOf(p) == {c \in CanonicalVariants : canonical[c].product = p}
MatchedTo(cs) == {v \in Variants : variants[v].match \in cs}
OffersOf(vs) == {variants[v].offer : v \in vs}
RowLocks(vs) == {OfferLock(o) : o \in OffersOf(vs)} \union {VariantLock(v) : v \in vs}
Matchable(c) == canonical[c].product # None /\ ~products[canonical[c].product].restricted

NewProduct == [status |-> "DRAFT", into |-> None, restricted |-> FALSE, name |-> None, stale |-> FALSE]
NewCandidate == [status |-> "PENDING", reports |-> {}]

Product ==
  [status : {"none", "DRAFT", "PENDING_REVIEW", "PUBLISHED", "ARCHIVED", "MERGED"}, into : Products \union {None},
   restricted : BOOLEAN, name : Titles \union Names \union {None}, stale : BOOLEAN]
CanonicalVariant == [product : Products \union {None}, into : CanonicalVariants \union {None}]
Offer == [product : Products \union {None}, title : Titles \union Names, stale : BOOLEAN]
Variant ==
  [offer : Offers \union {None}, identifier : CanonicalVariants \union {None}, proposed : CanonicalVariants \union {None},
   proposal : {"NONE", "PENDING", "CONFIRMED", "REJECTED"}, match : CanonicalVariants \union {None}]
Candidate == [status : {"absent", "PENDING", "APPROVED", "REJECTED"}, reports : SUBSET Reporters]

(* A catalogue to start from: rows refer to rows that exist, merges end, and an   *)
(* offer follows its variants.                                               *)
WellFormed(s) ==
  /\ s.products \in [Products -> Product] /\ s.canonical \in [CanonicalVariants -> CanonicalVariant]
  /\ s.offers \in [Offers -> Offer] /\ s.variants \in [Variants -> Variant]
  /\ s.candidates \in [Variants \X CanonicalVariants -> Candidate]
  /\ \A p \in Products : /\ s.products[p].into # None <=> s.products[p].status = "MERGED"
                         /\ s.products[p].status = "none" => s.products[p].name = None
  /\ \A cycle \in (SUBSET Products) \ {{}} : \E p \in cycle : s.products[p].into \notin cycle
  /\ \A c \in CanonicalVariants : s.canonical[c].product # None => s.products[s.canonical[c].product].status # "none"
  /\ \A o \in Offers : s.offers[o].product # None => s.products[s.offers[o].product].status # "none"
  /\ \A v \in Variants :
       LET x == s.variants[v]
       IN /\ x.match # None => /\ x.offer # None /\ s.canonical[x.match].product # None
                               /\ s.offers[x.offer].product = s.canonical[x.match].product
          /\ x.proposal = "PENDING" => x.proposed # None /\ s.canonical[x.proposed].product # None
  /\ \A k \in Variants \X CanonicalVariants :
       s.candidates[k].status # "absent" => s.variants[k[1]].offer # None /\ s.canonical[k[2]].product # None

ASSUME MatchingAssumption ==
  /\ None \notin Products /\ None \notin CanonicalVariants /\ None \notin Offers /\ None \notin Titles \union Names
  /\ \A start \in Starts : WellFormed(start)

Init ==
  /\ \E start \in Starts :
       /\ products = start.products /\ canonical = start.canonical /\ offers = start.offers
       /\ variants = start.variants /\ candidates = start.candidates
  /\ renames = [k \in Products \X Names |-> "none"] /\ NothingRuns

(***************************************************************************)
(* Proposals and candidates                                                 *)
(***************************************************************************)
(* findExactMatch(): identifiers stand for the canonical variant that carries  *)
(* them; neither a merged variant nor a merged product is passed over.        *)
ExactMatch(identifier) == IF identifier # None /\ canonical[identifier].product # None THEN identifier ELSE None
Proposal(variant, identifier) ==
  [variant EXCEPT !.identifier = identifier, !.proposed = ExactMatch(identifier),
                  !.proposal = IF ExactMatch(identifier) = None THEN "NONE" ELSE "PENDING"]

(* searchNonExactCandidates(): a row for each new resemblance; a decided row    *)
(* stays as it is.                                                           *)
Searched(vs) ==
  [k \in DOMAIN candidates |->
     IF k[1] \in vs /\ k[2] \in Resembles[k[1]] /\ Matchable(k[2]) /\ candidates[k].status = "absent"
     THEN NewCandidate ELSE candidates[k]]

Search(r, v) ==
  /\ variants[v].offer # None /\ variants[v].match = None
  /\ Begins(r, [op |-> "search", variant |-> v], {}) /\ UNCHANGED catalogue
SearchEnds(r) ==
  /\ Commits(r, "search") /\ candidates' = Searched({running[r].variant})
  /\ UNCHANGED <<products, canonical, offers, variants, renames>>

(***************************************************************************)
(* A vendor decides on a match                                              *)
(***************************************************************************)
\* Slip: the product is not locked before the offer.
OfferOnly(target, o) == {OfferLock(o)}
DecisionLocks(target, o) == {OfferLock(o)} \union {ProductLock(p) : p \in {target} \ {None}}

Target(c) == IF c = None THEN None ELSE canonical[c].product

(* What the transaction reads of the product it is about to link to; stale if   *)
(* that is not the product whose lock the lookup before it led to.            *)
Read(op, v, c, target) ==
  [op |-> op, variant |-> v, canonical |-> c, product |-> canonical[c].product,
   stale |-> target # canonical[c].product, name |-> products[canonical[c].product].name]
FitsOffer(v, c) == offers[variants[v].offer].product \in {None, canonical[c].product}

(* The updates lock the variant, and share the rows their keys refer to.        *)
MayLink(r, q) ==
  FreeFor(r, {VariantLock(q.variant), CanonicalLock(q.canonical)} \union
             IF offers[variants[q.variant].offer].product = None \/ q.name = None THEN {ProductLock(q.product)} ELSE {})

(* applyOnConfirm(): the first offer names the product, a later one adopts.    *)
Adopting(offer, q) ==
  [offer EXCEPT !.product = IF @ = None THEN q.product ELSE @, !.title = IF q.name = None THEN @ ELSE q.name,
                !.stale = @ \/ q.stale]
NamedAfter(offer, product, q) ==
  [product EXCEPT !.name = IF q.name = None THEN offer.title ELSE @, !.stale = @ \/ q.stale]
Links(q) ==
  LET o == variants[q.variant].offer
  IN /\ offers' = [offers EXCEPT ![o] = Adopting(@, q)]
     /\ products' = [products EXCEPT ![q.product] = NamedAfter(offers[o], @, q)]

(* confirmMatch(): the product to lock is looked up before the transaction.     *)
ConfirmReads(r, v, confirm) ==
  /\ variants[v].offer # None
  /\ Begins(r, [op |-> "confirm_reads", variant |-> v, confirm |-> confirm,
                target |-> IF confirm THEN Target(variants[v].proposed) ELSE None], {})
  /\ UNCHANGED catalogue
ConfirmLocks(r) ==
  LET q == running[r] v == q.variant
  IN /\ q.op = "confirm_reads" /\ variants[v].proposal = "PENDING"
     /\ q.confirm => FitsOffer(v, variants[v].proposed)
     /\ Proceeds(r, IF q.confirm THEN Read("confirm", v, variants[v].proposed, q.target)
                                 ELSE [op |-> "decline", variant |-> v],
                 DecisionLocks(q.target, variants[v].offer))
     /\ UNCHANGED catalogue
Confirmed(r) ==
  LET q == running[r]
  IN /\ Commits(r, "confirm") /\ MayLink(r, q) /\ Links(q)
     /\ variants' = [variants EXCEPT ![q.variant].match = q.canonical, ![q.variant].proposal = "CONFIRMED"]
     /\ UNCHANGED <<canonical, candidates, renames>>
Declined(r) ==
  /\ Commits(r, "decline") /\ FreeFor(r, {VariantLock(running[r].variant)})
  /\ variants' = [variants EXCEPT ![running[r].variant].proposal = "REJECTED"]
  /\ UNCHANGED <<products, canonical, offers, candidates, renames>>

(* decide() of the review queue: the same for a candidate.                    *)
DecideReads(r, k, approve) ==
  /\ candidates[k].status # "absent"
  /\ Begins(r, [op |-> "decide_reads", candidate |-> k, approve |-> approve, target |-> IF approve THEN Target(k[2]) ELSE None], {})
  /\ UNCHANGED catalogue
DecideLocks(r) ==
  LET q == running[r] k == q.candidate
  IN /\ q.op = "decide_reads" /\ candidates[k].status = "PENDING"
     /\ q.approve => FitsOffer(k[1], k[2])
     /\ Proceeds(r, IF q.approve THEN Read("approve", k[1], k[2], q.target) ELSE [op |-> "reject", candidate |-> k],
                 DecisionLocks(q.target, variants[k[1]].offer))
     /\ UNCHANGED catalogue
Siblings(k) == {j \in DOMAIN candidates : j[1] = k[1] /\ j # k /\ candidates[j].status = "PENDING"}
Approved(r) ==
  LET q == running[r] k == <<q.variant, q.canonical>>
  IN /\ Commits(r, "approve") /\ MayLink(r, q) /\ Links(q)
     /\ FreeFor(r, {CandidateLock(j) : j \in Siblings(k) \union {k}})
     /\ variants' = [variants EXCEPT ![q.variant].match = q.canonical]
     /\ candidates' = [j \in DOMAIN candidates |->
          IF j = k THEN [candidates[j] EXCEPT !.status = "APPROVED"]
          ELSE IF j \in Siblings(k) THEN [candidates[j] EXCEPT !.status = "REJECTED"] ELSE candidates[j]]
     /\ UNCHANGED <<canonical, renames>>
Rejected(r) ==
  /\ Commits(r, "reject") /\ FreeFor(r, {CandidateLock(running[r].candidate)})
  /\ candidates' = [candidates EXCEPT ![running[r].candidate].status = "REJECTED"]
  /\ UNCHANGED <<products, canonical, offers, variants, renames>>

(***************************************************************************)
(* A customer reports a match                                               *)
(***************************************************************************)
ReportLocks(k) == {CandidateLock(k)}

(* report(): the match is read before the transaction; one without a candidate  *)
(* gets one, if it was confirmed exactly.                                    *)
Report(r, v, reporter) ==
  LET k == <<v, variants[v].match>>
  IN /\ variants[v].match # None
     /\ Begins(r, [op |-> "report_reads", candidate |-> k, reporter |-> reporter, exact |-> variants[v].proposal = "CONFIRMED"], {})
     /\ UNCHANGED catalogue
ReportCounts(r) ==
  LET q == running[r] k == q.candidate c == candidates[k]
  IN /\ q.op = "report_reads" /\ q.reporter \notin c.reports
     /\ c.status = "absent" => q.exact
     /\ Proceeds(r, [op |-> "report", candidate |-> k, reporter |-> q.reporter,
                     requeue |-> c.reports = {} /\ c.status \in {"APPROVED", "REJECTED"}], ReportLocks(k))
     /\ UNCHANGED catalogue
Reported(r) ==
  LET q == running[r] k == q.candidate
  IN /\ Commits(r, "report")
     /\ candidates' = [candidates EXCEPT ![k] =
          [status |-> IF q.requeue \/ @.status = "absent" THEN "PENDING" ELSE @.status,
           reports |-> @.reports \union {q.reporter}]]
     /\ UNCHANGED <<products, canonical, offers, variants, renames>>

(***************************************************************************)
(* The platform's canonical products                                        *)
(***************************************************************************)
\* Slip: variants and offers are looked up before any lock is taken.
DiscoverFirst(loser, survivor) == {}
MergeLocks(loser, survivor) == {ProductLock(loser), ProductLock(survivor)}

Exists(p) == products[p].status # "none"
Mergeable(p) == products[p].status \notin {"none", "MERGED"}

(* merge(): the products are locked, then what is matched to them is read.      *)
Merge(r, loser, survivor) ==
  LET matched == MatchedTo(CanonicalOf(loser) \union CanonicalOf(survivor))
  IN /\ loser # survivor /\ Mergeable(loser) /\ Mergeable(survivor)
     /\ Begins(r, [op |-> "merge", loser |-> loser, survivor |-> survivor, matched |-> matched, offers |-> OffersOf(matched)],
               MergeLocks(loser, survivor))
     /\ UNCHANGED catalogue

Twins(c, survivor) == {d \in CanonicalOf(survivor) : Structure[d] = Structure[c]}
(* The offers and variants read are locked as well, and every canonical        *)
(* variant of the loser needs exactly one counterpart.                       *)
Merged(r) ==
  LET q == running[r]
      twin(c) == CHOOSE d \in Twins(c, q.survivor) : TRUE
  IN /\ Commits(r, "merge") /\ FreeFor(r, RowLocks(q.matched))
     /\ \A c \in CanonicalOf(q.loser) : Cardinality(Twins(c, q.survivor)) = 1
     /\ canonical' = [c \in CanonicalVariants |->
          IF canonical[c].product = q.loser THEN [canonical[c] EXCEPT !.into = twin(c)] ELSE canonical[c]]
     /\ variants' = [v \in Variants |->
          IF v \in MatchedTo(CanonicalOf(q.loser)) THEN [variants[v] EXCEPT !.match = twin(@)] ELSE variants[v]]
     /\ offers' = [o \in Offers |-> IF o \in q.offers THEN [offers[o] EXCEPT !.product = q.survivor] ELSE offers[o]]
     /\ products' = [products EXCEPT ![q.loser].status = "MERGED", ![q.loser].into = q.survivor]
     /\ UNCHANGED <<candidates, renames>>

(* split(): some of the variants, with the offers matched to them, move to a    *)
(* new product; no offer may be left on both sides.                          *)
Split(r, p, moving) ==
  LET matched == MatchedTo(CanonicalOf(p))
      leaving == OffersOf(MatchedTo(moving))
  IN /\ Mergeable(p) /\ moving # {} /\ moving # CanonicalOf(p)
     /\ leaving \intersect OffersOf(MatchedTo(CanonicalOf(p) \ moving)) = {}
     /\ Begins(r, [op |-> "split", moving |-> moving, matched |-> matched, offers |-> leaving], {ProductLock(p)})
     /\ UNCHANGED catalogue
SplitEnds(r, new) ==
  LET q == running[r]
  IN /\ Commits(r, "split") /\ FreeFor(r, RowLocks(q.matched)) /\ ~Exists(new)
     /\ products' = [products EXCEPT ![new] = NewProduct]
     /\ canonical' = [c \in CanonicalVariants |-> IF c \in q.moving THEN [canonical[c] EXCEPT !.product = new] ELSE canonical[c]]
     /\ offers' = [o \in Offers |-> IF o \in q.offers THEN [offers[o] EXCEPT !.product = new] ELSE offers[o]]
     /\ UNCHANGED <<variants, candidates, renames>>

(* canTransitionCanonicalProduct()                                           *)
NextStatus == [DRAFT |-> {"PENDING_REVIEW", "ARCHIVED"}, PENDING_REVIEW |-> {"PUBLISHED", "DRAFT"},
                PUBLISHED |-> {"ARCHIVED"}, ARCHIVED |-> {"PUBLISHED"}, MERGED |-> {}, none |-> {}]
\* Slip: the transition is checked against a row that is not locked.
StatusOnly(p) == {}
TransitionLocks(p) == {ProductLock(p)}

Transition(r, p, to) ==
  /\ to \in NextStatus[products[p].status]
  /\ to = "PENDING_REVIEW" => CanonicalOf(p) # {}
  /\ to = "PUBLISHED" => ~products[p].restricted
  /\ Begins(r, [op |-> "transition", product |-> p, to |-> to], TransitionLocks(p)) /\ UNCHANGED catalogue
Transitioned(r) ==
  /\ Commits(r, "transition") /\ products' = [products EXCEPT ![running[r].product].status = running[r].to]
  /\ UNCHANGED <<canonical, offers, variants, candidates, renames>>

(* restrict() and unrestrict() do not look at the status.                      *)
SetRestricted(p) ==
  /\ Writes({ProductLock(p)}) /\ Exists(p) /\ products' = [products EXCEPT ![p].restricted = ~@]
  /\ UNCHANGED <<canonical, offers, variants, candidates, renames>>
CreateProduct(p) ==
  /\ Writes({}) /\ ~Exists(p) /\ products' = [products EXCEPT ![p] = NewProduct]
  /\ UNCHANGED <<canonical, offers, variants, candidates, renames>>
CreateCanonicalVariant(c, p) ==
  /\ Writes({ProductLock(p)}) /\ Exists(p) /\ canonical[c].product = None
  /\ canonical' = [canonical EXCEPT ![c].product = p]
  /\ UNCHANGED <<products, offers, variants, candidates, renames>>

RequestRename(p, n) ==
  /\ Writes({ProductLock(p)}) /\ renames[<<p, n>>] = "none" /\ \E o \in Offers : offers[o].product = p
  /\ renames' = [renames EXCEPT ![<<p, n>>] = "PENDING"] /\ UNCHANGED <<products, canonical, offers, variants, candidates>>
(* decideNameChangeRequest()                                                 *)
DecideRename(r, p, n, approve) ==
  /\ renames[<<p, n>>] = "PENDING"
  /\ Begins(r, [op |-> "rename", product |-> p, name |-> n, approve |-> approve], {ProductLock(p)}) /\ UNCHANGED catalogue
RenameDecided(r) ==
  LET q == running[r] named == {o \in Offers : q.approve /\ offers[o].product = q.product}
  IN /\ Commits(r, "rename") /\ FreeFor(r, {OfferLock(o) : o \in named})
     /\ products' = [products EXCEPT ![q.product].name = IF q.approve THEN q.name ELSE @]
     /\ offers' = [o \in Offers |-> IF o \in named THEN [offers[o] EXCEPT !.title = q.name] ELSE offers[o]]
     /\ renames' = [k \in DOMAIN renames |->
          IF k = <<q.product, q.name>> THEN IF q.approve THEN "APPROVED" ELSE "REJECTED"
          ELSE IF k[1] = q.product /\ q.approve /\ renames[k] = "PENDING" THEN "REJECTED" ELSE renames[k]]
     /\ UNCHANGED <<canonical, variants, candidates>>

RollsBack(r) == Abandons(r) /\ UNCHANGED catalogue

MatchingNext ==
  \/ \E r \in Requests, v \in Variants :
       \/ Search(r, v) \/ \E confirm \in BOOLEAN : ConfirmReads(r, v, confirm)
       \/ \E reporter \in Reporters : Report(r, v, reporter)
  \/ \E r \in Requests, k \in DOMAIN candidates, approve \in BOOLEAN : DecideReads(r, k, approve)
  \/ \E r \in Requests, p \in Products :
       \/ \E survivor \in Products : Merge(r, p, survivor)
       \/ \E moving \in SUBSET CanonicalOf(p) : Split(r, p, moving)
       \/ \E to \in NextStatus[products[p].status] : Transition(r, p, to)
       \/ \E n \in Names, approve \in BOOLEAN : DecideRename(r, p, n, approve)
       \/ SplitEnds(r, p)
  \/ \E r \in Requests :
       \/ SearchEnds(r) \/ ConfirmLocks(r) \/ Confirmed(r) \/ Declined(r) \/ DecideLocks(r) \/ Approved(r) \/ Rejected(r)
       \/ ReportCounts(r) \/ Reported(r) \/ Merged(r) \/ Transitioned(r) \/ RenameDecided(r) \/ RollsBack(r)
  \/ \E p \in Products : \/ SetRestricted(p) \/ CreateProduct(p)
                         \/ \E c \in CanonicalVariants : CreateCanonicalVariant(c, p)
                         \/ \E n \in Names : RequestRename(p, n)

(***************************************************************************)
(* Properties                                                               *)
(***************************************************************************)
(* The variants of an offer are matched to one product, and the offer names it, *)
(* whatever is confirmed, approved, merged or split at the same time ("a        *)
(* VendorOffer's variants never span two different canonical products",       *)
(* merge()); an offer linked under the lock of another product is excepted.   *)
OfferFollowsItsVariants ==
  \A v \in Variants :
    variants[v].match # None /\ ~offers[variants[v].offer].stale
      => offers[variants[v].offer].product = canonical[variants[v].match].product

(* A merged product stays merged whatever transition overlaps, and from it the     *)
(* redirects lead to one that is not merged: of two opposite merges one is       *)
(* refused (merge(), attemptTransition()).                                   *)
MergesEnd ==
  /\ \A p \in Products : products[p].into # None <=> products[p].status = "MERGED"
  /\ \A cycle \in (SUBSET Products) \ {{}} : \E p \in cycle : products[p].into \notin cycle
=============================================================================
