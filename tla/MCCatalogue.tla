---------------------------- MODULE MCCatalogue ----------------------------
EXTENDS Catalogue, TLC
MCStructure == ("c1" :> "64GB") @@ ("c2" :> "128GB") @@ ("d1" :> "64GB") @@ ("d2" :> "128GB")
MCResembles == [v \in Variants |-> {"c1", "d1"}]

Canonical(c) == IF c \in {"c1", "c2"} THEN "P" ELSE "S"
NoCandidate == [NewCandidate EXCEPT !.status = "absent"]
(* Two products; some variants are proposed, some matched as they would be after   *)
(* confirmMatch() and decide().                                              *)
MCStart(existing, variant, candidate) ==
  LET productOf(o) == {Canonical(variant[v].match) : v \in {w \in DOMAIN variant : variant[w].offer = o /\ variant[w].match # None}}
      namer(p) == {o \in Offers : p \in productOf(o)}
  IN [products |-> [p \in Products |->
        IF p \notin {"P", "S"} THEN [NewProduct EXCEPT !.status = "none"]
        ELSE [NewProduct EXCEPT !.status = "PUBLISHED", !.name = IF namer(p) = {} THEN None ELSE CHOOSE o \in namer(p) : TRUE]],
      canonical |-> [c \in CanonicalVariants |-> [product |-> IF c \in existing THEN Canonical(c) ELSE None, into |-> None]],
      offers |-> [o \in Offers |-> [product |-> IF productOf(o) = {} THEN None ELSE CHOOSE p \in productOf(o) : TRUE,
                                    title |-> o, stale |-> FALSE]],
      variants |-> [v \in Variants |-> IF v \in DOMAIN variant THEN variant[v] ELSE Blank],
      candidates |-> [k \in Variants \X CanonicalVariants |-> IF k \in DOMAIN candidate THEN candidate[k] ELSE NoCandidate]]

Proposed(o, c) == [Blank EXCEPT !.offer = o, !.identifier = c, !.proposed = c, !.proposal = "PENDING"]
Unmatched(o) == [Blank EXCEPT !.offer = o]
Sure(o, c) == [Proposed(o, c) EXCEPT !.proposal = "CONFIRMED", !.match = c]
Reviewed(o, c) == [Unmatched(o) EXCEPT !.match = c]

(* Nothing is matched yet: two exact proposals, and a candidate of the queue.     *)
MCUnmatched == MCStart({"c1", "c2", "d1"}, ("v1" :> Proposed("o1", "c1")) @@ ("v2" :> Proposed("o2", "c1")), <<"v2", "d1">> :> NewCandidate)
(* Both kinds of match, in one offer.                                          *)
MCMatched == MCStart({"c1", "d1"}, ("v1" :> Sure("o1", "c1")) @@ ("v2" :> Reviewed("o1", "c1")),
                     <<"v2", "c1">> :> [NewCandidate EXCEPT !.status = "APPROVED"])
MCStarts == {MCUnmatched, MCMatched}
MCSymmetry == Permutations(Requests)
=============================================================================
