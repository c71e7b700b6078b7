--------------------------- MODULE MCMarketplace ---------------------------
EXTENDS Marketplace, TLC
MCOwnerOf == ("b1" :> "v1") @@ ("b2" :> "v1") @@ ("b3" :> "v2")
Stages(s1, s2) == ("v1" :> s1) @@ ("v2" :> s2)
MCStarts == {[branches |-> {"b1", "b2"}, stage |-> Stages("APPLIED", "APPLIED")],
             [branches |-> {"b1", "b3"}, stage |-> Stages("ACTIVE", "APPROVED")],
             [branches |-> {"b1", "b2", "b3"}, stage |-> Stages("ACTIVE", "ACTIVE")]}
MCSymmetry == Permutations(Requests)
=============================================================================
