--------------------------- MODULE MCBranchStock ---------------------------
(***************************************************************************)
(* Two stock rows of at most two units, two checkouts that want one of     *)
(* them or both, one exchange and two transactions open together.          *)
(***************************************************************************)
EXTENDS BranchStock, TLC

CONSTANTS k1, k2, r1, r2, x1

MCWants == {(k1 :> 1) @@ (k2 :> 1), (k1 :> 2) @@ (k2 :> 0)}
MCReplacement == (x1 :> k1)
MCOriginal == (x1 :> k2)

Interchangeable == Permutations(Reservations) \cup Permutations(Jobs)
=============================================================================
