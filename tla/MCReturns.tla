------------------------------ MODULE MCReturns ------------------------------
(***************************************************************************)
(* Two returns of one item, so that it can be submitted again, two clerks  *)
(* with one code, and one tick of the sweep.                               *)
(***************************************************************************)
EXTENDS ReturnsOfItem
==============================================================================
