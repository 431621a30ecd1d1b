----------------------------- MODULE MCCheckout ------------------------------
(***************************************************************************)
(* Checkout for TLC: which name, extension or content is which does not    *)
(* matter.                                                                 *)
(***************************************************************************)
EXTENDS Checkout, TLC

Symmetry == Permutations(Names) \cup Permutations(Contents)
=============================================================================
