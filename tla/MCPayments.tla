----------------------------- MODULE MCPayments -----------------------------
(***************************************************************************)
(* One user, four calls and the provider, on a marathon of one place.      *)
(***************************************************************************)
EXTENDS Payments, TLC

MCChargeAmounts == {100}
Symmetry == Permutations(Workers)
==============================================================================
