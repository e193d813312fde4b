---------------------------- MODULE MCWithdrawals ----------------------------
(***************************************************************************)
(* Three requests on two wallets, with three connections, at a midnight.   *)
(***************************************************************************)
EXTENDS Withdrawals

\* One amount, of 1.5 cents: it is debited as 2, and a balance of 3 pays it once.
MCRawAmounts == {15}
MCSwitches == {"freeze"}
==============================================================================
