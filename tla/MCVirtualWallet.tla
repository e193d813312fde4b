--------------------------- MODULE MCVirtualWallet ---------------------------
(***************************************************************************)
(* Concurrent credits, debits, freezes and unfreezes of one wallet.        *)
(***************************************************************************)
EXTENDS VirtualWallet

\* Refused, 0.4 cents (rounds to nothing) and 1.5 cents (rounds to 2).
MCRawAmounts == {0, 4, 15}
==============================================================================
