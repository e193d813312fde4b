---------------------------- MODULE MCMembership ----------------------------
(***************************************************************************)
(* Two users and three calls, on a marathon of two places and one account. *)
(***************************************************************************)
EXTENDS Membership
==============================================================================
