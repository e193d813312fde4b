------------------------------- MODULE MCFeed -------------------------------
(***************************************************************************)
(* A full report in a message that breaks off after it, and a report of    *)
(* one field after a segment that is passed over.                          *)
(***************************************************************************)
EXTENDS Feed
CONSTANTS a, balance, equity
Sent == << <<[kind |-> "report", login |-> a, fields |-> {balance, equity}], [kind |-> "broken"]>>,
           <<[kind |-> "skipped"], [kind |-> "report", login |-> a, fields |-> {equity}]>> >>
==============================================================================
