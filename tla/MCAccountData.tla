--------------------------- MODULE MCAccountData ---------------------------
EXTENDS AccountData
\* A trade with its ticket only, one with that number as its position, which hides the
\* first, and one without numbers.
Closing ==
  <<[position |-> 0, ticket |-> 1], [position |-> 1, ticket |-> 2], [position |-> 0, ticket |-> 0]>>
\* Trades as the trade history documents them.
Documented == <<[position |-> 0, ticket |-> 0], [position |-> 0, ticket |-> 0]>>
============================================================================
