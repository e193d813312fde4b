------------------------------ MODULE Accounts ------------------------------
(***************************************************************************)
(* What the virtual wallet promises its callers, with no rows, locks or    *)
(* transactions: one account per user, whose balance only moves by         *)
(* postings that are written in the account's book, each exactly once per  *)
(* reference and never while the account is frozen.  The one exception the *)
(* service makes is Restore: freezing or unfreezing a wallet may put back  *)
(* a balance the account had earlier.                                      *)
(***************************************************************************)
EXTENDS Integers, Sequences

CONSTANTS
  Users,      \* account holders
  Amounts,    \* amounts a posting may have, in cents
  Refs,       \* references a posting may carry
  NoRef,      \* the reference of a posting that carries none
  MaxBalance  \* largest balance that can be stored, in cents

VARIABLES
  balance,    \* user -> cents
  frozen,     \* user -> BOOLEAN
  book        \* user -> sequence of postings, in the order they took effect

vars == <<balance, frozen, book>>

Modes == {"credit", "debit"}

Moved(b, mode, amount) == IF mode = "credit" THEN b + amount ELSE b - amount

Posting(mode, amount, ref, before) ==
  [mode |-> mode, amount |-> amount, ref |-> ref,
   before |-> before, after |-> Moved(before, mode, amount)]

\* Every balance the account has had by its own postings.
PastBalances(u) == {0} \cup {book[u][i].after : i \in DOMAIN book[u]}

Init ==
  /\ balance = [u \in Users |-> 0]
  /\ frozen = [u \in Users |-> FALSE]
  /\ book = [u \in Users |-> <<>>]

Post(u, mode, amount, ref) ==
  /\ ~frozen[u]
  /\ ref # NoRef =>
       \A i \in DOMAIN book[u] : book[u][i].mode = mode => book[u][i].ref # ref
  /\ Moved(balance[u], mode, amount) \in 0..MaxBalance
  /\ balance' = [balance EXCEPT ![u] = Moved(@, mode, amount)]
  /\ book' = [book EXCEPT ![u] = Append(@, Posting(mode, amount, ref, balance[u]))]
  /\ UNCHANGED frozen

\* The administrator's switch.  It may also bring back an old balance.
Restore(u) ==
  /\ \E b \in PastBalances(u) \cup {balance[u]} : balance' = [balance EXCEPT ![u] = b]
  /\ \E f \in BOOLEAN : frozen' = [frozen EXCEPT ![u] = f]
  /\ UNCHANGED book

Next ==
  \E u \in Users :
    \/ Restore(u)
    \/ \E mode \in Modes, amount \in Amounts, ref \in Refs \cup {NoRef} :
         Post(u, mode, amount, ref)

Spec == Init /\ [][Next]_vars
=============================================================================
