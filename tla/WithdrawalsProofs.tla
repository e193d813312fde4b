-------------------------- MODULE WithdrawalsProofs --------------------------
(***************************************************************************)
(* Theorems of VirtualWallet and of Withdrawals, which uses its wallets,   *)
(* for any number of users, requests, references, connections, days and    *)
(* amounts.                                                                *)
(*                                                                         *)
(* Those of VirtualWallet rest on WalletInv: who is between the locking    *)
(* read and the commit owns the row and has its current content in memory, *)
(* and every balance a slower request still holds is one the wallet had    *)
(* before.                                                                 *)
(*                                                                         *)
(* Those of Withdrawals say that no wallet goes below zero, every debit is *)
(* exactly one withdrawal, and the numbers of a day are given in order.    *)
(* They rest on WithdrawalsInv, which is about single requests: between    *)
(* the debit and the commit one holds a row that pays for it, and a number *)
(* that is at most one more than the withdrawals created on its day.       *)
(***************************************************************************)
EXTENDS Withdrawals, FiniteSetTheorems, SequenceTheorems, TLAPS

PastBalances(u) == {0} \cup {ledger[u][i].after : i \in DOMAIN ledger[u]}

\* The row a transaction that found u's wallet, or inserted it, works on.
Current(u) == IF wallets[u] = NoWallet THEN FreshWallet ELSE wallets[u]

\* What a request was asked fits the place in the code it has reached.
CallsFit ==
  \A r \in Requests :
    /\ pc[r] \in Active => call[r] \in Call
    /\ pc[r] \in {"insert", "adjust"} => call[r].mode \in Modes /\ call[r].raw > 0
    /\ pc[r] \in {"create", "reload", "update"} =>
         call[r].mode \in {"open", "freeze", "unfreeze"}

\* Between the locking read and the commit the row is owned and fresh.
AdjustersOwnTheRow ==
  \A r \in Requests : pc[r] = "adjust" =>
    /\ rowLock[call[r].user] = r
    /\ mem[r] = Current(call[r].user)

\* Nothing ever brings in a balance the wallet never had.
BalancesAreKnown ==
  /\ \A u \in Users : Balance(u) \in PastBalances(u)
  /\ \A r \in Requests : pc[r] \in {"reload", "update"} =>
       /\ wallets[call[r].user] # NoWallet
       /\ mem[r] \in Row
       /\ mem[r].balance \in PastBalances(call[r].user)

WalletInv ==
  /\ TypeOK
  /\ CallsFit
  /\ AdjustersOwnTheRow
  /\ BalancesAreKnown
  /\ LedgerExplainsBalance
  /\ OneEntryPerReference
------------------------------------------------------------------------------
\* Rounding a positive amount gives a natural number of cents.
LEMMA NormalizeNat ==
  ASSUME NEW raw \in Int, raw > 0
  PROVE  Normalize(raw) \in Nat
BY DEF Normalize

\* A request that changes neither rows nor books disturbs nothing said about them.
LEMMA BooksKept ==
  ASSUME WalletInv, UNCHANGED <<wallets, ledger, overwritten>>
  PROVE  /\ LedgerExplainsBalance'
         /\ OneEntryPerReference'
         /\ \A u : Balance(u)' = Balance(u) /\ PastBalances(u)' = PastBalances(u)
         /\ \A u : Current(u)' = Current(u)
BY DEF WalletInv, LedgerExplainsBalance, OneEntryPerReference, Balance, PastBalances,
       Current, Carried

LEMMA FreshRow ==
  FreshWallet \in Row /\ FreshWallet # NoWallet /\ FreshWallet.balance = 0
<1>1. 0 \in 0..MaxBalance
  BY WalletAssumption
<1>2. FreshWallet \in Row
  BY <1>1, Zenon DEF FreshWallet, Row
<1>3. FreshWallet.balance = 0
  BY Zenon DEF FreshWallet
<1> QED
  BY <1>2, <1>3, WalletAssumption

\* Setting the flag leaves the balance alone.
LEMMA FlaggedRow ==
  ASSUME NEW row \in Row, NEW mode
  PROVE  Flagged(row, mode) \in Row /\ Flagged(row, mode).balance = row.balance
<1>1. (mode = "freeze") \in BOOLEAN
  OBVIOUS
<1>2. ASSUME NEW b \in BOOLEAN
      PROVE  [row EXCEPT !.isFrozen = b] \in Row /\ [row EXCEPT !.isFrozen = b].balance = row.balance
  BY DEF Row
<1> QED
  BY <1>1, <1>2 DEF Flagged

LEMMA InitInv == WalletInit => WalletInv
<1> SUFFICES ASSUME WalletInit PROVE WalletInv
  OBVIOUS
<1>1. TypeOK
  BY WalletAssumption DEF WalletInit, TypeOK, Active, Ended
<1>2. CallsFit /\ AdjustersOwnTheRow
  BY DEF WalletInit, CallsFit, AdjustersOwnTheRow, Active
<1>3. BalancesAreKnown
  BY DEF WalletInit, BalancesAreKnown, Balance, PastBalances
<1>4. LedgerExplainsBalance /\ OneEntryPerReference
  BY DEF WalletInit, LedgerExplainsBalance, OneEntryPerReference, Balance, Carried
<1> QED
  BY <1>1, <1>2, <1>3, <1>4 DEF WalletInv

LEMMA BeginAdjustInv ==
  ASSUME WalletInv, NEW r \in Requests, NEW u \in Users, NEW mode \in Modes,
         NEW raw \in RawAmounts, NEW ref \in Refs \cup {NoRef},
         BeginAdjust(r, u, mode, raw, ref)
  PROVE  WalletInv'
<1> USE DEF BeginAdjust, FindForUpdate, Lock, Goto
<1>1. TypeOK'
  BY DEF WalletInv, TypeOK, Call, Active, Ended
<1>2. CallsFit'
  BY WalletAssumption DEF WalletInv, TypeOK, CallsFit, Call, Active
<1>3. AdjustersOwnTheRow'
  BY BooksKept, WalletAssumption DEF WalletInv, TypeOK, CallsFit, AdjustersOwnTheRow, Current, Active, Call
<1>4. BalancesAreKnown'
  BY BooksKept DEF WalletInv, TypeOK, BalancesAreKnown, Active
<1> QED
  BY <1>1, <1>2, <1>3, <1>4, BooksKept DEF WalletInv
LEMMA InsertOnAdjustInv ==
  ASSUME WalletInv, NEW r \in Requests, InsertOnAdjust(r)
  PROVE  WalletInv'
<1> USE DEF InsertOnAdjust, InsertWallet, Lock, Goto
<1>0. call[r].user \in Users
  BY DEF WalletInv, CallsFit, Active, Call
<1>1. TypeOK'
  <2>1. mem' \in [Requests -> Row \cup {NoWallet}]
    BY FreshRow DEF WalletInv, TypeOK
  <2>2. rowLock' \in [Users -> Requests \cup {Nobody}]
    BY <1>0 DEF WalletInv, TypeOK
  <2>3. pc' \in [Requests -> {"idle"} \cup Active \cup Ended]
    BY DEF WalletInv, TypeOK, Active, Ended
  <2> QED
    BY <2>1, <2>2, <2>3 DEF WalletInv, TypeOK
<1>2. CallsFit'
  BY DEF WalletInv, TypeOK, CallsFit, Active
<1>3. AdjustersOwnTheRow'
  BY <1>0, BooksKept, WalletAssumption DEF WalletInv, TypeOK, CallsFit, AdjustersOwnTheRow, Current, Active, Call
<1>4. BalancesAreKnown'
  BY BooksKept DEF WalletInv, TypeOK, BalancesAreKnown, Active
<1> QED
  BY <1>1, <1>2, <1>3, <1>4, BooksKept DEF WalletInv

LEMMA AbortInv ==
  ASSUME WalletInv, NEW r \in Requests, Abort(r)
  PROVE  WalletInv'
<1> USE DEF Abort, Unlock, Goto
<1>1. TypeOK'
  BY DEF WalletInv, TypeOK, Ended
<1>2. CallsFit'
  BY DEF WalletInv, TypeOK, CallsFit, Active
<1>3. AdjustersOwnTheRow'
  BY BooksKept DEF WalletInv, TypeOK, CallsFit, AdjustersOwnTheRow, Active, Call
<1>4. BalancesAreKnown'
  BY BooksKept DEF WalletInv, TypeOK, BalancesAreKnown
<1> QED
  BY <1>1, <1>2, <1>3, <1>4, BooksKept DEF WalletInv

LEMMA ReadWalletInv ==
  ASSUME WalletInv, NEW r \in Requests, NEW u \in Users,
         NEW mode \in {"open", "freeze", "unfreeze"}, ReadWallet(r, u, mode)
  PROVE  WalletInv'
<1> USE DEF ReadWallet, Holding, Goto
<1>0. /\ Flagged(wallets[u], mode) \in Row \/ wallets[u] = NoWallet
      /\ wallets[u] # NoWallet => Flagged(wallets[u], mode).balance = Balance(u)
  BY FlaggedRow DEF WalletInv, TypeOK, Balance
<1>1. TypeOK'
  BY <1>0 DEF WalletInv, TypeOK, Call, Active, Ended
<1>2. CallsFit'
  BY DEF WalletInv, TypeOK, CallsFit, Call, Active
<1>3. AdjustersOwnTheRow'
  BY BooksKept DEF WalletInv, TypeOK, CallsFit, AdjustersOwnTheRow, Active, Call
<1>4. BalancesAreKnown'
  BY <1>0, BooksKept DEF WalletInv, TypeOK, BalancesAreKnown, Active
<1> QED
  BY <1>1, <1>2, <1>3, <1>4, BooksKept DEF WalletInv

LEMMA ReloadForSaveInv ==
  ASSUME WalletInv, NEW r \in Requests, ReloadForSave(r)
  PROVE  WalletInv'
<1> USE DEF ReloadForSave, Goto
<1>1. TypeOK'
  BY DEF WalletInv, TypeOK, Differing, Active, Ended
<1>2. CallsFit'
  BY DEF WalletInv, TypeOK, CallsFit, Active
<1>3. AdjustersOwnTheRow'
  BY BooksKept DEF WalletInv, TypeOK, CallsFit, AdjustersOwnTheRow, Active, Call
<1>4. BalancesAreKnown'
  BY BooksKept DEF WalletInv, TypeOK, BalancesAreKnown, Active
<1> QED
  BY <1>1, <1>2, <1>3, <1>4, BooksKept DEF WalletInv

LEMMA CreateWalletInv ==
  ASSUME WalletInv, NEW r \in Requests, CreateWallet(r)
  PROVE  WalletInv'
<1> USE DEF CreateWallet, Holding, Goto
<1> DEFINE u == call[r].user
<1>0. u \in Users /\ FreshWallet \in Row /\ FreshWallet # NoWallet
  BY FreshRow DEF WalletInv, CallsFit, Active, Call
<1>f. /\ Flagged(FreshWallet, call[r].mode) \in Row
      /\ Flagged(FreshWallet, call[r].mode).balance = 0
  BY FreshRow, FlaggedRow
<1>a. CASE wallets[u] # NoWallet
  <2>1. UNCHANGED <<wallets, ledger, overwritten, rowLock, call, mem, dirty>>
    BY <1>a
  <2>2. pc' = [pc EXCEPT ![r] = "failed"]
    BY <1>a
  <2> QED
    BY <2>1, <2>2, BooksKept DEF WalletInv, TypeOK, CallsFit, AdjustersOwnTheRow, BalancesAreKnown, Active, Ended, Call
<1>b. CASE wallets[u] = NoWallet
  <2>1. /\ wallets' = [wallets EXCEPT ![u] = FreshWallet]
        /\ rowLock[u] = Nobody
    BY <1>b
  <2>2. TypeOK'
    <3>1. wallets' \in [Users -> Row \cup {NoWallet}]
      BY <1>0, <2>1 DEF WalletInv, TypeOK
    <3>2. mem' \in [Requests -> Row \cup {NoWallet}]
      BY <1>f, <1>b DEF WalletInv, TypeOK
    <3>3. pc' \in [Requests -> {"idle"} \cup Active \cup Ended]
      BY <1>b DEF WalletInv, TypeOK, Active, Ended
    <3> QED
      BY <3>1, <3>2, <3>3 DEF WalletInv, TypeOK
  <2>3. CallsFit'
    BY <1>0, <1>b DEF WalletInv, TypeOK, CallsFit, Active
  <2>4. \A v \in Users : /\ Balance(v)' = Balance(v)
                         /\ PastBalances(v)' = PastBalances(v)
                         /\ v # u => Current(v)' = Current(v)
    BY <1>0, <1>b, <2>1 DEF WalletInv, TypeOK, Balance, PastBalances, Current, FreshWallet
  <2>5. AdjustersOwnTheRow'
    BY <1>0, <1>b, <2>1, <2>4, WalletAssumption DEF WalletInv, TypeOK, CallsFit, AdjustersOwnTheRow, Active, Call
  <2>6. BalancesAreKnown'
    <3>1. 0 \in PastBalances(u)
      BY DEF PastBalances
    <3>2. \A v \in Users : (Balance(v) \in PastBalances(v))'
      BY <2>4 DEF WalletInv, BalancesAreKnown
    <3>3. \A q \in Requests : q # r /\ pc[q] \in {"reload", "update"} =>
            call[q].user \in Users /\ call[q].user # u
      BY <1>b DEF WalletInv, CallsFit, BalancesAreKnown, Active, Call
    <3> QED
      BY <1>0, <1>f, <1>b, <2>1, <2>4, <3>1, <3>2, <3>3 DEF WalletInv, TypeOK, BalancesAreKnown
  <2>7. LedgerExplainsBalance'
    BY <1>b, <2>4 DEF WalletInv, LedgerExplainsBalance, Carried
  <2>8. OneEntryPerReference'
    BY DEF WalletInv, OneEntryPerReference
  <2> QED
    BY <2>2, <2>3, <2>5, <2>6, <2>7, <2>8 DEF WalletInv
<1> QED
  BY <1>a, <1>b

LEMMA UpdateColumnsInv ==
  ASSUME WalletInv, NEW r \in Requests, UpdateColumns(r)
  PROVE  WalletInv'
<1> USE DEF UpdateColumns, Goto
<1> DEFINE u == call[r].user
           row == Merged(mem[r], wallets[u], dirty[r])
<1>0. /\ u \in Users
      /\ wallets[u] \in Row
      /\ mem[r] \in Row
      /\ mem[r].balance \in PastBalances(u)
      /\ wallets[u].balance \in PastBalances(u)
  BY WalletAssumption DEF WalletInv, TypeOK, CallsFit, BalancesAreKnown, Balance, Active, Call
<1>1. /\ row \in Row
      /\ row.balance \in PastBalances(u)
      /\ "balance" \notin dirty[r] => row.balance = wallets[u].balance
      /\ row # NoWallet
  BY <1>0, WalletAssumption DEF Merged, Row
<1>2. /\ wallets' = [wallets EXCEPT ![u] = row]
      /\ rowLock[u] = Nobody
  OBVIOUS
<1>3. TypeOK'
  BY <1>0, <1>1 DEF WalletInv, TypeOK, Ended
<1>4. CallsFit'
  BY DEF WalletInv, TypeOK, CallsFit, Active
<1>5. \A v \in Users : /\ PastBalances(v)' = PastBalances(v)
                       /\ v # u => Current(v)' = Current(v) /\ Balance(v)' = Balance(v)
  BY <1>0, <1>2 DEF WalletInv, TypeOK, Balance, PastBalances, Current
<1>6. Balance(u)' = row.balance
  BY <1>0, <1>1, <1>2 DEF WalletInv, TypeOK, Balance
<1>7. AdjustersOwnTheRow'
  BY <1>0, <1>2, <1>5, WalletAssumption DEF WalletInv, TypeOK, CallsFit, AdjustersOwnTheRow, Active, Call
<1>8. BalancesAreKnown'
  BY <1>0, <1>1, <1>2, <1>5, <1>6 DEF WalletInv, TypeOK, CallsFit, BalancesAreKnown, Active, Call
<1>9. LedgerExplainsBalance'
  BY <1>0, <1>1, <1>5, <1>6, WalletAssumption DEF WalletInv, TypeOK, LedgerExplainsBalance, Carried, Balance
<1>10. OneEntryPerReference'
  BY DEF WalletInv, OneEntryPerReference
<1> QED
  BY <1>3, <1>4, <1>7, <1>8, <1>9, <1>10 DEF WalletInv
\* What one more transaction does to a book.
LEMMA BookAppended ==
  ASSUME NEW s \in Seq(Entry), NEW e \in Entry
  PROVE  /\ Append(s, e) \in Seq(Entry)
         /\ Len(s) \in Nat
         /\ DOMAIN s = 1..Len(s)
         /\ Len(Append(s, e)) = Len(s) + 1
         /\ DOMAIN Append(s, e) = 1..(Len(s) + 1)
         /\ \A i \in 1..Len(s) : Append(s, e)[i] = s[i]
         /\ Append(s, e)[Len(s) + 1] = e
OBVIOUS

\* A request about to commit works on the row as it is and posts a proper transaction.
LEMMA ReadyToPost ==
  ASSUME WalletInv, NEW r \in Requests, pc[r] = "adjust",
         NEW c, c = call[r], NEW e, e = Transaction(c.mode, c.raw, c.ref, mem[r].balance)
  PROVE  /\ c.user \in Users
         /\ rowLock[c.user] = r
         /\ mem[r] = Current(c.user)
         /\ mem[r] \in Row
         /\ mem[r].balance = Balance(c.user)
         /\ mem[r].isFrozen = Frozen(c.user)
         /\ e.mode = c.mode /\ e.ref = c.ref
         /\ e.before = Balance(c.user)
         /\ e.after = BalanceAfter(c.mode, Balance(c.user), c.raw)
         /\ Allowed(mem[r], c.user, c.mode, c.raw, c.ref) => e \in Entry
<1>1. /\ c.user \in Users /\ c.mode \in Modes /\ c.ref \in Refs \cup {NoRef}
      /\ c.raw \in Int /\ c.raw > 0
      /\ rowLock[c.user] = r
      /\ mem[r] = Current(c.user)
  <2>1. c \in Call /\ c.mode \in Modes /\ c.raw > 0
    BY DEF WalletInv, CallsFit, Active
  <2>2. c.raw \in RawAmounts \cup {0}
    BY <2>1 DEF Call
  <2>3. c.raw \in Int
    <3>1. RawAmounts \subseteq Int /\ 0 \in Int
      BY WalletAssumption
    <3> QED
      BY <2>2, <3>1, Zenon
  <2>4. c.user \in Users /\ c.ref \in Refs \cup {NoRef}
    BY <2>1 DEF Call
  <2> QED
    BY <2>1, <2>3, <2>4 DEF WalletInv, AdjustersOwnTheRow
<1>2. Current(c.user) \in Row
  BY <1>1, FreshRow DEF WalletInv, TypeOK, Current
<1>3. mem[r].balance = Balance(c.user)
  BY <1>1, FreshRow DEF Current, Balance
<1>4. mem[r].isFrozen = Frozen(c.user)
  <2>1. FreshWallet.isFrozen = FALSE
    BY Zenon DEF FreshWallet
  <2> QED
    BY <1>1, <2>1, Zenon DEF Current, Frozen
<1>5. Normalize(c.raw) \in Nat
  BY <1>1, NormalizeNat
<1>6. /\ e.mode = c.mode /\ e.ref = c.ref
      /\ e.before = Balance(c.user)
      /\ e.after = BalanceAfter(c.mode, Balance(c.user), c.raw)
  BY <1>3 DEF Transaction
<1>7. Balance(c.user) \in 0..MaxBalance
  BY <1>1, <1>2, <1>3 DEF Row
<1>8. Allowed(mem[r], c.user, c.mode, c.raw, c.ref) => e \in Entry
  BY <1>1, <1>3, <1>5, <1>7 DEF Allowed, Transaction, Entry
<1> QED
  BY <1>1, <1>2, <1>3, <1>4, <1>6, <1>8

LEMMA AdjustBalanceInv ==
  ASSUME WalletInv, NEW r \in Requests, AdjustBalance(r)
  PROVE  WalletInv'
<1> SUFFICES ASSUME NEW c, c = call[r], NEW u, u = c.user,
                    NEW e, e = Transaction(c.mode, c.raw, c.ref, mem[r].balance)
             PROVE  WalletInv'
  OBVIOUS
<1> DEFINE ok == Allowed(mem[r], u, c.mode, c.raw, c.ref)
           row == [mem[r] EXCEPT !.balance = BalanceAfter(c.mode, @, c.raw)]
<1>0. pc[r] = "adjust"
  BY DEF AdjustBalance
<1>1. /\ u \in Users
      /\ rowLock[u] = r
      /\ mem[r] = Current(u)
      /\ mem[r] \in Row
      /\ mem[r].balance = Balance(u)
      /\ e.mode = c.mode /\ e.ref = c.ref
      /\ e.before = Balance(u)
      /\ e.after = BalanceAfter(c.mode, Balance(u), c.raw)
      /\ ok => e \in Entry
  BY <1>0, ReadyToPost
<1>2. /\ UNCHANGED <<call, mem, dirty, overwritten>>
      /\ rowLock' = [v \in Users |-> IF rowLock[v] = r THEN Nobody ELSE rowLock[v]]
      /\ pc' = [pc EXCEPT ![r] = IF ok THEN "done" ELSE "failed"]
  BY DEF AdjustBalance, PostTransaction, Unlock, Goto
<1>3. rowLock' \in [Users -> Requests \cup {Nobody}]
  BY <1>2 DEF WalletInv, TypeOK
<1>4. pc' \in [Requests -> {"idle"} \cup Active \cup Ended]
  BY <1>2 DEF WalletInv, TypeOK, Ended
<1>5. CallsFit'
  BY <1>2 DEF WalletInv, TypeOK, CallsFit, Active
<1>a. CASE ~ok
  <2>1. UNCHANGED <<wallets, ledger>>
    BY <1>a DEF AdjustBalance
  <2>2. TypeOK'
    BY <1>2, <1>3, <1>4, <2>1 DEF WalletInv, TypeOK
  <2>3. AdjustersOwnTheRow'
    BY <1>2, <2>1, BooksKept DEF WalletInv, TypeOK, CallsFit, AdjustersOwnTheRow, Active, Call
  <2>4. BalancesAreKnown'
    BY <1>2, <2>1, BooksKept DEF WalletInv, TypeOK, BalancesAreKnown
  <2> QED
    BY <1>2, <1>5, <2>1, <2>2, <2>3, <2>4, BooksKept DEF WalletInv
<1>b. CASE ok
  <2>1. /\ wallets' = [wallets EXCEPT ![u] = row]
        /\ ledger' = [ledger EXCEPT ![u] = Append(@, e)]
    BY <1>b DEF AdjustBalance, PostTransaction
  <2>2. /\ row \in Row /\ row # NoWallet /\ row.balance = e.after
        /\ row.balance \in 0..MaxBalance
    <3>1. BalanceAfter(c.mode, mem[r].balance, c.raw) \in 0..MaxBalance
      BY <1>b DEF Allowed
    <3> QED
      BY <1>1, <3>1, WalletAssumption DEF Row
  <2>3. e \in Entry /\ ledger[u] \in Seq(Entry)
    BY <1>1, <1>b DEF WalletInv, TypeOK
  <2>4. /\ ledger'[u] = Append(ledger[u], e)
        /\ \A v \in Users \ {u} : ledger'[v] = ledger[v] /\ wallets'[v] = wallets[v]
        /\ wallets'[u] = row
    BY <1>1, <2>1 DEF WalletInv, TypeOK
  <2>5. /\ ledger'[u] \in Seq(Entry)
        /\ Len(ledger[u]) \in Nat
        /\ DOMAIN ledger[u] = 1..Len(ledger[u])
        /\ Len(ledger'[u]) = Len(ledger[u]) + 1
        /\ DOMAIN ledger'[u] = 1..(Len(ledger[u]) + 1)
        /\ \A i \in 1..Len(ledger[u]) : ledger'[u][i] = ledger[u][i]
        /\ ledger'[u][Len(ledger[u]) + 1] = e
    BY <2>3, <2>4, BookAppended
  <2>6. TypeOK'
    <3>1. wallets' \in [Users -> Row \cup {NoWallet}]
      BY <2>1, <2>2 DEF WalletInv, TypeOK
    <3>2. ledger' \in [Users -> Seq(Entry)]
      BY <2>1, <2>4, <2>5 DEF WalletInv, TypeOK
    <3> QED
      BY <1>2, <1>3, <1>4, <3>1, <3>2 DEF WalletInv, TypeOK
  <2>7. /\ Balance(u)' = e.after
        /\ \A v \in Users \ {u} : /\ Balance(v)' = Balance(v)
                                 /\ PastBalances(v)' = PastBalances(v)
                                 /\ Current(v)' = Current(v)
    BY <2>2, <2>4 DEF Balance, PastBalances, Current
  <2>8. PastBalances(u) \subseteq PastBalances(u)' /\ e.after \in PastBalances(u)'
    <3>1. ASSUME NEW b \in PastBalances(u) PROVE b \in PastBalances(u)'
      <4>1. CASE b = 0
        BY <4>1 DEF PastBalances
      <4>2. CASE b # 0
        <5>1. PICK i \in DOMAIN ledger[u] : b = ledger[u][i].after
          BY <4>2 DEF PastBalances
        <5>2. i \in DOMAIN ledger'[u] /\ ledger'[u][i] = ledger[u][i]
          BY <2>5
        <5> QED
          BY <5>1, <5>2 DEF PastBalances
      <4> QED
        BY <4>1, <4>2
    <3>2. Len(ledger[u]) + 1 \in DOMAIN ledger'[u]
      BY <2>5
    <3> QED
      BY <2>5, <3>1, <3>2 DEF PastBalances
  <2>9. AdjustersOwnTheRow'
    BY <1>1, <1>2, <2>7 DEF WalletInv, TypeOK, CallsFit, AdjustersOwnTheRow, Active, Call
  <2>10. BalancesAreKnown'
    <3>1. \A v \in Users : (Balance(v) \in PastBalances(v))'
      BY <1>1, <2>7, <2>8 DEF WalletInv, BalancesAreKnown
    <3>2. \A q \in Requests : pc'[q] \in {"reload", "update"} =>
            pc[q] = pc'[q] /\ call[q].user \in Users
      BY <1>2 DEF WalletInv, TypeOK, CallsFit, Active, Call
    <3>3. ASSUME NEW q \in Requests, pc'[q] \in {"reload", "update"}
          PROVE  /\ wallets'[call[q].user] # NoWallet
                 /\ mem[q] \in Row
                 /\ mem[q].balance \in PastBalances(call[q].user)'
      <4>1. /\ wallets[call[q].user] # NoWallet
            /\ mem[q] \in Row
            /\ mem[q].balance \in PastBalances(call[q].user)
        BY <3>2, <3>3 DEF WalletInv, BalancesAreKnown
      <4> QED
        <5> DEFINE v == call[q].user
        <5>1. v \in Users
          BY <3>2, <3>3
        <5>2. wallets'[v] # NoWallet
          BY <2>2, <2>4, <4>1, <5>1
        <5>3. PastBalances(v) \subseteq PastBalances(v)'
          BY <1>2, <2>7, <2>8, <5>1
        <5> QED
          BY <1>2, <4>1, <5>2, <5>3
    <3> QED
      BY <1>2, <3>1, <3>3 DEF BalancesAreKnown
  <2>11. LedgerExplainsBalance'
    <3> SUFFICES ASSUME NEW v \in Users \ overwritten
                 PROVE  /\ \A i \in DOMAIN ledger'[v] : ledger'[v][i].before = Carried(v, i)'
                        /\ Balance(v)' = Carried(v, Len(ledger[v]) + 1)'
      BY <1>2 DEF LedgerExplainsBalance
    <3>1. /\ \A i \in DOMAIN ledger[v] : ledger[v][i].before = Carried(v, i)
          /\ Balance(v) = Carried(v, Len(ledger[v]) + 1)
      BY DEF WalletInv, LedgerExplainsBalance
    <3>2. CASE v # u
      BY <2>4, <2>7, <3>1, <3>2 DEF Carried
    <3>3. CASE v = u
      <4>1. \A i \in 1..(Len(ledger[u]) + 1) : Carried(u, i)' = Carried(u, i)
        BY <2>5 DEF Carried
      <4>2. e.before = Carried(u, Len(ledger[u]) + 1)
        BY <1>1, <3>1, <3>3
      <4>3. Carried(u, Len(ledger[u]) + 1)' = e.after
        <5>1. Len(ledger'[u]) + 1 # 1 /\ Len(ledger'[u]) + 1 - 1 = Len(ledger[u]) + 1
          BY <2>5
        <5> QED
          BY <2>5, <5>1 DEF Carried
      <4>4. \A i \in 1..Len(ledger[u]) : ledger[u][i].before = Carried(u, i)
        BY <2>5, <3>1, <3>3
      <4>5. \A i \in 1..(Len(ledger[u]) + 1) : ledger'[u][i].before = Carried(u, i)'
        <5> SUFFICES ASSUME NEW i \in 1..(Len(ledger[u]) + 1)
                     PROVE  ledger'[u][i].before = Carried(u, i)'
          OBVIOUS
        <5>1. CASE i \in 1..Len(ledger[u])
          BY <2>5, <4>1, <4>4, <5>1
        <5>2. CASE i = Len(ledger[u]) + 1
          BY <2>5, <4>1, <4>2, <5>2
        <5> QED
          BY <2>5, <5>1, <5>2
      <4> QED
        BY <2>5, <2>7, <3>3, <4>3, <4>5
    <3> QED
      BY <3>2, <3>3
  <2>12. OneEntryPerReference'
    <3>1. ~AlreadyProcessed(u, c.mode, c.ref)
      BY <1>b DEF Allowed
    <3> QED
      <4> SUFFICES ASSUME NEW v \in Users, NEW i \in DOMAIN ledger'[v], NEW j \in DOMAIN ledger'[v],
                          ledger'[v][i].ref # NoRef,
                          ledger'[v][i].ref = ledger'[v][j].ref,
                          ledger'[v][i].mode = ledger'[v][j].mode
                   PROVE  i = j
        BY DEF OneEntryPerReference
      <4>1. CASE v # u
        BY <2>4, <4>1 DEF WalletInv, OneEntryPerReference
      <4>2. CASE v = u
        <5>1. \A k \in 1..Len(ledger[u]) : ledger[u][k].mode = e.mode => ledger[u][k].ref # e.ref \/ e.ref = NoRef
          BY <1>1, <2>5, <3>1 DEF AlreadyProcessed
        <5>2. CASE i \in 1..Len(ledger[u]) /\ j \in 1..Len(ledger[u])
          <6>1. ledger'[v][i] = ledger[u][i] /\ ledger'[v][j] = ledger[u][j]
            BY <2>5, <4>2, <5>2
          <6>2. i \in DOMAIN ledger[u] /\ j \in DOMAIN ledger[u]
            BY <2>5, <5>2
          <6> QED
            BY <1>1, <6>1, <6>2 DEF WalletInv, OneEntryPerReference
        <5>3. CASE i = Len(ledger[u]) + 1 /\ j \in 1..Len(ledger[u])
          BY <2>5, <4>2, <5>1, <5>3
        <5>4. CASE i \in 1..Len(ledger[u]) /\ j = Len(ledger[u]) + 1
          BY <2>5, <4>2, <5>1, <5>4
        <5> QED
          <6>1. i \in 1..(Len(ledger[u]) + 1) /\ j \in 1..(Len(ledger[u]) + 1)
            BY <2>5, <4>2
          <6>2. /\ i \in 1..Len(ledger[u]) \/ i = Len(ledger[u]) + 1
                /\ j \in 1..Len(ledger[u]) \/ j = Len(ledger[u]) + 1
            BY <2>5, <6>1
          <6> QED
            BY <5>2, <5>3, <5>4, <6>2
      <4> QED
        BY <4>1, <4>2
  <2> QED
    BY <1>5, <2>6, <2>9, <2>10, <2>11, <2>12 DEF WalletInv
<1> QED
  BY <1>a, <1>b
------------------------------------------------------------------------------
LEMMA StepInv == WalletInv /\ [WalletNext]_walletVars => WalletInv'
<1> SUFFICES ASSUME WalletInv, [WalletNext]_walletVars
             PROVE  WalletInv'
  OBVIOUS
<1>1. ASSUME NEW r \in Requests, Arrive(r)
      PROVE  WalletInv'
  BY <1>1, BeginAdjustInv, ReadWalletInv DEF Arrive
<1>2. ASSUME NEW r \in Requests, Proceed(r)
      PROVE  WalletInv'
  BY <1>2, InsertOnAdjustInv, AdjustBalanceInv, CreateWalletInv, ReloadForSaveInv,
     UpdateColumnsInv DEF Proceed
<1>3. ASSUME NEW r \in Requests, Abort(r)
      PROVE  WalletInv'
  BY <1>3, AbortInv
<1>4. CASE UNCHANGED walletVars
  <2>1. UNCHANGED <<wallets, ledger, overwritten>>
    BY <1>4 DEF walletVars
  <2> QED
    BY <1>4, <2>1, BooksKept DEF walletVars, WalletInv, TypeOK, CallsFit, AdjustersOwnTheRow,
       BalancesAreKnown
<1> QED
  BY <1>1, <1>2, <1>3, <1>4 DEF WalletNext

LEMMA WalletInvHolds == WalletSpec => []WalletInv
BY InitInv, StepInv, PTL DEF WalletSpec

\* Every stored, booked or remembered balance is a non-negative amount that fits its
\* column, in every interleaving of adjustments, freezes and crashes.
THEOREM WalletTypeOK == WalletSpec => []TypeOK
<1>1. WalletInv => TypeOK
  BY DEF WalletInv
<1> QED
  BY <1>1, WalletInvHolds, PTL

\* The transactions explain the balance of every wallet whose balance no freeze or
\* unfreeze has overwritten.
THEOREM WalletLedgerExplainsBalance == WalletSpec => []LedgerExplainsBalance
<1>1. WalletInv => LedgerExplainsBalance
  BY DEF WalletInv
<1> QED
  BY <1>1, WalletInvHolds, PTL

\* A reference is processed at most once.
THEOREM WalletOneEntryPerReference == WalletSpec => []OneEntryPerReference
<1>1. WalletInv => OneEntryPerReference
  BY DEF WalletInv
<1> QED
  BY <1>1, WalletInvHolds, PTL

\* adjustBalance tests the freeze flag when it locks the row and commits later; the
\* lock makes the test still true at the commit.
THEOREM WalletNoPostingWhileFrozen == WalletSpec => NoPostingWhileFrozen
<1>1. ASSUME WalletInv, [WalletNext]_walletVars
      PROVE  [\A u \in Users : Frozen(u) => ledger'[u] = ledger[u]]_walletVars
  <2>1. ASSUME NEW r \in Requests, AdjustBalance(r), NEW u \in Users, Frozen(u)
        PROVE  ledger'[u] = ledger[u]
    <3> SUFFICES ASSUME NEW c, c = call[r], NEW e,
                        e = Transaction(c.mode, c.raw, c.ref, mem[r].balance)
                 PROVE  ledger'[u] = ledger[u]
      OBVIOUS
    <3>1. c.user \in Users /\ mem[r].isFrozen = Frozen(c.user)
      BY <1>1, <2>1, ReadyToPost DEF AdjustBalance
    <3>2. CASE Allowed(mem[r], c.user, c.mode, c.raw, c.ref)
      <4>1. ~Frozen(c.user)
        BY <3>1, <3>2 DEF Allowed
      <4>2. c.user # u
        BY <2>1, <4>1
      <4>3. ledger' = [ledger EXCEPT ![c.user] = Append(@, e)]
        BY <2>1, <3>2 DEF AdjustBalance, PostTransaction
      <4> QED
        BY <1>1, <4>2, <4>3 DEF WalletInv, TypeOK
    <3>3. CASE ~Allowed(mem[r], c.user, c.mode, c.raw, c.ref)
      BY <2>1, <3>3 DEF AdjustBalance
    <3> QED
      BY <3>2, <3>3
  <2>2. ASSUME NEW r \in Requests, Arrive(r) \/ Abort(r) \/ (Proceed(r) /\ ~AdjustBalance(r))
        PROVE  ledger' = ledger
    BY <2>2 DEF Arrive, BeginAdjust, ReadWallet, Abort, Proceed, InsertOnAdjust, CreateWallet,
       ReloadForSave, UpdateColumns
  <2> QED
    BY <1>1, <2>1, <2>2 DEF WalletNext, Proceed
<1> QED
  BY <1>1, WalletInvHolds, PTL DEF WalletSpec, NoPostingWhileFrozen

\* Creating the row of a user changes nothing a caller can see.
LEMMA CreateKeepsAccounts ==
  ASSUME WalletInv, NEW r \in Requests, CreateWallet(r)
  PROVE  /\ [u \in Users |-> Balance(u)]' = [u \in Users |-> Balance(u)]
         /\ [u \in Users |-> Frozen(u)]' = [u \in Users |-> Frozen(u)]
         /\ ledger' = ledger
<1>1. call[r].user \in Users
  BY DEF WalletInv, CallsFit, CreateWallet, Active, Call
<1>2. FreshWallet.balance = 0 /\ FreshWallet.isFrozen = FALSE
  BY Zenon DEF FreshWallet
<1>3. \A u \in Users : \/ wallets'[u] = wallets[u]
                       \/ (wallets[u] = NoWallet /\ wallets'[u] = FreshWallet)
  <2>1. \/ wallets' = wallets
        \/ /\ wallets[call[r].user] = NoWallet
           /\ wallets' = [wallets EXCEPT ![call[r].user] = FreshWallet]
    BY DEF CreateWallet
  <2> QED
    BY <1>1, <2>1 DEF WalletInv, TypeOK
<1>4. \A u \in Users : Balance(u)' = Balance(u)
  BY <1>2, <1>3, FreshRow DEF Balance
<1>5. \A u \in Users : Frozen(u)' = Frozen(u)
  BY <1>2, <1>3, FreshRow, Zenon DEF Frozen
<1> QED
  BY <1>4, <1>5 DEF CreateWallet

\* A freeze or unfreeze that writes restores a balance the account had.
LEMMA UpdateRestores ==
  ASSUME WalletInv, NEW r \in Requests, UpdateColumns(r)
  PROVE  Account!Next
<1> SUFFICES ASSUME NEW u, u = call[r].user,
                    NEW row, row = Merged(mem[r], wallets[u], dirty[r])
             PROVE  Account!Next
  OBVIOUS
<1>1. /\ u \in Users
      /\ wallets[u] \in Row
      /\ mem[r] \in Row
      /\ mem[r].balance \in PastBalances(u)
      /\ wallets[u].balance \in PastBalances(u)
  BY WalletAssumption DEF WalletInv, TypeOK, CallsFit, BalancesAreKnown, Balance, Active, Call, UpdateColumns
<1>2. /\ row \in Row
      /\ row # NoWallet
      /\ row.balance \in PastBalances(u)
      /\ row.isFrozen \in BOOLEAN
  BY <1>1, WalletAssumption DEF Merged, Row
<1>3. wallets' = [wallets EXCEPT ![u] = row] /\ ledger' = ledger
  BY DEF UpdateColumns
<1>4. [v \in Users |-> Balance(v)]' = [[v \in Users |-> Balance(v)] EXCEPT ![u] = row.balance]
  BY <1>1, <1>2, <1>3 DEF WalletInv, TypeOK, Balance
<1>5. [v \in Users |-> Frozen(v)]' = [[v \in Users |-> Frozen(v)] EXCEPT ![u] = row.isFrozen]
  <2>1. \A v \in Users : wallets'[v] = IF v = u THEN row ELSE wallets[v]
    BY <1>1, <1>3 DEF WalletInv, TypeOK
  <2> QED
    BY <1>1, <1>2, <2>1, Zenon DEF Frozen
<1>6. Account!Restore(u)
  BY <1>2, <1>3, <1>4, <1>5 DEF Account!Restore, Account!PastBalances, PastBalances
<1> QED
  BY <1>1, <1>6 DEF Account!Next

\* An adjustment that passes its checks is one posting.
LEMMA AdjustPosts ==
  ASSUME WalletInv, NEW r \in Requests, AdjustBalance(r), ~UNCHANGED <<wallets, ledger>>
  PROVE  Account!Next
<1> SUFFICES ASSUME NEW c, c = call[r], NEW u, u = c.user,
                    NEW e, e = Transaction(c.mode, c.raw, c.ref, mem[r].balance)
             PROVE  Account!Next
  OBVIOUS
<1> DEFINE row == [mem[r] EXCEPT !.balance = BalanceAfter(c.mode, @, c.raw)]
<1>1. Allowed(mem[r], u, c.mode, c.raw, c.ref)
  BY DEF AdjustBalance
<1>2. /\ u \in Users
      /\ mem[r] \in Row
      /\ mem[r].balance = Balance(u)
      /\ mem[r].isFrozen = Frozen(u)
      /\ e.after = BalanceAfter(c.mode, Balance(u), c.raw)
  BY ReadyToPost DEF AdjustBalance
<1>3. c.mode \in Modes /\ c.ref \in Refs \cup {NoRef} /\ c.raw \in RawAmounts /\ c.raw > 0
  <2>1. c \in Call /\ c.mode \in Modes /\ c.raw > 0
    BY DEF WalletInv, CallsFit, Active, AdjustBalance
  <2>2. c.raw \in RawAmounts \cup {0} /\ c.ref \in Refs \cup {NoRef}
    BY <2>1 DEF Call
  <2>3. c.raw # 0
    BY <2>1
  <2> QED
    BY <2>1, <2>2, <2>3
<1>4. /\ wallets' = [wallets EXCEPT ![u] = row]
      /\ ledger' = [ledger EXCEPT ![u] = Append(@, e)]
  BY <1>1 DEF AdjustBalance, PostTransaction
<1>5. /\ BalanceAfter(c.mode, Balance(u), c.raw) \in 0..MaxBalance
      /\ ~Frozen(u)
      /\ ~AlreadyProcessed(u, c.mode, c.ref)
  BY <1>1, <1>2 DEF Allowed
<1>6. /\ row \in Row /\ row # NoWallet
      /\ row.balance = BalanceAfter(c.mode, Balance(u), c.raw)
      /\ row.isFrozen = Frozen(u)
  BY <1>2, <1>5, WalletAssumption DEF Row
<1>7. [v \in Users |-> Balance(v)]' =
        [[v \in Users |-> Balance(v)] EXCEPT ![u] = BalanceAfter(c.mode, Balance(u), c.raw)]
  BY <1>2, <1>4, <1>6 DEF WalletInv, TypeOK, Balance
<1>8. [v \in Users |-> Frozen(v)]' = [v \in Users |-> Frozen(v)]
  <2>1. \A v \in Users : wallets'[v] = IF v = u THEN row ELSE wallets[v]
    BY <1>2, <1>4 DEF WalletInv, TypeOK
  <2>2. \A v \in Users : Frozen(v)' = Frozen(v)
    BY <1>2, <1>6, <2>1, Zenon DEF Frozen
  <2> QED
    BY <2>2
<1>9. Account!Post(u, c.mode, Normalize(c.raw), c.ref)
  BY <1>2, <1>4, <1>5, <1>7, <1>8
  DEF Account!Post, Account!Moved, Account!Posting, BalanceAfter, AlreadyProcessed, Transaction
<1> QED
  BY <1>2, <1>3, <1>9 DEF Account!Next, Account!Modes, Modes

\* The service implements Accounts: seen from outside, each of its steps is a posting,
\* an administrator's restoration, or nothing.
THEOREM WalletImplementsAccounts == WalletSpec => ImplementsAccounts
<1>1. WalletInit => Account!Init
  BY DEF WalletInit, Account!Init, Balance, Frozen
<1>2. ASSUME WalletInv, [WalletNext]_walletVars
      PROVE  [Account!Next]_Account!vars
  <2>1. ASSUME UNCHANGED <<wallets, ledger>>
        PROVE  UNCHANGED Account!vars
    BY <2>1 DEF Account!vars, Balance, Frozen
  <2>2. ASSUME NEW r \in Requests, CreateWallet(r)
        PROVE  UNCHANGED Account!vars
    BY <1>2, <2>2, CreateKeepsAccounts DEF Account!vars
  <2>3. ASSUME NEW r \in Requests, UpdateColumns(r)
        PROVE  Account!Next
    BY <1>2, <2>3, UpdateRestores
  <2>4. ASSUME NEW r \in Requests, AdjustBalance(r)
        PROVE  Account!Next \/ UNCHANGED Account!vars
    <3>1. CASE UNCHANGED <<wallets, ledger>>
      BY <2>1, <3>1
    <3>2. CASE ~UNCHANGED <<wallets, ledger>>
      BY <1>2, <2>4, <3>2, AdjustPosts
    <3> QED
      BY <3>1, <3>2
  <2>5. ASSUME NEW r \in Requests,
               Arrive(r) \/ Abort(r) \/ InsertOnAdjust(r) \/ ReloadForSave(r)
        PROVE  UNCHANGED <<wallets, ledger>>
    BY <2>5 DEF Arrive, BeginAdjust, ReadWallet, Abort, InsertOnAdjust, ReloadForSave
  <2>6. CASE UNCHANGED walletVars
    BY <2>1, <2>6 DEF walletVars
  <2> QED
    BY <1>2, <2>1, <2>2, <2>3, <2>4, <2>5, <2>6 DEF WalletNext, Proceed
<1> QED
  BY <1>1, <1>2, WalletInvHolds, PTL DEF WalletSpec, ImplementsAccounts, Account!Spec

------------------------------------------------------------------------------
(***************************************************************************)
(* Withdrawals.                                                            *)
(***************************************************************************)

Labels == {"idle", "reload", "update"} \cup Withdrawing \cup Ended
Paying == {"number", "count", "store", "commit"}

NumberedOn(d) == {w \in withdrawals : w.number[1] = d}
CreatedOn(d) == {w \in withdrawals : w.day = d}

\* What request r has read and promised fits the place it has reached.
AskedFits(r) ==
  /\ pc[r] \in Labels
  /\ pc[r] \in Withdrawing \cup {"reload", "update"} => call[r].user \in Users
  /\ pc[r] \in Withdrawing => call[r].raw \in RawAmounts
  /\ mem[r] \in Row \cup {NoWallet}
  /\ pc[r] \in {"reload", "update"} \cup Paying => mem[r] \in Row
  /\ dirty[r] \in SUBSET Columns
  /\ pc[r] \in Paying => BalanceAfter("debit", mem[r].balance, call[r].raw) \in 0..MaxBalance

NumberFits(r) ==
  /\ started[r] \in 0..LastDay
  /\ number[r] \in Numbers \cup {NoNumber}
  /\ pc[r] \in Withdrawing => started[r] \in 1..today
  /\ pc[r] \in {"count", "store", "commit"} => number[r][1] \in started[r]..today
  /\ pc[r] \in {"store", "commit"} => number[r][2] \in 1..CountOn(number[r][1]) + 1
  /\ pc[r] = "commit" => ~Taken(r) /\ ~InFlight(r)

\* The variables of the requests are functions of the requests.
Locals ==
  /\ pc = [r \in Requests |-> pc[r]] /\ call = [r \in Requests |-> call[r]]
  /\ mem = [r \in Requests |-> mem[r]] /\ dirty = [r \in Requests |-> dirty[r]]
  /\ started = [r \in Requests |-> started[r]] /\ number = [r \in Requests |-> number[r]]

Books ==
  /\ wallets \in [Users -> Row]
  /\ ledger \in [Users -> Seq(Entry)]
  /\ rowLock \in [Users -> Requests \cup {Nobody}]

Days ==
  /\ today \in 1..LastDay
  /\ withdrawals \subseteq Withdrawal
  /\ IsFiniteSet(withdrawals)
  /\ \A w \in withdrawals : w.day <= w.number[1] /\ w.number[1] <= today
  /\ \A w \in withdrawals : w.day = w.number[1] => w.number[2] <= CountOn(w.day)

WithdrawalsInv ==
  /\ Books /\ Days /\ Locals
  /\ \A r \in Requests : AskedFits(r) /\ NumberFits(r)
  /\ EveryDebitIsOneWithdrawal
  /\ OnlyMidnightLeavesGaps
------------------------------------------------------------------------------

LEMMA WithdrawalsInitInv == WithdrawalsInit => WithdrawalsInv
<1> SUFFICES ASSUME WithdrawalsInit PROVE WithdrawalsInv
  OBVIOUS
<1> USE WithdrawalAssumption, WalletAssumption
<1>1. Books
  <2>1. wallets \in [Users -> Row]
    <3>1. [balance |-> Opening, isFrozen |-> FALSE] \in Row
      BY Zenon DEF Row
    <3> QED
      BY <3>1 DEF WithdrawalsInit
  <2>2. ledger \in [Users -> Seq(Entry)]
    <3>1. [mode |-> "credit", amount |-> Opening, ref |-> NoRef, before |-> 0, after |-> Opening] \in Entry
      BY DEF Entry, Modes
    <3>2. PICK e \in Entry :
            e = [mode |-> "credit", amount |-> Opening, ref |-> NoRef, before |-> 0, after |-> Opening]
      BY <3>1
    <3>3. <<>> \in Seq(Entry) /\ <<e>> \in Seq(Entry)
      OBVIOUS
    <3> QED
      BY <3>2, <3>3 DEF WithdrawalsInit
  <2> QED
    BY <2>1, <2>2 DEF WithdrawalsInit, Books
<1>2. Days
  BY FS_EmptySet DEF WithdrawalsInit, Days
<1>3. Locals
  BY DEF WithdrawalsInit, Locals
<1>4. \A r \in Requests : AskedFits(r) /\ NumberFits(r)
  BY DEF WithdrawalsInit, AskedFits, NumberFits, Labels, Withdrawing, InTransaction, Ended, Paying, Columns
<1>5. EveryDebitIsOneWithdrawal
  <2>1. \A u \in Users : \A i \in DOMAIN ledger[u] : ledger[u][i].mode # "debit"
    BY DEF WithdrawalsInit
  <2> QED
    BY <2>1 DEF WithdrawalsInit, EveryDebitIsOneWithdrawal
<1>6. OnlyMidnightLeavesGaps
  <2>1. withdrawals = {}
    BY DEF WithdrawalsInit
  <2>2. \A d : {w \in withdrawals : w.number[1] = d} = {}
    BY <2>1
  <2>3. {w.number[2] : w \in {}} = {} /\ 1..0 = {}
    OBVIOUS
  <2> QED
    BY <2>2, <2>3, FS_EmptySet DEF OnlyMidnightLeavesGaps
<1> QED
  BY <1>1, <1>2, <1>3, <1>4, <1>5, <1>6 DEF WithdrawalsInv

\* Only request r moves.
Apart(r) == \A q \in Requests \ {r} :
  /\ pc'[q] = pc[q] /\ call'[q] = call[q] /\ mem'[q] = mem[q]
  /\ dirty'[q] = dirty[q] /\ started'[q] = started[q] /\ number'[q] = number[q]

LEMMA StepOfOne ==
  ASSUME WithdrawalsInv, NEW r \in Requests, Apart(r), Locals',
         UNCHANGED <<ledger, withdrawals, today>>, wallets' \in [Users -> Row],
         rowLock' \in [Users -> Requests \cup {Nobody}],
         AskedFits(r)', NumberFits(r)'
  PROVE  WithdrawalsInv'
<1>1. Books' /\ Days'
  BY DEF WithdrawalsInv, Books, Days, CountOn
<1>2. ASSUME NEW q \in Requests \ {r} PROVE AskedFits(q)'
  BY DEF WithdrawalsInv, AskedFits, Apart
<1>3. ASSUME NEW q \in Requests \ {r} PROVE NumberFits(q)'
  <2>1. NumberFits(q) /\ pc'[q] = pc[q] /\ number'[q] = number[q] /\ started'[q] = started[q]
    BY DEF WithdrawalsInv, Apart
  <2>2. \A d : CountOn(d)' = CountOn(d)
    BY DEF CountOn
  <2>3. pc'[q] = "commit" => ~Taken(q)' /\ ~InFlight(q)'
    BY <2>1 DEF NumberFits, Taken, InFlight, Apart
  <2> QED
    BY <2>1, <2>2, <2>3 DEF NumberFits
<1>4. EveryDebitIsOneWithdrawal' /\ OnlyMidnightLeavesGaps'
  BY DEF WithdrawalsInv, EveryDebitIsOneWithdrawal, OnlyMidnightLeavesGaps
<1> QED
  BY <1>1, <1>2, <1>3, <1>4 DEF WithdrawalsInv

LEMMA LocksTyped ==
  ASSUME WithdrawalsInv, NEW r \in Requests,
         UNCHANGED rowLock \/ Unlock(r) \/ \E u \in Users : Lock(r, u)
  PROVE  rowLock' \in [Users -> Requests \cup {Nobody}]
BY DEF WithdrawalsInv, Books, Unlock, Lock

\* A request is over.
LEMMA ReturnInv ==
  ASSUME WithdrawalsInv, NEW r \in Requests, NEW label \in Ended, Return(r, label),
         UNCHANGED rowLock \/ Unlock(r),
         UNCHANGED <<wallets, ledger, dirty, overwritten, today, withdrawals>>
  PROVE  WithdrawalsInv'
<1> USE DEF Return, Goto
<1>1. Apart(r) /\ Locals'
  BY DEF WithdrawalsInv, Locals, Apart
<1>2. /\ pc'[r] = label /\ mem'[r] = NoWallet /\ started'[r] = 0 /\ number'[r] = NoNumber
      /\ dirty'[r] = dirty[r]
  BY DEF WithdrawalsInv, Locals
<1>3. AskedFits(r)'
  BY <1>2 DEF WithdrawalsInv, AskedFits, Labels, Withdrawing, InTransaction, Ended, Paying
<1>4. NumberFits(r)'
  BY <1>2, WithdrawalAssumption DEF WithdrawalsInv, NumberFits, Withdrawing, InTransaction, Ended
<1> QED
  BY <1>1, <1>3, <1>4, LocksTyped, StepOfOne DEF WithdrawalsInv, Books

\* A request goes on with what it has: everything but "store" and "commit" asks no more of it.
LEMMA ContinueInv ==
  ASSUME WithdrawalsInv, NEW r \in Requests, NEW label \in {"assert", "debit"},
         pc[r] \in Withdrawing, Continue(r, label),
         UNCHANGED <<wallets, ledger, rowLock, dirty, overwritten, today, withdrawals>>
  PROVE  WithdrawalsInv'
<1> USE DEF Continue, Goto
<1>1. Apart(r) /\ Locals'
  BY DEF WithdrawalsInv, Locals, Apart
<1>2. pc'[r] = label
  BY DEF WithdrawalsInv, Locals
<1>3. AskedFits(r)'
  BY <1>2 DEF WithdrawalsInv, AskedFits, Labels, Withdrawing, InTransaction, Paying
<1>4. NumberFits(r)'
  BY <1>2 DEF WithdrawalsInv, NumberFits
<1> QED
  BY <1>1, <1>3, <1>4, StepOfOne DEF WithdrawalsInv, Books

LEMMA StartWithdrawalInv ==
  ASSUME WithdrawalsInv, NEW r \in Requests, NEW u \in Users, NEW raw \in RawAmounts,
         StartWithdrawal(r, u, raw)
  PROVE  WithdrawalsInv'
<1> USE DEF StartWithdrawal, Goto
<1>1. Apart(r) /\ Locals'
  BY DEF WithdrawalsInv, Locals, Apart
<1>2. /\ pc'[r] = "wallet" /\ call'[r].user = u /\ call'[r].raw = raw /\ started'[r] = today
      /\ mem'[r] = mem[r] /\ dirty'[r] = dirty[r] /\ number'[r] = number[r]
  BY DEF WithdrawalsInv, Locals
<1>3. AskedFits(r)'
  BY <1>2 DEF WithdrawalsInv, AskedFits, Labels, Withdrawing, InTransaction, Paying
<1>4. NumberFits(r)'
  BY <1>2, WithdrawalAssumption DEF WithdrawalsInv, NumberFits, Days
<1> QED
  BY <1>1, <1>3, <1>4, StepOfOne DEF WithdrawalsInv, Books

LEMMA FindCryptoWalletInv ==
  ASSUME WithdrawalsInv, NEW r \in Requests, FindCryptoWallet(r)
  PROVE  WithdrawalsInv'
BY ContinueInv, ReturnInv DEF FindCryptoWallet, RollBack, Withdrawing, InTransaction, Ended

LEMMA AssertSufficientBalanceInv ==
  ASSUME WithdrawalsInv, NEW r \in Requests, AssertSufficientBalance(r)
  PROVE  WithdrawalsInv'
BY ContinueInv, ReturnInv DEF AssertSufficientBalance, RollBack, Withdrawing, InTransaction, Ended

LEMMA DebitWalletInv ==
  ASSUME WithdrawalsInv, NEW r \in Requests, DebitWallet(r)
  PROVE  WithdrawalsInv'
<1>0. PICK u, row : u = call[r].user /\ row = wallets[u]
  OBVIOUS
<1>1. u \in Users /\ row \in Row /\ pc[r] = "debit"
  BY <1>0 DEF DebitWallet, WithdrawalsInv, AskedFits, Withdrawing, InTransaction, Books
<1>2. CASE RollBack(r)
  BY <1>2, ReturnInv DEF DebitWallet, RollBack, Ended
<1>3. CASE /\ Allowed(row, u, "debit", call[r].raw, NoRef)
           /\ Lock(r, u)
           /\ mem' = [mem EXCEPT ![r] = row]
           /\ Goto(r, "number")
           /\ UNCHANGED <<call, started, number>>
  <2>0. UNCHANGED <<wallets, ledger, dirty, overwritten, today, withdrawals>>
    BY DEF DebitWallet
  <2>1. Apart(r) /\ Locals'
    BY <1>3, <2>0 DEF WithdrawalsInv, Locals, Apart, Goto
  <2>2. pc'[r] = "number" /\ mem'[r] = row
    BY <1>3 DEF WithdrawalsInv, Locals, Goto
  <2>3. BalanceAfter("debit", row.balance, call[r].raw) \in 0..MaxBalance
    BY <1>3 DEF Allowed
  <2>4. AskedFits(r)'
    BY <1>1, <1>3, <2>0, <2>2, <2>3
    DEF WithdrawalsInv, AskedFits, Labels, Withdrawing, InTransaction, Paying
  <2>5. NumberFits(r)'
    BY <1>1, <1>3, <2>0, <2>2 DEF WithdrawalsInv, NumberFits, Withdrawing, InTransaction
  <2>6. rowLock' \in [Users -> Requests \cup {Nobody}]
    BY <1>1, <1>3, LocksTyped
  <2> QED
    BY <2>0, <2>1, <2>4, <2>5, <2>6, StepOfOne DEF WithdrawalsInv, Books
<1> QED
  BY <1>0, <1>2, <1>3 DEF DebitWallet

LEMMA CountsAreNatural ==
  ASSUME WithdrawalsInv
  PROVE  \A d : /\ IsFiniteSet(CreatedOn(d)) /\ CountOn(d) \in Nat
                /\ IsFiniteSet(NumberedOn(d)) /\ Cardinality(NumberedOn(d)) \in Nat
<1>1. \A d : CreatedOn(d) \in SUBSET withdrawals /\ NumberedOn(d) \in SUBSET withdrawals
  BY DEF CreatedOn, NumberedOn
<1>2. \A d : IsFiniteSet(CreatedOn(d)) /\ IsFiniteSet(NumberedOn(d))
  BY <1>1, FS_Subset DEF WithdrawalsInv, Days
<1> QED
  BY <1>2, FS_CardinalityType DEF CountOn, CreatedOn

LEMMA ReadDayInv ==
  ASSUME WithdrawalsInv, NEW r \in Requests, ReadDay(r)
  PROVE  WithdrawalsInv'
<1> USE DEF ReadDay, Goto
<1>1. Apart(r) /\ Locals'
  BY DEF WithdrawalsInv, Locals, Apart
<1>2. /\ pc'[r] = "count" /\ number'[r] = <<today, 0>>
      /\ mem'[r] = mem[r] /\ dirty'[r] = dirty[r] /\ started'[r] = started[r] /\ call'[r] = call[r]
  BY DEF WithdrawalsInv, Locals
<1>3. AskedFits(r)'
  BY <1>2 DEF WithdrawalsInv, AskedFits, Labels, Withdrawing, InTransaction, Paying
<1>4. NumberFits(r)'
  <2>1. <<today, 0>> \in Numbers
    BY DEF WithdrawalsInv, Days, Numbers
  <2>2. started[r] \in 1..today /\ started[r] \in 0..LastDay /\ today \in Int
    BY WithdrawalAssumption DEF WithdrawalsInv, NumberFits, Withdrawing, InTransaction, Days
  <2> QED
    BY <1>2, <2>1, <2>2 DEF NumberFits
<1> QED
  BY <1>1, <1>3, <1>4, StepOfOne DEF WithdrawalsInv, Books

LEMMA GenerateInv ==
  ASSUME WithdrawalsInv, NEW r \in Requests, GenerateTransactionNumber(r)
  PROVE  WithdrawalsInv'
<1> USE DEF GenerateTransactionNumber, Goto
<1>1. Apart(r) /\ Locals'
  BY DEF WithdrawalsInv, Locals, Apart
<1>2. PICK d, k : d = number[r][1] /\ k = CountOn(d) + 1
  OBVIOUS
<1>3. k \in Nat /\ k \in 1..CountOn(d) + 1
  BY <1>2, CountsAreNatural
<1>4. /\ pc'[r] = "store" /\ number'[r] = <<d, k>>
      /\ mem'[r] = mem[r] /\ dirty'[r] = dirty[r] /\ started'[r] = started[r] /\ call'[r] = call[r]
  BY <1>2 DEF WithdrawalsInv, Locals, NextNumber
<1>5. AskedFits(r)'
  BY <1>4 DEF WithdrawalsInv, AskedFits, Labels, Withdrawing, InTransaction, Paying
<1>6. NumberFits(r)'
  <2>1. CountOn(d)' = CountOn(d) /\ today' = today
    BY DEF CountOn
  <2>2. /\ started[r] \in 1..today /\ started[r] \in 0..LastDay
        /\ d \in started[r]..today /\ today \in 1..LastDay /\ LastDay \in Nat
    BY <1>2, WithdrawalAssumption DEF WithdrawalsInv, NumberFits, Withdrawing, InTransaction, Days
  <2>3. <<d, k>> \in Numbers
    BY <1>3, <2>2 DEF Numbers
  <2>4. number'[r][1] \in started'[r]..today'
    BY <1>4, <2>1, <2>2
  <2>5. CountOn(number[r][1])' = CountOn(d)
    <3>1. number'[r][1] = d
      BY <1>4
    <3>2. CountOn(number[r][1])' = CountOn(d)'
      BY <3>1 DEF CountOn
    <3> QED
      BY <2>1, <3>2
  <2>6. number'[r][2] \in 1..CountOn(number[r][1])' + 1
    BY <1>3, <1>4, <2>5
  <2> QED
    BY <1>4, <2>1, <2>2, <2>3, <2>4, <2>6 DEF NumberFits
<1> QED
  BY <1>1, <1>5, <1>6, StepOfOne DEF WithdrawalsInv, Books

LEMMA InsertWithdrawalInv ==
  ASSUME WithdrawalsInv, NEW r \in Requests, InsertWithdrawal(r)
  PROVE  WithdrawalsInv'
<1>1. CASE RollBack(r)
  BY <1>1, ReturnInv DEF InsertWithdrawal, RollBack, Ended
<1>2. CASE ~Taken(r) /\ Continue(r, "commit") /\ UNCHANGED rowLock
  <2> USE <1>2 DEF Continue, Goto
  <2>0. /\ pc[r] = "store" /\ ~InFlight(r)
        /\ UNCHANGED <<wallets, ledger, dirty, overwritten, today, withdrawals>>
    BY DEF InsertWithdrawal
  <2>1. Apart(r) /\ Locals'
    BY <2>0 DEF WithdrawalsInv, Locals, Apart
  <2>2. pc'[r] = "commit"
    BY DEF WithdrawalsInv, Locals
  <2>3. AskedFits(r)'
    BY <2>0, <2>2 DEF WithdrawalsInv, AskedFits, Labels, Withdrawing, InTransaction, Paying
  <2>4. ~Taken(r)' /\ ~InFlight(r)'
    BY <2>0, <2>1 DEF Taken, InFlight, Apart
  <2>5. \A d : CountOn(d)' = CountOn(d)
    BY <2>0 DEF CountOn
  <2>6. NumberFits(r)'
    BY <2>0, <2>2, <2>4, <2>5 DEF WithdrawalsInv, NumberFits, Withdrawing, InTransaction
  <2> QED
    BY <2>0, <2>1, <2>3, <2>6, StepOfOne DEF WithdrawalsInv, Books
<1> QED
  BY <1>1, <1>2 DEF InsertWithdrawal

LEMMA LoadResultInv ==
  ASSUME WithdrawalsInv, NEW r \in Requests, LoadResult(r) \/ AbortWithdrawal(r)
  PROVE  WithdrawalsInv'
BY ReturnInv DEF LoadResult, AbortWithdrawal, RollBack, Ended

LEMMA MidnightInv ==
  ASSUME WithdrawalsInv, Midnight
  PROVE  WithdrawalsInv'
<1> USE DEF Midnight, walletVars
<1>0. today \in Nat /\ LastDay \in Nat /\ today' = today + 1 /\ today' \in 1..LastDay
  BY WithdrawalAssumption DEF WithdrawalsInv, Days
<1>1. Books' /\ Locals'
  BY DEF WithdrawalsInv, Books, Locals
<1>2. Days'
  <2>1. \A w \in withdrawals : w.number[1] \in Int
    BY DEF WithdrawalsInv, Days, Withdrawal, Numbers
  <2> QED
    BY <1>0, <2>1 DEF WithdrawalsInv, Days, CountOn
<1>3. ASSUME NEW r \in Requests PROVE AskedFits(r)' /\ NumberFits(r)'
  <2>1. AskedFits(r)'
    BY DEF WithdrawalsInv, AskedFits
  <2>2. \A d : CountOn(d)' = CountOn(d)
    BY DEF CountOn
  <2>3. pc[r] = "commit" => ~Taken(r)' /\ ~InFlight(r)'
    BY DEF WithdrawalsInv, NumberFits, Taken, InFlight
  <2>4. pc[r] \in {"count", "store", "commit"} => number[r][1] \in started[r]..today'
    BY <1>0 DEF WithdrawalsInv, NumberFits
  <2>5. pc[r] \in Withdrawing => started[r] \in 1..today'
    BY <1>0 DEF WithdrawalsInv, NumberFits
  <2>6. NumberFits(r)'
    BY <2>2, <2>3, <2>4, <2>5 DEF WithdrawalsInv, NumberFits
  <2> QED
    BY <2>1, <2>6
<1>4. EveryDebitIsOneWithdrawal' /\ OnlyMidnightLeavesGaps'
  BY DEF WithdrawalsInv, EveryDebitIsOneWithdrawal, OnlyMidnightLeavesGaps
<1> QED
  BY <1>1, <1>2, <1>3, <1>4 DEF WithdrawalsInv

\* freezeWallet and unfreezeWallet.
LEMMA ArriveFreezeInv ==
  ASSUME WithdrawalsInv, NEW r \in Requests, ArriveFreeze(r)
  PROVE  WithdrawalsInv'
<1>1. PICK u \in Users, mode \in Switches : ReadWallet(r, u, mode)
  BY DEF ArriveFreeze
<1>2. PICK row : row = wallets[u]
  OBVIOUS
<1>3. row \in Row /\ row # NoWallet /\ mode # "open" /\ pc[r] = "idle"
  BY <1>1, <1>2, WalletAssumption, WithdrawalAssumption DEF WithdrawalsInv, Books, ReadWallet
<1>4. PICK flagged : flagged = Flagged(row, mode)
  OBVIOUS
<1>5. flagged \in Row
  BY <1>3, <1>4, FlaggedRow
<1>6. /\ mem' = [mem EXCEPT ![r] = flagged]
      /\ pc' = [pc EXCEPT ![r] = "reload"]
      /\ call' = [call EXCEPT ![r] = [user |-> u, mode |-> mode, raw |-> 0, ref |-> NoRef]]
      /\ UNCHANGED <<wallets, ledger, rowLock, dirty, overwritten, today, withdrawals, started, number>>
  BY <1>1, <1>2, <1>3, <1>4 DEF ArriveFreeze, ReadWallet, Holding, Goto, withdrawalVars
<1>7. Apart(r) /\ Locals'
  BY <1>6 DEF WithdrawalsInv, Locals, Apart
<1>8. pc'[r] = "reload" /\ mem'[r] = flagged /\ call'[r].user = u
  BY <1>6 DEF WithdrawalsInv, Locals
<1>9. AskedFits(r)'
  BY <1>5, <1>6, <1>8 DEF WithdrawalsInv, AskedFits, Labels, Withdrawing, InTransaction, Paying
<1>10. NumberFits(r)'
  BY <1>6, <1>8 DEF WithdrawalsInv, NumberFits, Withdrawing, InTransaction
<1> QED
  BY <1>6, <1>7, <1>9, <1>10, StepOfOne DEF WithdrawalsInv, Books

LEMMA ProceedFreezeInv ==
  ASSUME WithdrawalsInv, NEW r \in Requests, ProceedFreeze(r)
  PROVE  WithdrawalsInv'
<1> USE DEF withdrawalVars, Goto
<1>1. CASE ReloadForSave(r)
  <2>1. /\ UNCHANGED <<wallets, ledger, rowLock, call, mem, today, withdrawals, started, number>>
        /\ pc[r] = "reload"
    BY <1>1 DEF ReloadForSave, ProceedFreeze
  <2>2. PICK columns : columns = Differing(mem[r], wallets[call[r].user])
    OBVIOUS
  <2>3. columns \in SUBSET Columns
    BY <2>2 DEF Differing
  <2>4. PICK label \in {"done", "update"} : pc' = [pc EXCEPT ![r] = label]
    BY <1>1 DEF ReloadForSave
  <2>5. dirty' = [dirty EXCEPT ![r] = columns]
    BY <1>1, <2>2 DEF ReloadForSave
  <2>6. Apart(r) /\ Locals'
    BY <2>1, <2>4, <2>5 DEF WithdrawalsInv, Locals, Apart
  <2>7. pc'[r] = label /\ dirty'[r] = columns
    BY <2>4, <2>5 DEF WithdrawalsInv, Locals
  <2>8. AskedFits(r)'
    BY <2>1, <2>3, <2>7 DEF WithdrawalsInv, AskedFits, Labels, Withdrawing, InTransaction, Paying, Ended
  <2>9. NumberFits(r)'
    BY <2>1, <2>7 DEF WithdrawalsInv, NumberFits, Withdrawing, InTransaction
  <2> QED
    BY <2>1, <2>6, <2>8, <2>9, StepOfOne DEF WithdrawalsInv, Books
<1>2. CASE UpdateColumns(r)
  <2>1. /\ UNCHANGED <<ledger, rowLock, call, mem, dirty, today, withdrawals, started, number>>
        /\ pc[r] = "update" /\ pc' = [pc EXCEPT ![r] = "done"]
    BY <1>2 DEF UpdateColumns, ProceedFreeze
  <2>2. PICK u : u = call[r].user
    OBVIOUS
  <2>3. PICK row : row = Merged(mem[r], wallets[u], dirty[r])
    OBVIOUS
  <2>4. u \in Users /\ wallets[u] \in Row /\ mem[r] \in Row
    BY <2>1, <2>2 DEF WithdrawalsInv, AskedFits, Books
  <2>5. row \in Row
    BY <2>3, <2>4 DEF Merged, Row
  <2>6. wallets' = [wallets EXCEPT ![u] = row]
    BY <1>2, <2>2, <2>3 DEF UpdateColumns
  <2>7. wallets' \in [Users -> Row]
    BY <2>4, <2>5, <2>6 DEF WithdrawalsInv, Books
  <2>8. Apart(r) /\ Locals' /\ pc'[r] = "done"
    BY <2>1 DEF WithdrawalsInv, Locals, Apart
  <2>9. AskedFits(r)'
    BY <2>1, <2>8 DEF WithdrawalsInv, AskedFits, Labels, Withdrawing, InTransaction, Paying, Ended
  <2>10. NumberFits(r)'
    BY <2>1, <2>8 DEF WithdrawalsInv, NumberFits, Withdrawing, InTransaction
  <2> QED
    BY <2>1, <2>7, <2>8, <2>9, <2>10, StepOfOne DEF WithdrawalsInv, Books
<1> QED
  BY <1>1, <1>2 DEF ProceedFreeze

\* The withdrawal that a commit stores: it is new, and so is its number, which is
\* at most the one after the withdrawals created on its day.
LEMMA StoredNext ==
  ASSUME WithdrawalsInv, NEW r \in Requests, pc[r] = "commit", NEW n \in Nat,
         NEW w, w = Stored(r, n)
  PROVE  /\ w \in Withdrawal /\ w \notin withdrawals
         /\ w.user = call[r].user /\ w.tx = n /\ w.amount = Normalize(call[r].raw) /\ w.number = number[r]
         /\ w.day <= w.number[1] /\ w.number[1] <= today
         /\ w.number[2] \in 1..CountOn(w.number[1]) + 1
         /\ \A v \in withdrawals : v.number[1] = w.number[1] => v.number[2] # w.number[2]
<1>1. call[r].user \in Users /\ call[r].raw \in RawAmounts /\ ~Taken(r)
  BY DEF WithdrawalsInv, AskedFits, NumberFits, Withdrawing, InTransaction
<1>2. Normalize(call[r].raw) \in Nat
  BY <1>1, NormalizeNat, WalletAssumption, WithdrawalAssumption
<1>3. /\ today \in 1..LastDay /\ LastDay \in Nat
      /\ started[r] \in 1..today /\ number[r][1] \in started[r]..today
      /\ number[r] \in Numbers \cup {NoNumber}
      /\ number[r][2] \in 1..CountOn(number[r][1]) + 1
  BY WithdrawalAssumption DEF WithdrawalsInv, NumberFits, Days, Withdrawing, InTransaction
<1>4. number[r] \in Numbers
  BY <1>3 DEF NoNumber
<1>5. PICK d, k : d = number[r][1] /\ k = number[r][2]
  OBVIOUS
<1>6. number[r] = <<d, k>> /\ d \in 1..LastDay /\ k \in Nat
  BY <1>4, <1>5 DEF Numbers
<1>7. w = [id |-> r, user |-> call[r].user, amount |-> Normalize(call[r].raw),
           day |-> started[r], number |-> number[r], tx |-> n]
  BY DEF Stored
<1>8. w \in Withdrawal
  BY <1>1, <1>2, <1>3, <1>4, <1>7 DEF Withdrawal
<1>9. w \notin withdrawals
  BY <1>1, <1>7 DEF Taken
<1>10. ASSUME NEW v \in withdrawals, v.number[1] = d, v.number[2] = k PROVE FALSE
  <2>1. v.number \in Numbers
    BY DEF WithdrawalsInv, Days, Withdrawal
  <2>2. v.number = <<d, k>>
    BY <1>10, <2>1 DEF Numbers
  <2> QED
    BY <1>1, <1>6, <2>2 DEF Taken
<1>11. /\ w.user = call[r].user /\ w.tx = n /\ w.amount = Normalize(call[r].raw)
       /\ w.number = number[r] /\ w.day = started[r]
  BY <1>7
<1>12. w.day <= d /\ d <= today
  BY <1>3, <1>5, <1>11
<1> QED
  BY <1>3, <1>5, <1>8, <1>9, <1>10, <1>11, <1>12

LEMMA CommitWithdrawalInv ==
  ASSUME WithdrawalsInv, NEW r \in Requests, CommitWithdrawal(r)
  PROVE  WithdrawalsInv'
<1>0. PICK u, row, e, n, w :
        /\ u = call[r].user
        /\ row = [mem[r] EXCEPT !.balance = BalanceAfter("debit", @, call[r].raw)]
        /\ e = Transaction("debit", call[r].raw, NoRef, mem[r].balance)
        /\ n = Len(ledger[u]) + 1
        /\ w = Stored(r, n)
  OBVIOUS
<1>1. /\ pc[r] = "commit" /\ pc' = [pc EXCEPT ![r] = "report"]
      /\ wallets' = [wallets EXCEPT ![u] = row]
      /\ ledger' = [ledger EXCEPT ![u] = Append(@, e)]
      /\ Unlock(r)
      /\ withdrawals' = withdrawals \cup {w}
      /\ UNCHANGED <<call, mem, dirty, overwritten, today, started, number>>
  BY <1>0 DEF CommitWithdrawal, PostTransaction, Goto
<1>2. /\ u \in Users /\ call[r].raw \in RawAmounts /\ mem[r] \in Row
      /\ BalanceAfter("debit", mem[r].balance, call[r].raw) \in 0..MaxBalance
  BY <1>0, <1>1 DEF WithdrawalsInv, AskedFits, Withdrawing, InTransaction, Paying
<1>3. row \in Row
  <2>1. PICK b \in 0..MaxBalance : b = BalanceAfter("debit", mem[r].balance, call[r].raw)
    BY <1>2
  <2>2. row = [mem[r] EXCEPT !.balance = b]
    BY <1>0, <2>1
  <2> QED
    BY <1>2, <2>1, <2>2 DEF Row
<1>4. e \in Entry /\ e.mode = "debit" /\ e.amount = Normalize(call[r].raw)
  <2>1. Normalize(call[r].raw) \in Nat
    BY <1>2, NormalizeNat, WalletAssumption, WithdrawalAssumption
  <2>2. mem[r].balance \in 0..MaxBalance
    BY <1>2 DEF Row
  <2>3. e = [mode |-> "debit", amount |-> Normalize(call[r].raw), ref |-> NoRef,
             before |-> mem[r].balance, after |-> BalanceAfter("debit", mem[r].balance, call[r].raw)]
    BY <1>0 DEF Transaction
  <2> QED
    BY <1>2, <2>1, <2>2, <2>3 DEF Entry, Modes
<1>5. ledger[u] \in Seq(Entry) /\ ledger \in [Users -> Seq(Entry)] /\ wallets \in [Users -> Row]
  BY <1>2 DEF WithdrawalsInv, Books
<1>6. /\ Append(ledger[u], e) \in Seq(Entry)
      /\ n \in Nat /\ DOMAIN ledger[u] = 1..(n - 1) /\ DOMAIN Append(ledger[u], e) = 1..n
      /\ \A i \in 1..(n - 1) : Append(ledger[u], e)[i] = ledger[u][i]
      /\ Append(ledger[u], e)[n] = e
  BY <1>0, <1>4, <1>5, BookAppended
<1>7. /\ \A v \in Users \ {u} : ledger'[v] = ledger[v]
      /\ ledger'[u] = Append(ledger[u], e)
      /\ ledger' \in [Users -> Seq(Entry)] /\ wallets' \in [Users -> Row]
  BY <1>1, <1>2, <1>3, <1>5, <1>6
<1>8. /\ w \in Withdrawal /\ w \notin withdrawals
      /\ w.user = u /\ w.tx = n /\ w.amount = Normalize(call[r].raw) /\ w.number = number[r]
      /\ w.day <= w.number[1] /\ w.number[1] <= today
      /\ w.number[2] \in 1..CountOn(w.number[1]) + 1
      /\ \A v \in withdrawals : v.number[1] = w.number[1] => v.number[2] # w.number[2]
  BY <1>0, <1>1, <1>6, StoredNext
<1>9. Apart(r) /\ Locals' /\ pc'[r] = "report"
  BY <1>1 DEF WithdrawalsInv, Locals, Apart
<1>10. Books'
  BY <1>1, <1>7, LocksTyped DEF Books
<1>11. \A d : /\ IsFiniteSet(CreatedOn(d)) /\ CountOn(d) \in Nat
              /\ IsFiniteSet(NumberedOn(d)) /\ Cardinality(NumberedOn(d)) \in Nat
  BY CountsAreNatural
<1>12. /\ \A d : d # w.number[1] => NumberedOn(d)' = NumberedOn(d)
       /\ NumberedOn(w.number[1])' = NumberedOn(w.number[1]) \cup {w}
       /\ \A d : d # w.day => CreatedOn(d)' = CreatedOn(d)
       /\ CreatedOn(w.day)' = CreatedOn(w.day) \cup {w}
  BY <1>1 DEF NumberedOn, CreatedOn
<1>13. /\ w \notin NumberedOn(w.number[1]) /\ w \notin CreatedOn(w.day)
       /\ \A d : CountOn(d) = Cardinality(CreatedOn(d)) /\ CountOn(d)' = Cardinality(CreatedOn(d)')
  BY <1>8 DEF NumberedOn, CreatedOn, CountOn
<1>14. /\ \A d : d # w.number[1] => Cardinality(NumberedOn(d))' = Cardinality(NumberedOn(d))
       /\ Cardinality(NumberedOn(w.number[1]))' = Cardinality(NumberedOn(w.number[1])) + 1
       /\ \A d : d # w.day => CountOn(d)' = CountOn(d)
       /\ CountOn(w.day)' = CountOn(w.day) + 1
  <2>1. PICK d, c : d = w.number[1] /\ c = w.day
    OBVIOUS
  <2>2. Cardinality(NumberedOn(d) \cup {w}) = Cardinality(NumberedOn(d)) + 1
    BY <1>11, <1>13, <2>1, FS_AddElement
  <2>3. Cardinality(CreatedOn(c) \cup {w}) = Cardinality(CreatedOn(c)) + 1
    BY <1>11, <1>13, <2>1, FS_AddElement
  <2>4. \A x : x # d => Cardinality(NumberedOn(x))' = Cardinality(NumberedOn(x))
    BY <1>12, <2>1
  <2>5. \A x : x # c => CountOn(x)' = CountOn(x)
    BY <1>12, <1>13, <2>1
  <2>6. Cardinality(NumberedOn(d))' = Cardinality(NumberedOn(d)) + 1
    BY <1>12, <2>1, <2>2
  <2>7. CountOn(c)' = CountOn(c) + 1
    BY <1>12, <1>13, <2>1, <2>3
  <2>8. /\ Cardinality(NumberedOn(w.number[1]))' = Cardinality(NumberedOn(w.number[1])) + 1
        /\ CountOn(w.day)' = CountOn(w.day) + 1
    BY <1>1, <2>1, <2>6, <2>7
  <2> QED
    BY <2>1, <2>4, <2>5, <2>8
<1>18. Days'
  <2>1. ASSUME NEW v \in withdrawals', v.day = v.number[1] PROVE v.number[2] <= CountOn(v.day)'
    <3>1. CASE v = w
      BY <1>8, <1>11, <1>14, <2>1, <3>1
    <3>2. CASE v # w
      <4>1. v \in withdrawals /\ v.number[2] \in Nat /\ v.number[2] <= CountOn(v.day)
        BY <1>1, <2>1, <3>2 DEF WithdrawalsInv, Days, Withdrawal, Numbers
      <4>2. CountOn(v.day)' \in {CountOn(v.day), CountOn(v.day) + 1}
        BY <1>14
      <4> QED
        BY <1>11, <4>1, <4>2
    <3> QED
      BY <3>1, <3>2
  <2> QED
    BY <1>1, <1>8, <2>1, FS_AddElement DEF WithdrawalsInv, Days
<1>15. ASSUME NEW q \in Requests PROVE AskedFits(q)' /\ NumberFits(q)'
  <2>1. AskedFits(q) /\ NumberFits(q)
    BY DEF WithdrawalsInv
  <2>2. CASE q = r
    <3>1. AskedFits(r)'
      BY <1>1, <1>9, <2>1, <2>2 DEF AskedFits, Labels, Withdrawing, InTransaction, Paying
    <3>2. NumberFits(r)'
      BY <1>1, <1>9, <2>1, <2>2 DEF NumberFits, Withdrawing, InTransaction
    <3> QED
      BY <2>2, <3>1, <3>2
  <2>3. CASE q # r
    <3>1. pc'[q] = pc[q] /\ number'[q] = number[q] /\ started'[q] = started[q]
      BY <1>9, <2>3 DEF Apart
    <3>2. AskedFits(q)'
      BY <1>1, <2>1, <3>1 DEF AskedFits
    <3>3. pc[q] \in {"store", "commit"} => number[q][2] \in 1..CountOn(number[q][1])' + 1
      <4>1. PICK d : d = number[q][1]
        OBVIOUS
      <4>2. PICK m, k : m = CountOn(d) /\ k = CountOn(d)'
        OBVIOUS
      <4>3. m \in Nat /\ k \in {m, m + 1}
        BY <1>11, <1>14, <4>2
      <4>4. pc[q] \in {"store", "commit"} => number[q][2] \in 1..m + 1
        BY <2>1, <4>1, <4>2 DEF NumberFits
      <4>5. CountOn(number[q][1])' = k
        BY <1>1, <3>1, <4>1, <4>2
      <4> QED
        BY <4>3, <4>4, <4>5
    <3>4. pc[q] = "commit" => ~Taken(q)' /\ ~InFlight(q)'
      <4>1. pc[q] = "commit" => number[q] # number[r] /\ ~Taken(q) /\ ~InFlight(q)
        BY <1>1, <2>1, <2>3 DEF NumberFits, InFlight
      <4>2. pc[q] = "commit" => ~Taken(q)'
        BY <1>1, <1>8, <4>1 DEF Taken
      <4>3. pc[q] = "commit" => ~InFlight(q)'
        BY <1>1, <1>9, <4>1 DEF InFlight, Apart
      <4> QED
        BY <4>2, <4>3
    <3>5. NumberFits(q)'
      <4>1. pc'[q] \in {"store", "commit"} => number'[q][2] \in 1..CountOn(number[q][1])' + 1
        BY <3>1, <3>3
      <4>2. pc'[q] = "commit" => ~Taken(q)' /\ ~InFlight(q)'
        BY <3>1, <3>4
      <4> QED
        BY <1>1, <2>1, <3>1, <4>1, <4>2 DEF NumberFits
    <3> QED
      BY <3>2, <3>5
  <2> QED
    BY <2>2, <2>3
<1>16. EveryDebitIsOneWithdrawal'
  <2>1. ASSUME NEW v \in withdrawals'
        PROVE  /\ v.tx \in DOMAIN ledger'[v.user]
               /\ ledger'[v.user][v.tx].mode = "debit"
               /\ ledger'[v.user][v.tx].amount = v.amount
    <3>1. CASE v = w
      BY <1>4, <1>6, <1>7, <1>8, <3>1
    <3>2. CASE v # w
      <4>1. /\ v \in withdrawals /\ v.tx \in DOMAIN ledger[v.user] /\ v.user \in Users
            /\ ledger[v.user][v.tx].mode = "debit"
            /\ ledger[v.user][v.tx].amount = v.amount
        BY <1>1, <2>1, <3>2 DEF WithdrawalsInv, EveryDebitIsOneWithdrawal, Days, Withdrawal
      <4>2. v.tx \in DOMAIN ledger'[v.user] /\ ledger'[v.user][v.tx] = ledger[v.user][v.tx]
        <5>1. PICK z, i : z = v.user /\ i = v.tx
          OBVIOUS
        <5>2. z \in Users /\ i \in DOMAIN ledger[z]
          BY <4>1, <5>1
        <5>3. i \in DOMAIN ledger'[z] /\ ledger'[z][i] = ledger[z][i]
          <6>1. CASE z = u
            BY <1>6, <1>7, <5>2, <6>1
          <6>2. CASE z # u
            BY <1>7, <5>2, <6>2
          <6> QED
            BY <6>1, <6>2
        <5> QED
          BY <5>1, <5>3
      <4> QED
        BY <4>1, <4>2
    <3> QED
      BY <3>1, <3>2
  <2>2. ASSUME NEW v \in Users, NEW i \in DOMAIN ledger'[v], ledger'[v][i].mode = "debit"
        PROVE  Cardinality({x \in withdrawals' : x.user = v /\ x.tx = i}) = 1
    <3>1. CASE v = u /\ i = n
      <4>1. \A x \in withdrawals : x.user = u => x.tx # n
        BY <1>6 DEF WithdrawalsInv, EveryDebitIsOneWithdrawal
      <4>2. {x \in withdrawals' : x.user = v /\ x.tx = i} = {w}
        BY <1>1, <1>8, <3>1, <4>1
      <4> QED
        BY <4>2, FS_Singleton
    <3>2. CASE ~(v = u /\ i = n)
      <4>1. i \in DOMAIN ledger[v] /\ ledger[v][i].mode = "debit"
        BY <1>6, <1>7, <2>2, <3>2
      <4>2. Cardinality({x \in withdrawals : x.user = v /\ x.tx = i}) = 1
        BY <4>1 DEF WithdrawalsInv, EveryDebitIsOneWithdrawal
      <4>3. {x \in withdrawals' : x.user = v /\ x.tx = i} = {x \in withdrawals : x.user = v /\ x.tx = i}
        BY <1>1, <1>8, <3>2
      <4> QED
        BY <4>2, <4>3
    <3> QED
      BY <3>1, <3>2
  <2> QED
    BY <2>1, <2>2 DEF EveryDebitIsOneWithdrawal
<1>17. OnlyMidnightLeavesGaps'
  <2>1. ASSUME NEW d \in 1..LastDay, \A x \in withdrawals' : x.day = d => x.number[1] = d
        PROVE  {x.number[2] : x \in NumberedOn(d)'} = 1..Cardinality(NumberedOn(d))'
    <3>0. \A x \in withdrawals : x.day = d => x.number[1] = d
      BY <1>1, <2>1
    <3>1. {x.number[2] : x \in NumberedOn(d)} = 1..Cardinality(NumberedOn(d))
      BY <3>0 DEF WithdrawalsInv, OnlyMidnightLeavesGaps, NumberedOn
    <3>2. CASE d # w.number[1]
      BY <1>12, <1>14, <3>1, <3>2
    <3>3. CASE d = w.number[1]
      <4>1. PICK m \in Nat : m = Cardinality(NumberedOn(d))
        BY <1>11
      <4>2. CountOn(d) \in Nat /\ CountOn(d) <= m
        <5>1. CreatedOn(d) \subseteq NumberedOn(d)
          BY <3>0 DEF CreatedOn, NumberedOn
        <5> QED
          BY <1>11, <1>13, <4>1, <5>1, FS_Subset
      <4>3. w.number[2] \notin 1..m
        <5>1. \A v \in NumberedOn(d) : v.number[2] # w.number[2]
          BY <1>8, <3>3 DEF NumberedOn
        <5> QED
          BY <3>1, <4>1, <5>1
      <4>4. w.number[2] \in 1..CountOn(d) + 1
        BY <1>8, <3>3
      <4>5. Cardinality(NumberedOn(d))' = m + 1 /\ w.number[2] = m + 1
        <5>1. w.number[2] = m + 1
          BY <4>1, <4>2, <4>3, <4>4
        <5> QED
          BY <1>14, <3>3, <4>1, <5>1
      <4>6. {x.number[2] : x \in NumberedOn(d) \cup {w}} = {x.number[2] : x \in NumberedOn(d)} \cup {m + 1}
        BY <4>5
      <4>7. 1..(m + 1) = (1..m) \cup {m + 1}
        BY <4>1
      <4>8. NumberedOn(d)' = NumberedOn(d) \cup {w}
        BY <1>12, <3>3
      <4> QED
        BY <3>1, <4>1, <4>5, <4>6, <4>7, <4>8
    <3> QED
      BY <3>2, <3>3
  <2> QED
    BY <2>1 DEF OnlyMidnightLeavesGaps, NumberedOn
<1> QED
  BY <1>9, <1>10, <1>15, <1>16, <1>17, <1>18 DEF WithdrawalsInv

LEMMA WithdrawalsStepInv == WithdrawalsInv /\ [WithdrawalsNext]_allVars => WithdrawalsInv'
<1> SUFFICES ASSUME WithdrawalsInv, [WithdrawalsNext]_allVars PROVE WithdrawalsInv'
  OBVIOUS
<1>1. CASE UNCHANGED allVars
  <2> USE <1>1 DEF allVars
  <2>1. Books' /\ Days' /\ Locals'
    BY DEF WithdrawalsInv, Books, Days, Locals, CountOn
  <2>2. \A r \in Requests : AskedFits(r)' /\ NumberFits(r)'
    BY DEF WithdrawalsInv, AskedFits, NumberFits, Taken, InFlight, CountOn
  <2>3. EveryDebitIsOneWithdrawal' /\ OnlyMidnightLeavesGaps'
    BY DEF WithdrawalsInv, EveryDebitIsOneWithdrawal, OnlyMidnightLeavesGaps
  <2> QED
    BY <2>1, <2>2, <2>3 DEF WithdrawalsInv
<1>2. CASE Midnight
  BY <1>2, MidnightInv
<1>3. ASSUME NEW r \in Requests, ArriveWithdrawal(r) \/ ArriveFreeze(r) \/ ProceedFreeze(r) \/ AbortWithdrawal(r)
      PROVE  WithdrawalsInv'
  BY <1>3, StartWithdrawalInv, ArriveFreezeInv, ProceedFreezeInv, LoadResultInv DEF ArriveWithdrawal
<1>4. ASSUME NEW r \in Requests, ProceedWithdrawal(r) PROVE WithdrawalsInv'
  BY <1>4, FindCryptoWalletInv, AssertSufficientBalanceInv, DebitWalletInv, ReadDayInv, GenerateInv,
     InsertWithdrawalInv, CommitWithdrawalInv, LoadResultInv DEF ProceedWithdrawal
<1> QED
  BY <1>1, <1>2, <1>3, <1>4 DEF WithdrawalsNext

LEMMA WithdrawalsAlwaysInv == WithdrawalsSpec => []WithdrawalsInv
<1> QED
  BY WithdrawalsInitInv, WithdrawalsStepInv, PTL DEF WithdrawalsSpec

LEMMA WithdrawalsInvTypes == WithdrawalsInv => WithdrawalsTypeOK
<1> SUFFICES ASSUME WithdrawalsInv PROVE WithdrawalsTypeOK
  OBVIOUS
<1>1. /\ pc \in [Requests -> Labels] /\ mem \in [Requests -> Row \cup {NoWallet}]
      /\ dirty \in [Requests -> SUBSET Columns]
  BY DEF WithdrawalsInv, Locals, AskedFits
<1>2. started \in [Requests -> 0..LastDay] /\ number \in [Requests -> Numbers \cup {NoNumber}]
  BY DEF WithdrawalsInv, Locals, NumberFits
<1> QED
  BY <1>1, <1>2 DEF WithdrawalsInv, Books, Days, WithdrawalsTypeOK, Labels

\* A withdrawal that was numbered on the day it was created has one of the numbers up to the
\* count of the day, so that one more is free.
LEMMA CountedNumbersAreFree == WithdrawalsInv => NumbersCountTheDay
<1> SUFFICES ASSUME WithdrawalsInv, NEW d \in 1..LastDay,
                    \A w \in withdrawals : w.number[1] = d => w.day = d,
                    NEW w \in withdrawals, w.number = NextNumber(d)
             PROVE  FALSE
  BY DEF NumbersCountTheDay, OnlyMidnightTakesTheNextNumber, WithdrawalsInv
<1>1. w.number[1] = d /\ w.number[2] = CountOn(d) + 1
  BY DEF NextNumber
<1>2. w.day = d /\ w.number[2] <= CountOn(d)
  BY <1>1 DEF WithdrawalsInv, Days
<1> QED
  BY <1>1, <1>2, CountsAreNatural

\* No withdrawal takes a wallet below zero, however many passed assertSufficientBalance on the
\* same balance.
THEOREM WithdrawalsAreTyped == WithdrawalsSpec => []WithdrawalsTypeOK
<1> QED
  BY WithdrawalsAlwaysInv, WithdrawalsInvTypes, PTL

\* The debit and the withdrawal of create commit together or not at all.
THEOREM WithdrawalsMatchDebits == WithdrawalsSpec => []EveryDebitIsOneWithdrawal
<1> QED
  BY WithdrawalsAlwaysInv, PTL DEF WithdrawalsInv

\* The numbers of a day are 1, 2, ... without gap or repetition unless a withdrawal of the day
\* was numbered on a later one, and the next is free unless one of an earlier day has it.
THEOREM WithdrawalsNumbersCountTheDay == WithdrawalsSpec => []NumbersCountTheDay
<1> QED
  BY WithdrawalsAlwaysInv, CountedNumbersAreFree, PTL
==============================================================================
