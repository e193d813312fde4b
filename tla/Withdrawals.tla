----------------------------- MODULE Withdrawals -----------------------------
(***************************************************************************)
(* WithdrawalsService.create (src/src/withdrawals/withdrawals.service.ts)  *)
(* on top of VirtualWallet: one database transaction debits the virtual    *)
(* wallet and inserts a withdrawal with a number of the form <<day, n>>.   *)
(*                                                                         *)
(* The transaction runs on one connection of the pool, and keeps it to the *)
(* end; finding the crypto wallet, assertSufficientBalance, counting the   *)
(* withdrawals of the day and loading the result each need another one for *)
(* the length of a query.  The pool makes callers wait without a limit.    *)
(* created_at is the start of the transaction (PostgreSQL's now()), the    *)
(* day of the number is read from the clock before the withdrawals of that *)
(* day are counted, which may be after midnight.                           *)
(*                                                                         *)
(* freezeWallet and unfreezeWallet run beside it.  Every user starts with  *)
(* a wallet that was credited Opening.  LastDay bounds the clock.          *)
(***************************************************************************)
EXTENDS VirtualWallet, FiniteSets

CONSTANTS
  PoolSize,  \* connections of the pool (pg: 10)
  Opening,   \* balance every wallet starts with, in cents
  LastDay,   \* days of the run, from 1
  Switches   \* what administrators do meanwhile: "freeze", "unfreeze"

ASSUME WithdrawalAssumption ==
  /\ PoolSize \in Nat \ {0}
  /\ LastDay \in Nat \ {0}
  /\ Opening \in 0..MaxBalance
  /\ \A raw \in RawAmounts : raw > 0  \* CreateWithdrawalDto asks for at least 10
  /\ Switches \subseteq {"freeze", "unfreeze"}

VARIABLES
  today,       \* the clock
  withdrawals, \* committed withdrawals
  started,     \* request -> day its transaction started
  number       \* request -> day and transaction number it generated

withdrawalVars == <<today, withdrawals, started, number>>
allVars == <<wallets, ledger, rowLock, pc, call, mem, dirty, overwritten,
             today, withdrawals, started, number>>

NoNumber == <<0, 0>>

\* Where a request is inside the transaction of create, and after its commit.
InTransaction == {"wallet", "assert", "debit", "number", "count", "store", "commit"}
Withdrawing == InTransaction \cup {"report"}

WithdrawalsInit ==
  /\ wallets = [u \in Users |-> [balance |-> Opening, isFrozen |-> FALSE]]
  /\ ledger = [u \in Users |-> IF Opening = 0 THEN <<>> ELSE
                 <<[mode |-> "credit", amount |-> Opening, ref |-> NoRef,
                    before |-> 0, after |-> Opening]>>]
  /\ rowLock = [u \in Users |-> Nobody]
  /\ pc = [r \in Requests |-> "idle"]
  /\ call = [r \in Requests |-> NoCall]
  /\ mem = [r \in Requests |-> NoWallet]
  /\ dirty = [r \in Requests |-> {}]
  /\ overwritten = {}
  /\ today = 1
  /\ withdrawals = {}
  /\ started = [r \in Requests |-> 0]
  /\ number = [r \in Requests |-> NoNumber]

\* Connections that are taken between two steps: by a query runner that is not
\* released, and by a save() that has begun its own transaction.
Connected == {r \in Requests : pc[r] \in Withdrawing \cup {"update"}}
ConnectionFree == Cardinality(Connected) < PoolSize

\* The number after the committed withdrawals that were created on a day.
CountOn(day) == Cardinality({w \in withdrawals : w.day = day})
NextNumber(day) == <<day, CountOn(day) + 1>>

\* The request is over and its local variables are gone.
Return(r, label) ==
  /\ Goto(r, label)
  /\ call' = [call EXCEPT ![r] = NoCall]
  /\ mem' = [mem EXCEPT ![r] = NoWallet]
  /\ started' = [started EXCEPT ![r] = 0]
  /\ number' = [number EXCEPT ![r] = NoNumber]

\* Rollback and release: nothing of the transaction was published.
RollBack(r) == Return(r, "failed") /\ Unlock(r)

\* The request goes on, with the local variables it has.
Continue(r, label) == Goto(r, label) /\ UNCHANGED <<call, mem, started, number>>

------------------------------------------------------------------------------
\* create, step by step.

StartWithdrawal(r, u, raw) ==
  /\ pc[r] = "idle"
  /\ ConnectionFree
  /\ call' = [call EXCEPT ![r] = [user |-> u, mode |-> "withdraw", raw |-> raw, ref |-> NoRef]]
  /\ started' = [started EXCEPT ![r] = today]
  /\ Goto(r, "wallet")
  /\ UNCHANGED <<wallets, ledger, rowLock, mem, dirty, overwritten, today, withdrawals, number>>

\* walletService.findOne: the crypto wallet of the request, or NotFoundException.
FindCryptoWallet(r) ==
  /\ pc[r] = "wallet"
  /\ ConnectionFree
  /\ \/ Continue(r, "assert") /\ UNCHANGED rowLock
     \/ RollBack(r)
  /\ UNCHANGED <<wallets, ledger, dirty, overwritten, today, withdrawals>>

\* assertSufficientBalance reads the committed row on another connection.
AssertSufficientBalance(r) ==
  LET row == wallets[call[r].user] IN
  /\ pc[r] = "assert"
  /\ ConnectionFree
  /\ \/ /\ ~row.isFrozen /\ row.balance * 10 >= call[r].raw
        /\ Continue(r, "debit")
        /\ UNCHANGED rowLock
     \/ /\ row.isFrozen \/ row.balance * 10 < call[r].raw
        /\ RollBack(r)
  /\ UNCHANGED <<wallets, ledger, dirty, overwritten, today, withdrawals>>

\* Faulty variant: debit is not given the query runner and commits on its own.
DebitInOwnTransaction(r) ==
  LET u == call[r].user IN
  /\ pc[r] = "debit"
  /\ rowLock[u] = Nobody
  /\ Allowed(wallets[u], u, "debit", call[r].raw, NoRef)
  /\ mem' = [mem EXCEPT ![r] = wallets[u]]
  /\ wallets' = [wallets EXCEPT ![u].balance = BalanceAfter("debit", @, call[r].raw)]
  /\ ledger' = [ledger EXCEPT ![u] =
       Append(@, Transaction("debit", call[r].raw, NoRef, wallets[u].balance))]
  /\ Goto(r, "number")
  /\ UNCHANGED <<rowLock, call, dirty, overwritten, withdrawalVars>>

\* Faulty variant: only assertSufficientBalance looks at the balance.
DebitUnchecked(r) ==
  LET u == call[r].user IN
  /\ pc[r] = "debit"
  /\ Lock(r, u)
  /\ mem' = [mem EXCEPT ![r] = wallets[u]]
  /\ Goto(r, "number")
  /\ UNCHANGED <<wallets, ledger, call, dirty, overwritten, withdrawalVars>>

\* debit on the transaction of create: the row stays locked, and its new balance
\* unpublished, until that transaction ends.
DebitWallet(r) ==
  LET u == call[r].user IN
  /\ pc[r] = "debit"
  /\ \/ /\ Allowed(wallets[u], u, "debit", call[r].raw, NoRef)
        /\ Lock(r, u)
        /\ mem' = [mem EXCEPT ![r] = wallets[u]]
        /\ Goto(r, "number")
        /\ UNCHANGED <<call, started, number>>
     \/ /\ rowLock[u] = Nobody
        /\ ~Allowed(wallets[u], u, "debit", call[r].raw, NoRef)
        /\ RollBack(r)
  /\ UNCHANGED <<wallets, ledger, dirty, overwritten, today, withdrawals>>

\* generateTransactionNumber reads the clock, and then waits for a connection and
\* for the count of that day.
ReadDay(r) ==
  /\ pc[r] = "number"
  /\ number' = [number EXCEPT ![r] = <<today, 0>>]
  /\ Goto(r, "count")
  /\ UNCHANGED <<wallets, ledger, rowLock, call, mem, dirty, overwritten,
                 today, withdrawals, started>>

GenerateTransactionNumber(r) ==
  /\ pc[r] = "count"
  /\ ConnectionFree
  /\ number' = [number EXCEPT ![r] = NextNumber(@[1])]
  /\ Goto(r, "store")
  /\ UNCHANGED <<wallets, ledger, rowLock, call, mem, dirty, overwritten,
                 today, withdrawals, started>>

\* The number is in a committed withdrawal, or in one whose transaction is open.
Taken(r) == \E w \in withdrawals : w.number = number[r]
InFlight(r) == \E q \in Requests \ {r} : pc[q] = "commit" /\ number[q] = number[r]

\* Faulty variant: transaction_number has no unique constraint.
InsertAnyNumber(r) ==
  /\ pc[r] = "store"
  /\ Goto(r, "commit")
  /\ UNCHANGED <<wallets, ledger, rowLock, call, mem, dirty, overwritten, withdrawalVars>>

\* Faulty variant: the failed insert neither rolls back nor releases the query runner.
InsertAndForget(r) ==
  /\ pc[r] = "store"
  /\ ~InFlight(r)
  /\ ~Taken(r)
  /\ Goto(r, "commit")
  /\ UNCHANGED <<wallets, ledger, rowLock, call, mem, dirty, overwritten, withdrawalVars>>

\* The INSERT waits for an open transaction that inserted the same number, and
\* fails when that one has committed; then the debit is rolled back too.
InsertWithdrawal(r) ==
  /\ pc[r] = "store"
  /\ ~InFlight(r)
  /\ \/ ~Taken(r) /\ Continue(r, "commit") /\ UNCHANGED rowLock
     \/ Taken(r) /\ RollBack(r)
  /\ UNCHANGED <<wallets, ledger, dirty, overwritten, today, withdrawals>>

Stored(r, tx) ==
  [id |-> r, user |-> call[r].user, amount |-> Normalize(call[r].raw),
   day |-> started[r], number |-> number[r], tx |-> tx]

CommitWithdrawal(r) ==
  LET u == call[r].user IN
  /\ pc[r] = "commit"
  /\ PostTransaction(r, u, "debit", call[r].raw, NoRef)
  /\ withdrawals' = withdrawals \cup {Stored(r, Len(ledger[u]) + 1)}
  /\ Goto(r, "report")
  /\ UNCHANGED <<call, mem, dirty, overwritten, today, started, number>>

\* The result is loaded on another connection before the query runner is released.
LoadResult(r) ==
  /\ pc[r] = "report"
  /\ ConnectionFree
  /\ Return(r, "done")
  /\ UNCHANGED <<wallets, ledger, rowLock, dirty, overwritten, today, withdrawals>>

\* A lost connection or a crash.  Before the commit it undoes everything, after it
\* the caller only sees an error.
AbortWithdrawal(r) ==
  /\ pc[r] \in Withdrawing
  /\ RollBack(r)
  /\ UNCHANGED <<wallets, ledger, dirty, overwritten, today, withdrawals>>

------------------------------------------------------------------------------
Midnight ==
  /\ today < LastDay
  /\ today' = today + 1
  /\ UNCHANGED <<walletVars, withdrawals, started, number>>

\* freezeWallet and unfreezeWallet wait for a connection like everyone else; save()
\* keeps the one it reloaded the row on.
ProceedFreeze(r) ==
  /\ \/ ConnectionFree /\ ReloadForSave(r)
     \/ UpdateColumns(r)
  /\ UNCHANGED withdrawalVars

ArriveFreeze(r) ==
  /\ ConnectionFree
  /\ \E u \in Users, mode \in Switches : ReadWallet(r, u, mode)
  /\ UNCHANGED withdrawalVars

ProceedWithdrawal(r) ==
  \/ FindCryptoWallet(r)
  \/ AssertSufficientBalance(r)
  \/ DebitWallet(r)
  \/ ReadDay(r)
  \/ GenerateTransactionNumber(r)
  \/ InsertWithdrawal(r)
  \/ CommitWithdrawal(r)
  \/ LoadResult(r)

ArriveWithdrawal(r) == \E u \in Users, raw \in RawAmounts : StartWithdrawal(r, u, raw)

WithdrawalsNext ==
  \/ \E r \in Requests :
       \/ ArriveWithdrawal(r)
       \/ ArriveFreeze(r)
       \/ ProceedWithdrawal(r)
       \/ ProceedFreeze(r)
       \/ AbortWithdrawal(r)
  \/ Midnight

WithdrawalsSpec == WithdrawalsInit /\ [][WithdrawalsNext]_allVars

\* A request that can take its next step again and again takes it: the pool and the
\* row locks serve their waiters in turn.
FairWithdrawalsSpec ==
  /\ WithdrawalsSpec
  /\ \A r \in Requests : SF_allVars(ProceedWithdrawal(r) \/ ProceedFreeze(r))
------------------------------------------------------------------------------
\* Properties.

Numbers == (1..LastDay) \X Nat

Withdrawal ==
  [id : Requests, user : Users, amount : Nat, day : 1..LastDay, number : Numbers, tx : Nat]

\* However many withdrawals passed assertSufficientBalance on the same balance, none
\* of them takes a wallet below zero (rows and ledger stay within 0..MaxBalance).
WithdrawalsTypeOK ==
  /\ wallets \in [Users -> Row]
  /\ ledger \in [Users -> Seq(Entry)]
  /\ rowLock \in [Users -> Requests \cup {Nobody}]
  /\ pc \in [Requests -> {"idle", "reload", "update"} \cup Withdrawing \cup Ended]
  /\ mem \in [Requests -> Row \cup {NoWallet}]
  /\ dirty \in [Requests -> SUBSET Columns]
  /\ today \in 1..LastDay
  /\ withdrawals \subseteq Withdrawal
  /\ started \in [Requests -> 0..LastDay]
  /\ number \in [Requests -> Numbers \cup {NoNumber}]

\* The debit and the withdrawal commit together or not at all: every stored
\* withdrawal points at a debit of its user and amount, and every debit is pointed
\* at by exactly one withdrawal, through aborts, number collisions and freezes.
EveryDebitIsOneWithdrawal ==
  /\ \A w \in withdrawals :
       /\ w.tx \in DOMAIN ledger[w.user]
       /\ ledger[w.user][w.tx].mode = "debit"
       /\ ledger[w.user][w.tx].amount = w.amount
  /\ \A u \in Users : \A i \in DOMAIN ledger[u] :
       ledger[u][i].mode = "debit" =>
         Cardinality({w \in withdrawals : w.user = u /\ w.tx = i}) = 1

\* The numbers of a day are 1, 2, ... without gap or repetition, although the count
\* they come from does not see the open transactions.  Only a withdrawal of the day
\* that was numbered on a later one leaves a gap: it is counted for the day's next
\* number and has none of the day's own.
OnlyMidnightLeavesGaps ==
  \A d \in 1..LastDay :
    LET ofDay == {w \in withdrawals : w.number[1] = d} IN
    (\A w \in withdrawals : w.day = d => w.number[1] = d) =>
      {w.number[2] : w \in ofDay} = 1..Cardinality(ofDay)

\* generateTransactionNumber "generates unique transaction number": no committed
\* withdrawal has the number the next create would be given.  A transaction that is
\* open over midnight breaks it for the rest of the day.
NextNumberIsFree == \A w \in withdrawals : w.number # NextNumber(today)

\* The number that is next on a day, for a create of that day and for one that read
\* the clock before midnight and counts after it, is free: only a withdrawal with a
\* number of the day that was created on an earlier one can have it.
OnlyMidnightTakesTheNextNumber ==
  \A d \in 1..LastDay :
    (\A w \in withdrawals : w.number[1] = d => w.day = d) =>
      \A w \in withdrawals : w.number # NextNumber(d)

\* Both: the numbers of a day are given in order and are free when they are given,
\* and only transactions that are open over midnight spoil the one or the other.
NumbersCountTheDay == OnlyMidnightLeavesGaps /\ OnlyMidnightTakesTheNextNumber

\* Places of create that need a second connection.
NeedsAnother == {"wallet", "assert", "count", "report"}

\* Nothing but the pool can hang a request: either every request ends, or in the end
\* all connections are taken and a create among their holders waits for one more.
OnlyPoolExhaustionHangs ==
  \/ \A r \in Requests :
       pc[r] \in Withdrawing \cup {"reload", "update"} ~> pc[r] \in Ended
  \/ <>[](~ConnectionFree /\ \E r \in Connected : pc[r] \in NeedsAnother)
==============================================================================
