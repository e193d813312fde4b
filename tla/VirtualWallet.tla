---------------------------- MODULE VirtualWallet ----------------------------
(***************************************************************************)
(* VirtualWalletService (src/src/virtual-wallet/virtual-wallet.service.ts):*)
(* one row per user holding a balance and a freeze flag, and a book of     *)
(* transactions with the balance before and after each.                    *)
(*                                                                         *)
(* Requests run concurrently.  credit and debit are one database           *)
(* transaction that locks the wallet row with SELECT ... FOR UPDATE from   *)
(* the first read to the commit.  freezeWallet and unfreezeWallet take no  *)
(* lock: they read the row, change the flag in memory and save the whole   *)
(* entity, and TypeORM's save writes every column that differs from the    *)
(* row it reloads, the balance included.  Each request is served once, so  *)
(* the number of Requests bounds the run.                                  *)
(*                                                                         *)
(* Money is in cents; the amounts callers pass are in tenths of a cent, so *)
(* that normalizeAmount has something to round.                            *)
(***************************************************************************)
EXTENDS Integers, Sequences

CONSTANTS
  Users,       \* virtual_wallets.user_id, unique
  Requests,    \* calls of the service
  RawAmounts,  \* options.amount of credit and debit, in tenths of a cent
  Refs,        \* options.referenceId
  NoRef,       \* referenceId: null
  NoWallet,    \* there is no virtual_wallets row
  NoCall,      \* a request that has not arrived
  Nobody,      \* holder of a row lock that is free
  MaxBalance   \* largest decimal(12, 2), in cents

Row == [balance : 0..MaxBalance, isFrozen : BOOLEAN]

ASSUME WalletAssumption ==
  /\ RawAmounts \subseteq Int
  /\ MaxBalance \in Nat
  /\ NoRef \notin Refs
  /\ NoWallet \notin Row
  /\ Nobody \notin Requests

VARIABLES
  wallets,     \* user -> committed row, or NoWallet
  ledger,      \* user -> committed virtual_wallet_transactions, oldest first
  rowLock,     \* user -> request whose transaction holds the row (or its unique key)
  pc,          \* request -> where it is in the code
  call,        \* request -> what it was asked
  mem,         \* request -> the wallet entity it holds in memory
  dirty,       \* request -> columns its save() found to differ
  overwritten  \* users whose balance a save() of an old entity has replaced (history)

walletVars == <<wallets, ledger, rowLock, pc, call, mem, dirty, overwritten>>

Modes == {"credit", "debit"}
Columns == {"balance", "isFrozen"}
Active == {"insert", "adjust", "create", "reload", "update"}
Ended == {"done", "failed"}

------------------------------------------------------------------------------
\* Pure parts.

\* normalizeAmount: Math.round to whole cents, halves up.
Normalize(raw) == (raw + 5) \div 10

FreshWallet == [balance |-> 0, isFrozen |-> FALSE]

BalanceAfter(mode, before, raw) ==
  IF mode = "credit" THEN before + Normalize(raw) ELSE before - Normalize(raw)

Transaction(mode, raw, ref, before) ==
  [mode |-> mode, amount |-> Normalize(raw), ref |-> ref,
   before |-> before, after |-> BalanceAfter(mode, before, raw)]

\* Faulty variant: the reference is never looked up.
NeverProcessed(u, mode, ref) == FALSE

\* An earlier transaction of this wallet and type with the same reference.
AlreadyProcessed(u, mode, ref) ==
  /\ ref # NoRef
  /\ \E i \in DOMAIN ledger[u] : ledger[u][i].mode = mode /\ ledger[u][i].ref = ref

\* Faulty variant: a debit may exceed the balance.
AllowedOverdraft(row, u, mode, raw, ref) ==
  /\ ~row.isFrozen
  /\ ~AlreadyProcessed(u, mode, ref)

\* What adjustBalance requires of the row it has locked.
Allowed(row, u, mode, raw, ref) ==
  /\ ~row.isFrozen
  /\ ~AlreadyProcessed(u, mode, ref)
  /\ BalanceAfter(mode, row.balance, raw) \in 0..MaxBalance

------------------------------------------------------------------------------
WalletInit ==
  /\ wallets = [u \in Users |-> NoWallet]
  /\ ledger = [u \in Users |-> <<>>]
  /\ rowLock = [u \in Users |-> Nobody]
  /\ pc = [r \in Requests |-> "idle"]
  /\ call = [r \in Requests |-> NoCall]
  /\ mem = [r \in Requests |-> NoWallet]
  /\ dirty = [r \in Requests |-> {}]
  /\ overwritten = {}

Goto(r, label) == pc' = [pc EXCEPT ![r] = label]

\* The row lock a transaction takes with FOR UPDATE; it waits for the holder.
Lock(r, u) ==
  /\ rowLock[u] = Nobody
  /\ rowLock' = [rowLock EXCEPT ![u] = r]

\* Faulty variant: the query runner is not rolled back or released.
UnlockForgotten(r) == UNCHANGED rowLock

\* Commit and rollback release what the transaction locked.
Unlock(r) == rowLock' = [u \in Users |-> IF rowLock[u] = r THEN Nobody ELSE rowLock[u]]

\* Faulty variant: findOne without a lock, which waits for nobody.
FindUnlocked(r, u, found, absent) ==
  /\ mem' = [mem EXCEPT ![r] = wallets[u]]
  /\ Goto(r, IF wallets[u] # NoWallet THEN found ELSE absent)
  /\ UNCHANGED rowLock

\* adjustBalance up to the first read: findOne with a pessimistic_write lock.
\* A row that does not exist locks nothing.
FindForUpdate(r, u, found, absent) ==
  \/ /\ wallets[u] # NoWallet
     /\ Lock(r, u)
     /\ mem' = [mem EXCEPT ![r] = wallets[u]]
     /\ Goto(r, found)
  \/ /\ wallets[u] = NoWallet
     /\ Goto(r, absent)
     /\ UNCHANGED <<rowLock, mem>>

\* Inside the transaction: INSERT the missing row.  The unique user_id makes it
\* wait for an uncommitted insert of the same user and fail after a committed one.
InsertWallet(r, u, next) ==
  /\ wallets[u] = NoWallet
  /\ Lock(r, u)
  /\ mem' = [mem EXCEPT ![r] = FreshWallet]
  /\ Goto(r, next)

\* Publish the locked row with its new balance, and the transaction.
PostTransaction(r, u, mode, raw, ref) ==
  /\ wallets' = [wallets EXCEPT ![u] =
       [mem[r] EXCEPT !.balance = BalanceAfter(mode, @, raw)]]
  /\ ledger' = [ledger EXCEPT ![u] =
       Append(@, Transaction(mode, raw, ref, mem[r].balance))]
  /\ Unlock(r)

------------------------------------------------------------------------------
\* credit and debit, with a transaction of their own.

BeginAdjust(r, u, mode, raw, ref) ==
  /\ pc[r] = "idle"
  /\ call' = [call EXCEPT ![r] = [user |-> u, mode |-> mode, raw |-> raw, ref |-> ref]]
  /\ \/ /\ raw <= 0                                  \* BadRequestException
        /\ Goto(r, "failed")
        /\ UNCHANGED <<rowLock, mem>>
     \/ /\ raw > 0
        /\ FindForUpdate(r, u, "adjust", "insert")
  /\ UNCHANGED <<wallets, ledger, dirty, overwritten>>

InsertOnAdjust(r) ==
  /\ pc[r] = "insert"
  /\ \/ InsertWallet(r, call[r].user, "adjust")
     \/ /\ wallets[call[r].user] # NoWallet          \* unique violation, rolled back
        /\ Goto(r, "failed")
        /\ UNCHANGED <<rowLock, mem>>
  /\ UNCHANGED <<wallets, ledger, call, dirty, overwritten>>

\* The checks under the lock, then both writes and the commit, or the rollback.
AdjustBalance(r) ==
  LET c == call[r] IN
  /\ pc[r] = "adjust"
  /\ \/ /\ Allowed(mem[r], c.user, c.mode, c.raw, c.ref)
        /\ PostTransaction(r, c.user, c.mode, c.raw, c.ref)
        /\ Goto(r, "done")
     \/ /\ ~Allowed(mem[r], c.user, c.mode, c.raw, c.ref)
        /\ Unlock(r)
        /\ Goto(r, "failed")
        /\ UNCHANGED <<wallets, ledger>>
  /\ UNCHANGED <<call, mem, dirty, overwritten>>

------------------------------------------------------------------------------
\* getOrCreateWallet, freezeWallet and unfreezeWallet: no transaction spans them.

\* The flag an operation sets; opening a wallet sets none.
Flagged(row, mode) ==
  IF mode = "open" THEN row ELSE [row EXCEPT !.isFrozen = (mode = "freeze")]

\* The entity is in memory: open returns it, the others save it changed.
Holding(r, row, mode) ==
  /\ mem' = [mem EXCEPT ![r] = Flagged(row, mode)]
  /\ Goto(r, IF mode = "open" THEN "done" ELSE "reload")

ReadWallet(r, u, mode) ==
  /\ pc[r] = "idle"
  /\ call' = [call EXCEPT ![r] = [user |-> u, mode |-> mode, raw |-> 0, ref |-> NoRef]]
  /\ \/ /\ wallets[u] # NoWallet
        /\ Holding(r, wallets[u], mode)
     \/ /\ wallets[u] = NoWallet
        /\ Goto(r, IF mode = "unfreeze" THEN "failed" ELSE "create")
        /\ UNCHANGED mem
  /\ UNCHANGED <<wallets, ledger, rowLock, dirty, overwritten>>

\* save() of a new entity: its own INSERT, committed at once.
CreateWallet(r) ==
  LET u == call[r].user IN
  /\ pc[r] = "create"
  /\ \/ /\ wallets[u] = NoWallet
        /\ rowLock[u] = Nobody
        /\ wallets' = [wallets EXCEPT ![u] = FreshWallet]
        /\ Holding(r, FreshWallet, call[r].mode)
     \/ /\ wallets[u] # NoWallet                     \* unique violation
        /\ Goto(r, "failed")
        /\ UNCHANGED <<wallets, mem>>
  /\ UNCHANGED <<ledger, rowLock, call, dirty, overwritten>>

Differing(entity, row) ==
  {c \in Columns : \/ c = "balance" /\ entity.balance # row.balance
                   \/ c = "isFrozen" /\ entity.isFrozen # row.isFrozen}

\* The row after an UPDATE of those columns.
Merged(entity, row, columns) ==
  [balance |-> IF "balance" \in columns THEN entity.balance ELSE row.balance,
   isFrozen |-> IF "isFrozen" \in columns THEN entity.isFrozen ELSE row.isFrozen]

\* save() reloads the row, unlocked, and keeps the columns that differ.
ReloadForSave(r) ==
  LET columns == Differing(mem[r], wallets[call[r].user]) IN
  /\ pc[r] = "reload"
  /\ dirty' = [dirty EXCEPT ![r] = columns]
  /\ Goto(r, IF columns = {} THEN "done" ELSE "update")
  /\ UNCHANGED <<wallets, ledger, rowLock, call, mem, overwritten>>

\* Faulty variant: the UPDATE does not respect the row lock.
UpdateUnlocked(r) ==
  LET u == call[r].user IN
  /\ pc[r] = "update"
  /\ wallets' = [wallets EXCEPT ![u] = Merged(mem[r], @, dirty[r])]
  /\ overwritten' = IF "balance" \in dirty[r] THEN overwritten \cup {u} ELSE overwritten
  /\ Goto(r, "done")
  /\ UNCHANGED <<ledger, rowLock, call, mem, dirty>>

\* The UPDATE of those columns waits for whoever has locked the row.
UpdateColumns(r) ==
  LET u == call[r].user IN
  /\ pc[r] = "update"
  /\ rowLock[u] = Nobody
  /\ wallets' = [wallets EXCEPT ![u] = Merged(mem[r], @, dirty[r])]
  /\ overwritten' = IF "balance" \in dirty[r] THEN overwritten \cup {u} ELSE overwritten
  /\ Goto(r, "done")
  /\ UNCHANGED <<ledger, rowLock, call, mem, dirty>>

------------------------------------------------------------------------------
\* The connection is lost or the process dies: PostgreSQL rolls back.
Abort(r) ==
  /\ pc[r] \in Active
  /\ Goto(r, "failed")
  /\ Unlock(r)
  /\ UNCHANGED <<wallets, ledger, call, mem, dirty, overwritten>>

Proceed(r) ==
  \/ InsertOnAdjust(r)
  \/ AdjustBalance(r)
  \/ CreateWallet(r)
  \/ ReloadForSave(r)
  \/ UpdateColumns(r)

Arrive(r) ==
  \E u \in Users :
    \/ \E mode \in Modes, raw \in RawAmounts, ref \in Refs \cup {NoRef} :
         BeginAdjust(r, u, mode, raw, ref)
    \/ \E mode \in {"open", "freeze", "unfreeze"} : ReadWallet(r, u, mode)

WalletNext == \E r \in Requests : Arrive(r) \/ Proceed(r) \/ Abort(r)

Fairness == \A r \in Requests : SF_walletVars(Proceed(r))

WalletSpec == WalletInit /\ [][WalletNext]_walletVars
FairWalletSpec == WalletSpec /\ Fairness
------------------------------------------------------------------------------
\* Properties.

Call ==
  [user : Users, mode : Modes \cup {"open", "freeze", "unfreeze"},
   raw : RawAmounts \cup {0}, ref : Refs \cup {NoRef}]

Entry ==
  [mode : Modes, amount : Nat, ref : Refs \cup {NoRef},
   before : 0..MaxBalance, after : 0..MaxBalance]

\* Every balance, stored, booked or held in memory, fits decimal(12, 2) and is not
\* negative, whatever order adjustBalance, freezeWallet and unfreezeWallet run in.
TypeOK ==
  /\ wallets \in [Users -> Row \cup {NoWallet}]
  /\ ledger \in [Users -> Seq(Entry)]
  /\ rowLock \in [Users -> Requests \cup {Nobody}]
  /\ pc \in [Requests -> {"idle"} \cup Active \cup Ended]
  /\ call \in [Requests -> Call \cup {NoCall}]
  /\ mem \in [Requests -> Row \cup {NoWallet}]
  /\ dirty \in [Requests -> SUBSET Columns]
  /\ overwritten \subseteq Users

Balance(u) == IF wallets[u] = NoWallet THEN 0 ELSE wallets[u].balance
Frozen(u) == IF wallets[u] = NoWallet THEN FALSE ELSE wallets[u].isFrozen

\* The balance before the i-th transaction, according to the one before it.
Carried(u, i) == IF i = 1 THEN 0 ELSE ledger[u][i - 1].after

\* The transactions of a wallet explain its balance: each starts from what the one
\* before it left, and the last one left the stored balance.  It holds of every
\* wallet whose balance no save() of an old entity (freezeWallet, unfreezeWallet)
\* has replaced, however many adjustBalance calls raced.
LedgerExplainsBalance ==
  \A u \in Users \ overwritten :
    /\ \A i \in DOMAIN ledger[u] : ledger[u][i].before = Carried(u, i)
    /\ Balance(u) = Carried(u, Len(ledger[u]) + 1)

\* A reference is processed at most once per wallet and type, so a repeated refund
\* is refused even when both calls run at once; the unique index never has to act.
OneEntryPerReference ==
  \A u \in Users : \A i, j \in DOMAIN ledger[u] :
    /\ ledger[u][i].ref # NoRef
    /\ ledger[u][i].ref = ledger[u][j].ref
    /\ ledger[u][i].mode = ledger[u][j].mode
    => i = j

\* No transaction of a wallet commits while its committed row is frozen, although
\* adjustBalance tests the flag long before it commits.
NoPostingWhileFrozen ==
  [][\A u \in Users : Frozen(u) => ledger'[u] = ledger[u]]_walletVars

\* The service implements one account per user whose postings are atomic: the rows,
\* locks and requests are its implementation.
Account ==
  INSTANCE Accounts WITH
    Amounts <- {Normalize(raw) : raw \in {x \in RawAmounts : x > 0}},
    balance <- [u \in Users |-> Balance(u)],
    frozen <- [u \in Users |-> Frozen(u)],
    book <- ledger

ImplementsAccounts == Account!Spec

\* Every request that arrives ends: no transaction of adjustBalance leaves a row
\* locked that another request waits for, on the error paths either.
RequestsEnd == \A r \in Requests : pc[r] \in Active ~> pc[r] \in Ended
==============================================================================
