----------------------------- MODULE Membership -----------------------------
(***************************************************************************)
(* Membership of one marathon: PaymentService.processMarathonJoin with the *)
(* account it assigns afterwards, MarathonService.cancelParticipation, and *)
(* MetaTraderAccountService.assignToParticipant called by an administrator.*)
(*                                                                         *)
(* Workers serve the calls concurrently.  A join is one transaction that   *)
(* reads the marathon without a lock, locks the participant if there is    *)
(* one, and writes currentPlayers + 1.  A cancellation locks participant   *)
(* and marathon.  The account is assigned after the join has committed, in *)
(* a transaction of its own whose errors are swallowed.                    *)
(*                                                                         *)
(* Each worker serves one call, so the number of Workers bounds the run.   *)
(***************************************************************************)
EXTENDS Integers, FiniteSets

CONSTANTS
  Users,      \* users who join and cancel
  Workers,    \* calls being served
  Rows,       \* ids of marathon_participants; one per worker is enough
  Accounts,   \* MetaTrader accounts
  MaxPlayers, \* marathon.maxPlayers
  NoUser,     \* a worker that has no call
  NoRow,      \* no participant
  NoAccount,  \* no MetaTrader account
  Nobody      \* holder of a lock that is free

Participant == [user : Users, isActive : BOOLEAN, account : Accounts \cup {NoAccount}]

ASSUME MembershipAssumption ==
  /\ MaxPlayers \in Nat \ {0}
  /\ IsFiniteSet(Rows)
  /\ NoUser \notin Users
  /\ NoRow \notin Rows \cup Participant
  /\ NoAccount \notin Accounts
  /\ Nobody \notin Workers

VARIABLES
  participants, \* row id -> committed participant, or NoRow
  accounts,     \* account -> its marathonParticipantId, or NoRow
  players,      \* marathon.currentPlayers
  started,      \* startDate has passed
  refunds,      \* user -> refunds credited to the virtual wallet
  rowLock,      \* row id -> worker whose transaction has locked it
  marathonLock, \* worker whose transaction has locked the marathon
  pc,           \* worker -> where it is in the code
  caller,       \* worker -> user it works for
  found,        \* worker -> row it works on
  seen,         \* worker -> currentPlayers of the marathon it has read
  picked,       \* worker -> account it is about to assign
  joins,        \* user -> joins committed (history)
  lost,         \* a write of currentPlayers has overwritten another one (history)
  doubled       \* users two of whose open joins found no participant (history)

data == <<participants, accounts, players, refunds>>
locks == <<rowLock, marathonLock>>
local == <<caller, found, seen, picked>>
history == <<joins, lost, doubled>>
membershipVars == <<data, started, locks, pc, local, history>>

RowsOf(u) == {r \in Rows : participants[r] # NoRow /\ participants[r].user = u}
ActiveRows == {r \in Rows : participants[r] # NoRow /\ participants[r].isActive}

\* A row id that is in no table and in no open transaction.
Fresh == {r \in Rows : participants[r] = NoRow /\ \A w \in Workers : found[w] # r}

------------------------------------------------------------------------------
MembershipInit ==
  /\ participants = [r \in Rows |-> NoRow]
  /\ accounts = [a \in Accounts |-> NoRow]
  /\ players = 0
  /\ started = FALSE
  /\ refunds = [u \in Users |-> 0]
  /\ rowLock = [r \in Rows |-> Nobody]
  /\ marathonLock = Nobody
  /\ pc = [w \in Workers |-> "idle"]
  /\ caller = [w \in Workers |-> NoUser]
  /\ found = [w \in Workers |-> NoRow]
  /\ seen = [w \in Workers |-> 0]
  /\ picked = [w \in Workers |-> NoAccount]
  /\ joins = [u \in Users |-> 0]
  /\ lost = FALSE
  /\ doubled = {}

Goto(w, label) == pc' = [pc EXCEPT ![w] = label]

\* The call is over; what it held in memory is gone.
Return(w, label) ==
  /\ Goto(w, label)
  /\ caller' = [caller EXCEPT ![w] = NoUser]
  /\ found' = [found EXCEPT ![w] = NoRow]
  /\ seen' = [seen EXCEPT ![w] = 0]
  /\ picked' = [picked EXCEPT ![w] = NoAccount]

\* Commit and rollback release the locks of the transaction.
Unlock(w) ==
  /\ rowLock' = [r \in Rows |-> IF rowLock[r] = w THEN Nobody ELSE rowLock[r]]
  /\ marathonLock' = IF marathonLock = w THEN Nobody ELSE marathonLock

\* Faulty variant: an error returns without ending the transaction.
RollBackForgotten(w, label) == Return(w, label) /\ UNCHANGED <<data, started, locks, history>>

RollBack(w, label) == Return(w, label) /\ Unlock(w) /\ UNCHANGED <<data, started, history>>

------------------------------------------------------------------------------
\* processMarathonJoin.

BeginJoin(w, u) ==
  /\ pc[w] = "idle"
  /\ caller' = [caller EXCEPT ![w] = u]
  /\ Goto(w, "join")
  /\ UNCHANGED <<data, started, locks, found, seen, picked, history>>

\* The marathon is read without a lock, and the capacity checked on what was read.
ReadMarathon(w) ==
  /\ pc[w] = "join"
  /\ \/ /\ players < MaxPlayers
        /\ seen' = [seen EXCEPT ![w] = players]
        /\ Goto(w, "enrol")
        /\ UNCHANGED <<data, started, locks, caller, found, picked, history>>
     \/ /\ players >= MaxPlayers
        /\ RollBack(w, "joinFailed")

\* Open joins of the user that found no participant and will insert one.
Inserting(u) ==
  {w \in Workers : pc[w] = "book" /\ caller[w] = u /\ participants[found[w]] = NoRow}

\* Faulty variant: a cancelled participant is not looked for.
FindActiveOnly(w) ==
  LET u == caller[w] IN
  /\ pc[w] = "enrol"
  /\ \/ /\ RowsOf(u) \cap ActiveRows # {}
        /\ RollBack(w, "joinFailed")
     \/ /\ RowsOf(u) \cap ActiveRows = {}
        /\ Fresh # {}
        /\ found' = [found EXCEPT ![w] = CHOOSE r \in Fresh : TRUE]
        /\ Goto(w, "book")
        /\ doubled' = IF Inserting(u) # {} THEN doubled \cup {u} ELSE doubled
        /\ UNCHANGED <<data, started, locks, caller, seen, picked, joins, lost>>

\* Any participant of the user, locked, and refused if active; or a new one, which
\* locks nothing another transaction could wait for.
FindParticipant(w) ==
  LET u == caller[w] IN
  /\ pc[w] = "enrol"
  /\ \/ \E r \in RowsOf(u) :
          /\ rowLock[r] = Nobody
          /\ ~participants[r].isActive
          /\ rowLock' = [rowLock EXCEPT ![r] = w]
          /\ found' = [found EXCEPT ![w] = r]
          /\ Goto(w, "book")
          /\ UNCHANGED <<data, started, marathonLock, caller, seen, picked, history>>
     \/ /\ \E r \in RowsOf(u) : rowLock[r] = Nobody /\ participants[r].isActive
        /\ RollBack(w, "joinFailed")
     \/ /\ RowsOf(u) = {}
        /\ Fresh # {}
        /\ found' = [found EXCEPT ![w] = CHOOSE r \in Fresh : TRUE]
        /\ Goto(w, "book")
        /\ doubled' = IF Inserting(u) # {} THEN doubled \cup {u} ELSE doubled
        /\ UNCHANGED <<data, started, locks, caller, seen, picked, joins, lost>>

\* Reactivated, with the account it had, or inserted.
Enrolled(w) ==
  IF participants[found[w]] = NoRow
  THEN [user |-> caller[w], isActive |-> TRUE, account |-> NoAccount]
  ELSE [participants[found[w]] EXCEPT !.isActive = TRUE]

\* Faulty variant: currentPlayers is incremented in the database, whatever was read.
CommitJoinIncrement(w) ==
  /\ pc[w] = "book"
  /\ marathonLock = Nobody
  /\ participants' = [participants EXCEPT ![found[w]] = Enrolled(w)]
  /\ players' = players + 1
  /\ joins' = [joins EXCEPT ![caller[w]] = @ + 1]
  /\ Unlock(w)
  /\ Goto(w, "assign")
  /\ UNCHANGED <<accounts, refunds, started, local, lost, doubled>>

\* Both saves and the commit; the UPDATE of the marathon waits for its lock.
CommitJoin(w) ==
  /\ pc[w] = "book"
  /\ marathonLock = Nobody
  /\ participants' = [participants EXCEPT ![found[w]] = Enrolled(w)]
  /\ players' = seen[w] + 1
  /\ joins' = [joins EXCEPT ![caller[w]] = @ + 1]
  /\ lost' = (lost \/ players # seen[w])
  /\ Unlock(w)
  /\ Goto(w, "assign")
  /\ UNCHANGED <<accounts, refunds, started, local, doubled>>

\* findAvailable asks for marathonParticipantId null, which TypeORM leaves out of
\* the query: the first of all accounts, in no particular order.
FindAvailable(w) ==
  /\ pc[w] = "assign"
  /\ \/ /\ Accounts = {}
        /\ Return(w, "done")
     \/ \E a \in Accounts :
          /\ picked' = [picked EXCEPT ![w] = a]
          /\ Goto(w, "attach")
          /\ UNCHANGED <<caller, found, seen>>
  /\ UNCHANGED <<data, started, locks, history>>

\* Faulty variant: an account that is taken may be assigned.
MayAssignTwice(a, r) == participants[r].account = NoAccount

\* assignToParticipant locks both rows before it looks at them.
MayAssign(a, r) == accounts[a] = NoRow /\ participants[r].account = NoAccount

\* assignToParticipant commits both sides of the link.
Link(a, r) ==
  /\ accounts' = [accounts EXCEPT ![a] = r]
  /\ participants' = [participants EXCEPT ![r].account = a]

\* Conflicts are logged and swallowed.
AssignAccount(w) ==
  LET a == picked[w] r == found[w] IN
  /\ pc[w] = "attach"
  /\ rowLock[r] = Nobody
  /\ \/ MayAssign(a, r) /\ Link(a, r)
     \/ ~MayAssign(a, r) /\ UNCHANGED <<accounts, participants>>
  /\ Return(w, "done")
  /\ UNCHANGED <<players, refunds, started, locks, history>>

------------------------------------------------------------------------------
\* cancelParticipation.

\* Faulty variant: the participant is read without a lock.
CancelUnlocked(w, u) ==
  /\ pc[w] = "idle"
  /\ \E r \in RowsOf(u) :
       /\ participants[r].isActive
       /\ ~started
       /\ found' = [found EXCEPT ![w] = r]
       /\ seen' = [seen EXCEPT ![w] = players]
       /\ caller' = [caller EXCEPT ![w] = u]
       /\ Goto(w, "refund")
  /\ UNCHANGED <<data, started, locks, picked, history>>

\* One query locks the participant and its marathon; then the checks.
CancelParticipation(w, u) ==
  /\ pc[w] = "idle"
  /\ \/ /\ RowsOf(u) = {}
        /\ RollBack(w, "failed")
     \/ \E r \in RowsOf(u) :
          /\ rowLock[r] = Nobody
          /\ marathonLock = Nobody
          /\ \/ /\ participants[r].isActive /\ ~started
                /\ rowLock' = [rowLock EXCEPT ![r] = w]
                /\ marathonLock' = w
                /\ found' = [found EXCEPT ![w] = r]
                /\ seen' = [seen EXCEPT ![w] = players]
                /\ caller' = [caller EXCEPT ![w] = u]
                /\ Goto(w, "refund")
                /\ UNCHANGED <<data, started, picked, history>>
             \/ /\ ~participants[r].isActive \/ started
                /\ RollBack(w, "failed")

\* The account that belongs to the participant is set free.
DetachAccount(r) ==
  accounts' = [a \in Accounts |-> IF accounts[a] = r THEN NoRow ELSE accounts[a]]

\* Faulty variant: the refund is lost.
CommitCancelUnrefunded(w) ==
  LET r == found[w] IN
  /\ pc[w] = "refund"
  /\ DetachAccount(r)
  /\ participants' = [participants EXCEPT ![r].isActive = FALSE, ![r].account = NoAccount]
  /\ players' = IF seen[w] > 0 THEN seen[w] - 1 ELSE 0
  /\ Unlock(w)
  /\ Return(w, "done")
  /\ UNCHANGED <<refunds, started, history>>

\* Faulty variant: the place of the participant is not given back.
CommitCancelTaken(w) ==
  LET r == found[w] IN
  /\ pc[w] = "refund"
  /\ DetachAccount(r)
  /\ participants' = [participants EXCEPT ![r].isActive = FALSE, ![r].account = NoAccount]
  /\ refunds' = [refunds EXCEPT ![caller[w]] = @ + 1]
  /\ Unlock(w)
  /\ Return(w, "done")
  /\ UNCHANGED <<players, started, history>>

\* Account, participant, marathon and the refund, in one commit.  A credit that is
\* refused (nothing to refund, a frozen wallet) is a query that fails.
CommitCancel(w) ==
  LET r == found[w] IN
  /\ pc[w] = "refund"
  /\ DetachAccount(r)
  /\ participants' = [participants EXCEPT ![r].isActive = FALSE, ![r].account = NoAccount]
  /\ players' = IF seen[w] > 0 THEN seen[w] - 1 ELSE 0
  /\ refunds' = [refunds EXCEPT ![caller[w]] = @ + 1]
  /\ Unlock(w)
  /\ Return(w, "done")
  /\ UNCHANGED <<started, history>>

------------------------------------------------------------------------------
\* An administrator assigns an account by hand.
AdminAssign ==
  /\ \E a \in Accounts, r \in Rows :
       /\ participants[r] # NoRow
       /\ rowLock[r] = Nobody
       /\ MayAssign(a, r)
       /\ Link(a, r)
  /\ UNCHANGED <<players, refunds, started, locks, pc, local, history>>

StartDate ==
  /\ ~started
  /\ started' = TRUE
  /\ UNCHANGED <<data, locks, pc, local, history>>

\* A query fails or the connection is lost: the open transaction is rolled back, and
\* after the commit of a join the error is swallowed.
QueryFails(w) ==
  \/ pc[w] \in {"join", "enrol", "book"} /\ RollBack(w, "joinFailed")
  \/ pc[w] = "refund" /\ RollBack(w, "failed")
  \/ pc[w] \in {"assign", "attach"} /\ RollBack(w, "done")

Join(w) ==
  \/ ReadMarathon(w)
  \/ FindParticipant(w)
  \/ CommitJoin(w)
  \/ FindAvailable(w)
  \/ AssignAccount(w)

MembershipNext ==
  \/ \E w \in Workers :
       \/ \E u \in Users : BeginJoin(w, u) \/ CancelParticipation(w, u)
       \/ Join(w)
       \/ CommitCancel(w)
       \/ QueryFails(w)
  \/ AdminAssign
  \/ StartDate

MembershipSpec == MembershipInit /\ [][MembershipNext]_membershipVars

\* The database serves the waiters of a lock in turn.
FairMembershipSpec ==
  /\ MembershipSpec
  /\ \A w \in Workers : SF_membershipVars(Join(w) \/ CommitCancel(w))
------------------------------------------------------------------------------
\* Properties.

Working == {"join", "enrol", "book", "assign", "attach", "refund"}
Over == {"done", "failed", "joinFailed"}

\* currentPlayers stays within the capacity, although it is checked on a marathon
\* read without a lock and written later as a number.
MembershipTypeOK ==
  /\ participants \in [Rows -> Participant \cup {NoRow}]
  /\ accounts \in [Accounts -> Rows \cup {NoRow}]
  /\ players \in 0..MaxPlayers
  /\ started \in BOOLEAN
  /\ refunds \in [Users -> Nat]
  /\ rowLock \in [Rows -> Workers \cup {Nobody}]
  /\ marathonLock \in Workers \cup {Nobody}
  /\ pc \in [Workers -> {"idle"} \cup Working \cup Over]
  /\ caller \in [Workers -> Users \cup {NoUser}]
  /\ found \in [Workers -> Rows \cup {NoRow}]
  /\ seen \in [Workers -> 0..MaxPlayers]
  /\ picked \in [Workers -> Accounts \cup {NoAccount}]
  /\ joins \in [Users -> Nat]
  /\ lost \in BOOLEAN
  /\ doubled \subseteq Users

\* An account and a participant name each other or do not, while joins, cancellations
\* and the administrator change the two sides of the link in transactions of their own.
LinksAreMutual ==
  \A a \in Accounts, r \in Rows :
    accounts[a] = r <=> participants[r] # NoRow /\ participants[r].account = a

\* Every join is active or refunded, never both and never twice: a cancellation that
\* races another one or a new join of the same user refunds only what it ends.
EachJoinIsActiveOrRefunded ==
  \A u \in Users :
    joins[u] = refunds[u] + Cardinality(RowsOf(u) \cap ActiveRows)

\* currentPlayers counts the active participants, hence the marathon is not
\* overbooked, as long as no join has written it from a value that was out of date.
PlayersCountsTheActive == lost \/ players = Cardinality(ActiveRows)

\* A user has one participant unless two joins of theirs both found none.
OneRowPerUser == \A u \in Users \ doubled : Cardinality(RowsOf(u)) <= 1

\* "Re-validates capacity during webhook processing" and "uses database transactions
\* to prevent race conditions": never more active participants than maxPlayers.
CapacityIsRespected == Cardinality(ActiveRows) <= MaxPlayers

\* Every call ends: no path of a join, a cancellation or an assignment keeps a lock
\* another one waits for.
CallsEnd == \A w \in Workers : pc[w] \in Working ~> pc[w] \in Over
==============================================================================
