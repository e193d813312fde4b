------------------------------ MODULE Lifecycle ------------------------------
(***************************************************************************)
(* The life of one marathon, its participants and the MetaTrader accounts  *)
(* they trade with: MarathonService (create, update, remove, listing of    *)
(* participants), the jobs of MarathonProvisioningService, the rule checks *)
(* of MarathonRulesService and the administrator's edits of accounts, all  *)
(* beside joins and cancellations (in detail in Membership).               *)
(*                                                                         *)
(* Jobs run every few minutes, may overlap and repeat for ever; requests   *)
(* come as they like.  What matters is what each of them read before it      *)
(* waits: TypeORM's save writes back every column of the entity it is      *)
(* given, whoever has changed the row meanwhile, and inserts the row again *)
(* if it is gone.                                                          *)
(*                                                                         *)
(* Participants are a sequence in the order of createdAt, accounts are     *)
(* numbered in that order.  Bounds: MaxTime and MaxRequests.               *)
(***************************************************************************)
EXTENDS Integers, Sequences, FiniteSets

CONSTANTS
  Users,        \* users who join and cancel
  AccountCount, \* accounts are 1 .. AccountCount
  InitialAccounts, \* how many of them may exist from the start
  Workers,      \* runs of jobs and HTTP requests under way at the same time
  MaxRequests,  \* bound on the requests; the jobs repeat for ever
  Dates,        \* <<startDate, endDate>> an administrator may choose
  GivenStatuses, \* statuses an administrator may choose
  MaxPlayers,   \* marathon.maxPlayers
  MaxTime,      \* bound of the clock
  NoRow         \* no row

Accounts == 1 .. AccountCount
Statuses == {"UPCOMING", "ONGOING", "FINISHED", "CANCELED"}
NoLink == 0  \* no participant, no account

ASSUME LifecycleAssumption ==
  /\ AccountCount \in Nat /\ InitialAccounts \subseteq Nat
  /\ MaxTime \in Nat
  /\ MaxPlayers \in Nat \ {0}
  /\ Dates \subseteq Nat \X Nat
  /\ GivenStatuses \subseteq Statuses
  /\ MaxRequests \in Nat
  /\ NoRow \notin [participant : Nat, status : {"UNDEPLOYED", "DEPLOYED"}]

VARIABLES
  now,          \* the clock
  marathon,     \* the row [status, isActive, startDate, endDate, players], or NoRow
  participants, \* rows [user, linked, isActive, disqualified, account] in insertion order
  accounts,     \* account -> its row [participant, status], or NoRow
  unborn,       \* accounts not created yet
  served,       \* requests begun
  call,         \* worker -> the call it serves and what it has read
  joined,       \* joins less cancellations (history)
  lost,         \* a save of the marathon overwrote another commit (history)
  torn          \* accounts whose link was written on one side only, over another one,
                \* or beside another account's (history)

rows == <<marathon, participants, accounts>>
lifecycleVars == <<now, rows, unborn, served, call, joined, lost, torn>>

Rows == DOMAIN participants
Linked == {r \in Rows : participants[r].linked}
Idle == [op |-> "idle"]

\* calculateMarathonLifecycleStatus, on dates that are always there.
LifecycleStatus(start, end, t) ==
  IF start > t THEN "UPCOMING" ELSE IF end >= t THEN "ONGOING" ELSE "FINISHED"

HasStarted(m) == m.startDate <= now

Continue(w, c) == call' = [call EXCEPT ![w] = c]
Finish(w) == Continue(w, Idle)

\* MarathonService.create: the status is given or calculated.
Created(d, status) ==
  [status |-> IF status = "calculated" THEN LifecycleStatus(d[1], d[2], 0) ELSE status,
   isActive |-> TRUE, startDate |-> d[1], endDate |-> d[2], players |-> 0]

------------------------------------------------------------------------------
NewAccount == [participant |-> NoLink, status |-> "UNDEPLOYED"]

LifecycleInit ==
  /\ now = 0
  /\ \E d \in Dates, status \in GivenStatuses \cup {"calculated"} : marathon = Created(d, status)
  /\ participants = <<>>
  /\ \E n \in InitialAccounts : unborn = Accounts \ 1 .. n
  /\ accounts = [a \in Accounts |-> IF a \in unborn THEN NoRow ELSE NewAccount]
  /\ served = 0
  /\ call = [w \in Workers |-> Idle]
  /\ joined = 0
  /\ lost = FALSE
  /\ torn = {}

Tick ==
  /\ now < MaxTime
  /\ now' = now + 1
  /\ UNCHANGED <<rows, unborn, served, call, joined, lost, torn>>

\* save(marathon): every column as it was read, but for what the caller changed.
SaveMarathon(m, c) ==
  /\ marathon' = m
  /\ lost' = (lost \/ marathon # c.base \/ (c.op = "update" /\ Linked # c.members))

------------------------------------------------------------------------------
\* MarathonService.update and remove.

\* findOne reads the marathon with its participants.
UpdateRead(q) ==
  /\ call[q] = Idle
  /\ marathon # NoRow
  /\ Continue(q, [op |-> "update", base |-> marathon, members |-> Linked])
  /\ UNCHANGED <<now, rows, unborn, joined, lost, torn>>

\* Faulty variant: new dates revive a canceled marathon.
RedatedAlways(m, d) ==
  [m EXCEPT !.startDate = d[1], !.endDate = d[2], !.status = LifecycleStatus(d[1], d[2], now)]

\* New dates recalculate the status, unless one is given or the marathon is canceled.
Redated(m, d) ==
  [m EXCEPT !.startDate = d[1], !.endDate = d[2],
            !.status = IF @ = "CANCELED" THEN @ ELSE LifecycleStatus(d[1], d[2], now)]

Edits(m) ==
       {Redated(m, d) : d \in Dates}
  \cup {[m EXCEPT !.status = s] : s \in GivenStatuses}
  \cup {[m EXCEPT !.isActive = b] : b \in BOOLEAN}

\* Saving the entity with its participants loaded also makes them the participants of
\* the marathon: the marathon of any other becomes null.
UpdateSave(q) ==
  LET c == call[q] IN
  /\ c.op = "update"
  /\ \E m \in Edits(c.base) : SaveMarathon(m, c)
  /\ participants' = [r \in Rows |-> [participants[r] EXCEPT !.linked = r \in c.members]]
  /\ Finish(q)
  /\ UNCHANGED <<now, accounts, unborn, joined, torn>>

\* The foreign key of the participants protects a marathon that has some.
RemoveMarathon(q) ==
  /\ call[q] = Idle
  /\ marathon # NoRow
  /\ marathon' = IF Linked = {} THEN NoRow ELSE marathon
  /\ Finish(q)
  /\ UNCHANGED <<now, participants, accounts, unborn, joined, lost, torn>>

------------------------------------------------------------------------------
\* Joins and cancellations, whose locks are those of Membership.

JoinRead(q, u) ==
  /\ call[q] = Idle
  /\ marathon # NoRow
  /\ \/ /\ marathon.players < MaxPlayers
        /\ Continue(q, [op |-> "join", user |-> u, base |-> marathon])
     \/ marathon.players >= MaxPlayers /\ Finish(q)
  /\ UNCHANGED <<now, rows, unborn, joined, lost, torn>>

RowsOf(u) == {r \in Linked : participants[r].user = u}

\* Reactivated, still disqualified if it was, or inserted.  The insert needs its marathon.
JoinCommit(q) ==
  LET c == call[q] IN
  /\ c.op = "join"
  /\ \/ /\ \E r \in RowsOf(c.user) :
             /\ ~participants[r].isActive
             /\ participants' = [participants EXCEPT ![r].isActive = TRUE]
             /\ Continue(q, [op |-> "attach", row |-> r])
        /\ SaveMarathon([c.base EXCEPT !.players = @ + 1], c)
        /\ joined' = joined + 1
     \/ /\ RowsOf(c.user) = {}
        /\ marathon # NoRow
        /\ participants' = Append(participants,
             [user |-> c.user, linked |-> TRUE, isActive |-> TRUE,
              disqualified |-> FALSE, account |-> NoLink])
        /\ Continue(q, [op |-> "attach", row |-> Len(participants) + 1])
        /\ SaveMarathon([c.base EXCEPT !.players = @ + 1], c)
        /\ joined' = joined + 1
     \/ /\ \/ \E r \in RowsOf(c.user) : participants[r].isActive
           \/ RowsOf(c.user) = {} /\ marathon = NoRow
        /\ Finish(q)
        /\ UNCHANGED <<participants, marathon, joined, lost>>
  /\ UNCHANGED <<now, accounts, unborn, torn>>

\* assignToParticipant decides on both rows while it holds their locks.
MayAssign(a, r) ==
  /\ accounts[a] # NoRow
  /\ accounts[a].participant = NoLink
  /\ participants[r].linked
  /\ participants[r].account = NoLink

\* The accounts that name a participant, and those that share it once a does so too.
Holders(r) == {a \in Accounts : accounts[a] # NoRow /\ accounts[a].participant = r /\ r # NoLink}
Sharing(a, r) == LET held == Holders(r) \cup {a} IN {b \in held : held # {b}}

Link(a, r) ==
  /\ accounts' = [accounts EXCEPT ![a].participant = r]
  /\ participants' = [participants EXCEPT ![r].account = a]
  /\ torn' = torn \cup ({participants[r].account} \ {NoLink}) \cup Sharing(a, r)

\* After the join: the first of all accounts, if it is free; errors are swallowed.
AutoAssign(q) ==
  LET c == call[q] IN
  /\ c.op = "attach"
  /\ \/ \E a \in Accounts : MayAssign(a, c.row) /\ Link(a, c.row)
     \/ UNCHANGED <<accounts, participants, torn>>
  /\ Finish(q)
  /\ UNCHANGED <<now, marathon, unborn, joined, lost>>

\* Faulty variant: the account is not looked for.
ReleasedByName(r) == {accounts}

\* One account that belongs to the participant, if there is any, is set free.
Released(r) ==
  IF Holders(r) = {} THEN {accounts}
  ELSE {[accounts EXCEPT ![a].participant = NoLink] : a \in Holders(r)}

\* Faulty variant: the place is not given back.
NoneLess(m) == m

OneLess(m) == [m EXCEPT !.players = IF @ > 0 THEN @ - 1 ELSE 0]

\* The locks of participant, marathon and account are taken before they are read.
Cancel(q, u) ==
  /\ call[q] = Idle
  /\ \/ /\ marathon # NoRow
        /\ ~HasStarted(marathon)
        /\ \E r \in RowsOf(u) :
             /\ participants[r].isActive
             /\ participants' = [participants EXCEPT ![r].isActive = FALSE, ![r].account = NoLink]
             /\ accounts' \in Released(r)
        /\ marathon' = OneLess(marathon)
        /\ joined' = joined - 1
     \/ UNCHANGED <<rows, joined>>  \* refused
  /\ Finish(q)
  /\ UNCHANGED <<now, unborn, lost, torn>>

------------------------------------------------------------------------------
\* MetaTraderAccountService, called by an administrator.

CreateAccount(q) ==
  /\ call[q] = Idle
  /\ \E a \in unborn :
       /\ \A b \in unborn : a <= b
       /\ unborn' = unborn \ {a}
       /\ accounts' = [accounts EXCEPT ![a] = NewAccount]
  /\ Finish(q)
  /\ UNCHANGED <<now, marathon, participants, joined, lost, torn>>

Assign(q) ==
  /\ call[q] = Idle
  /\ \E a \in Accounts, r \in Rows : MayAssign(a, r) /\ Link(a, r)
  /\ Finish(q)
  /\ UNCHANGED <<now, marathon, unborn, joined, lost>>

\* save(account): every column as it was read, but for what the caller changed; an
\* account that is gone is inserted again.
SaveAccount(a, row, base) ==
  /\ accounts' = [accounts EXCEPT ![a] = row]
  /\ torn' = IF accounts[a] # base THEN torn \cup {a} \cup Sharing(a, row.participant) ELSE torn

UnassignRead(q) ==
  /\ call[q] = Idle
  /\ \E a \in Accounts :
       /\ accounts[a] # NoRow
       /\ accounts[a].participant # NoLink
       /\ Continue(q, [op |-> "unassign", account |-> a, base |-> accounts[a]])
  /\ UNCHANGED <<now, rows, unborn, joined, lost, torn>>

\* Only the account forgets; the participant still names it.
UnassignSave(q) ==
  LET c == call[q] IN
  /\ c.op = "unassign"
  /\ accounts' = [accounts EXCEPT ![c.account] = [c.base EXCEPT !.participant = NoLink]]
  /\ torn' = torn \cup {c.account}
  /\ Finish(q)
  /\ UNCHANGED <<now, marathon, participants, unborn, joined, lost>>

RemoveRead(q) ==
  /\ call[q] = Idle
  /\ \E a \in Accounts :
       /\ accounts[a] # NoRow
       /\ accounts[a].participant = NoLink
       /\ Continue(q, [op |-> "remove", account |-> a])
  /\ UNCHANGED <<now, rows, unborn, joined, lost, torn>>

\* The foreign key of the participants refuses, where one still names the account.
RemoveAccount(q) ==
  LET a == call[q].account IN
  /\ call[q].op = "remove"
  /\ IF \E r \in Rows : participants[r].account = a
     THEN UNCHANGED accounts
     ELSE accounts' = [accounts EXCEPT ![a] = NoRow]
  /\ Finish(q)
  /\ UNCHANGED <<now, marathon, participants, unborn, joined, lost, torn>>

------------------------------------------------------------------------------
\* getMarathonParticipants deploys what is not deployed, with the accounts it has read.

ListParticipants(q) ==
  /\ call[q] = Idle
  /\ marathon # NoRow
  /\ LET named == {participants[r].account : r \in {p \in Linked : participants[p].isActive}}
         read == {a \in named \ {NoLink} : accounts[a].status = "UNDEPLOYED"}
     IN  IF HasStarted(marathon)
         THEN Continue(q, [op |-> "deploy", todo |-> [a \in read |-> accounts[a]]])
         ELSE Finish(q)
  /\ UNCHANGED <<now, rows, unborn, joined, lost, torn>>

\* One account is deployed and saved, or the failure is logged.
DeployListed(q) ==
  LET c == call[q] IN
  /\ c.op = "deploy"
  /\ \/ \E a \in DOMAIN c.todo :
          /\ Continue(q, [c EXCEPT !.todo = [b \in DOMAIN c.todo \ {a} |-> c.todo[b]]])
          /\ \/ SaveAccount(a, [c.todo[a] EXCEPT !.status = "DEPLOYED"], c.todo[a])
             \/ UNCHANGED <<accounts, torn>>
     \/ /\ DOMAIN c.todo = {}
        /\ Finish(q)
        /\ UNCHANGED <<accounts, torn>>
  /\ UNCHANGED <<now, marathon, participants, unborn, joined, lost>>

------------------------------------------------------------------------------
\* synchronizeMarathonStatuses.

\* The status the job moves a marathon to, or the one it has.
NextStatus(m) ==
  LET s == LifecycleStatus(m.startDate, m.endDate, now) IN
  IF \/ m.status \notin {"UPCOMING", "ONGOING"}
     \/ ~m.isActive /\ s # "FINISHED"
     \/ s = "UPCOMING"
  THEN m.status ELSE s

SyncRead(j) ==
  /\ call[j] = Idle
  /\ marathon # NoRow
  /\ NextStatus(marathon) # marathon.status
  /\ Continue(j, [op |-> "sync", base |-> marathon, status |-> NextStatus(marathon)])
  /\ UNCHANGED <<now, rows, unborn, joined, lost, torn>>

SyncSave(j) ==
  LET c == call[j] IN
  /\ c.op = "sync"
  /\ SaveMarathon([c.base EXCEPT !.status = c.status], c)
  /\ Finish(j)
  /\ UNCHANGED <<now, participants, accounts, unborn, joined, torn>>

------------------------------------------------------------------------------
\* provisionStartedMarathons.

Playing(r) == participants[r].linked /\ participants[r].isActive
Open == marathon # NoRow /\ marathon.isActive /\ HasStarted(marathon) /\ marathon.status = "ONGOING"

Waiting == {r \in Rows : Playing(r) /\ participants[r].account = NoLink}
Free == {a \in Accounts : accounts[a] # NoRow /\ accounts[a].participant = NoLink}
Undeployed == {a \in Accounts : /\ accounts[a] # NoRow
                                /\ accounts[a].status = "UNDEPLOYED"
                                /\ \E r \in Rows : Playing(r) /\ participants[r].account = a}

Oldest(S) == CHOOSE x \in S : \A y \in S : x <= y

\* Faulty variant: only on the day the marathon starts.
ProvisionReadAtStart(j) ==
  /\ call[j] = Idle
  /\ Open /\ marathon.startDate = now
  /\ Continue(j, [op |-> "provision", todo |-> Waiting])
  /\ UNCHANGED <<now, rows, unborn, joined, lost, torn>>

ProvisionRead(j) ==
  /\ call[j] = Idle
  /\ Open
  /\ Continue(j, [op |-> "provision", todo |-> Waiting])
  /\ UNCHANGED <<now, rows, unborn, joined, lost, torn>>

\* Then the accounts that are still to be deployed; none if the marathon is over.
ThenDeploy(j) == Continue(j, [op |-> "redeploy", todo |-> IF Open THEN Undeployed ELSE {}])

\* assignAvailableAccount: the oldest free account, under its lock, for the oldest
\* participant of the list, whatever has become of it.  Without one the list is left.
ProvisionNext(j) ==
  LET c == call[j] r == Oldest(c.todo) a == Oldest(Free) IN
  /\ c.op = "provision"
  /\ \/ /\ c.todo # {} /\ Free # {}
        /\ Link(a, r)
        /\ Continue(j, [op |-> "ready", todo |-> c.todo \ {r}, account |-> a])
     \/ /\ c.todo = {} \/ Free = {}
        /\ ThenDeploy(j)
        /\ UNCHANGED <<accounts, participants, torn>>
  /\ UNCHANGED <<now, marathon, unborn, joined, lost>>

\* deployAccountIfNeeded: reloaded, skipped if gone or deployed; only the status is
\* written.  A failure of Tokyo is logged.
DeployAccount(a) ==
  \/ accounts[a] # NoRow /\ accounts' = [accounts EXCEPT ![a].status = "DEPLOYED"]
  \/ UNCHANGED accounts

ProvisionDeploy(j) ==
  LET c == call[j] IN
  /\ c.op = "ready"
  /\ DeployAccount(c.account)
  /\ Continue(j, [op |-> "provision", todo |-> c.todo])
  /\ UNCHANGED <<now, marathon, participants, unborn, joined, lost, torn>>

Redeploy(j) ==
  LET c == call[j] IN
  /\ c.op = "redeploy"
  /\ \/ \E a \in c.todo : DeployAccount(a) /\ Continue(j, [c EXCEPT !.todo = @ \ {a}])
     \/ c.todo = {} /\ Finish(j) /\ UNCHANGED accounts
  /\ UNCHANGED <<now, marathon, participants, unborn, joined, lost, torn>>

\* A failed query of an assignment ends the whole run.
ProvisionFails(j) ==
  /\ call[j].op \in {"provision", "redeploy"}
  /\ Finish(j)
  /\ UNCHANGED <<now, rows, unborn, joined, lost, torn>>

------------------------------------------------------------------------------
\* checkParticipantRules, from the job or for a live message.

RulesRead(j) ==
  /\ call[j] = Idle
  /\ marathon # NoRow
  /\ marathon.status = "ONGOING"
  /\ \E r \in Rows :
       /\ Playing(r)
       /\ ~participants[r].disqualified
       /\ participants[r].account # NoLink
       /\ Continue(j, [op |-> "rules", row |-> r, base |-> participants[r]])
  /\ UNCHANGED <<now, rows, unborn, joined, lost, torn>>

\* disqualifyParticipant saves the participant that was read before the history of its
\* account was.
SaveDisqualified(j) ==
  LET c == call[j] IN
  /\ c.op = "rules"
  /\ \/ /\ accounts[c.base.account] # NoRow
        /\ participants' = [participants EXCEPT ![c.row] =
              [c.base EXCEPT !.isActive = FALSE, !.disqualified = TRUE]]
        /\ torn' = IF participants[c.row].account = c.base.account THEN torn
                   ELSE (torn \cup {participants[c.row].account, c.base.account}) \ {NoLink}
     \/ UNCHANGED <<participants, torn>>  \* no violation, or the save fails
  /\ Finish(j)
  /\ UNCHANGED <<now, marathon, accounts, unborn, joined, lost>>

------------------------------------------------------------------------------
Job(j) ==
  \/ SyncRead(j) \/ SyncSave(j)
  \/ ProvisionRead(j) \/ ProvisionNext(j) \/ ProvisionDeploy(j) \/ Redeploy(j)
  \/ ProvisionFails(j)
  \/ RulesRead(j) \/ SaveDisqualified(j)

Begin(q) ==
  \/ UpdateRead(q) \/ RemoveMarathon(q)
  \/ \E u \in Users : JoinRead(q, u) \/ Cancel(q, u)
  \/ CreateAccount(q) \/ Assign(q) \/ UnassignRead(q) \/ RemoveRead(q)
  \/ ListParticipants(q)

Proceed(q) ==
  \/ UpdateSave(q) \/ JoinCommit(q) \/ AutoAssign(q)
  \/ UnassignSave(q) \/ RemoveAccount(q) \/ DeployListed(q)

\* What a call under way does next, unless it fails.
Finishing(w) ==
  \/ SyncSave(w) \/ ProvisionNext(w) \/ ProvisionDeploy(w) \/ Redeploy(w) \/ SaveDisqualified(w)
  \/ Proceed(w)

LifecycleNext ==
  \/ Tick
  \/ \E w \in Workers :
       \/ Job(w) /\ UNCHANGED served
       \/ Begin(w) /\ served < MaxRequests /\ served' = served + 1
       \/ Proceed(w) /\ UNCHANGED served

LifecycleSpec == LifecycleInit /\ [][LifecycleNext]_lifecycleVars

\* The jobs come round again and again and Tokyo answers in the end; users and
\* administrators owe nothing, but what they have begun is carried out.
LifecycleFairness ==
  /\ \A w \in Workers : WF_lifecycleVars(Finishing(w) /\ UNCHANGED served)
  /\ SF_lifecycleVars(\E w \in Workers : ProvisionNext(w) /\ UNCHANGED served)
  /\ SF_lifecycleVars(\E w \in Workers : SyncRead(w) /\ UNCHANGED served)
  /\ SF_lifecycleVars(\E w \in Workers : ProvisionRead(w) /\ UNCHANGED served)

------------------------------------------------------------------------------
\* Properties.

\* The marathon's counters and members are those of its joins and cancellations unless a
\* save has overwritten somebody's commit: then alone players are miscounted, participants
\* lose their marathon or a removed marathon is back.
OnlyLostWritesMiscount ==
  ~lost /\ marathon # NoRow =>
    /\ marathon.players = joined
    /\ \A r \in Rows : participants[r].linked
    /\ Cardinality({r \in Rows : Playing(r)}) <= marathon.players

\* A canceled marathon is left canceled by jobs, joins, cancellations and new dates: only
\* an administrator who sets a status, or a save that overwrites the cancellation, ends it.
OnlyAnEditRevives ==
  [][ (marathon # NoRow /\ marathon.status = "CANCELED"
        /\ marathon' # NoRow /\ marathon'.status # "CANCELED")
      => \/ lost'
         \/ \E q \in Workers : call[q].op = "update" /\ \E s \in GivenStatuses :
               marathon' = [call[q].base EXCEPT !.status = s] ]_lifecycleVars

\* Account and participant name each other or do not, but for accounts an administrator
\* took away, accounts that one participant was given together (a cancellation sets only
\* one of them free), the one a participant had before provisioning gave it another, and
\* those written back from what a listing or a rule check had read before.
OnlyTornLinksDiffer ==
  \A a \in Accounts \ torn, r \in Rows :
    (accounts[a] # NoRow /\ accounts[a].participant = r) <=> participants[r].account = a

\* A marathon that is over does not stay open: the status job gets there in the end,
\* whatever saves have put its status back.
EndedIsClosed ==
  (marathon # NoRow /\ marathon.status \in {"UPCOMING", "ONGOING"} /\ marathon.endDate < now)
    ~> (marathon = NoRow \/ marathon.status \in {"FINISHED", "CANCELED"} \/ marathon.endDate >= now)

\* Nobody who plays in an open marathon waits for an account for ever while one is free.
WaitingAreProvided ==
  (Open /\ Waiting # {} /\ Free # {}) ~> (~Open \/ Waiting = {} \/ Free = {})

\* Together: the status job and provisioning get done what is theirs to do, however often
\* they fail and whatever is edited, joined or canceled between their steps.
TheJobsCatchUp == EndedIsClosed /\ WaitingAreProvided
==============================================================================
