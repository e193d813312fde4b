--------------------------- MODULE MarathonsProofs ---------------------------
(***************************************************************************)
(* Theorems of Lifecycle, the life of a marathon with its participants and *)
(* accounts, for any number of users, accounts, jobs and requests, of      *)
(* Rules, its disqualifications, for any rules and courses of an account,  *)
(* and of Feed, its live data, for any messages, accounts and handlers.    *)
(*                                                                         *)
(* Those of Lifecycle rest on LifecycleInv.  Its main part says what every *)
(* call under way still knows of rows it has read and will write back:     *)
(* they are of the marathon that was there, of participants that are never *)
(* removed, and of accounts that had been created.  RulesInv says that the *)
(* reasons of a disqualification are facts of the equity as it is, and     *)
(* facts stay, because a course is only continued.  FeedInv says that what *)
(* an undisturbed account has on its way is one handler or one update.     *)
(***************************************************************************)
EXTENDS Lifecycle, Rules, Feed, FiniteSetTheorems, SequenceTheorems, WellFoundedInduction, TLAPS

------------------------------------------------------------------------------
(***************************************************************************)
(* Lifecycle.                                                              *)
(***************************************************************************)

MarathonRow ==
  [status : Statuses, isActive : BOOLEAN, startDate : Nat, endDate : Nat, players : Nat]

ParticipantRow ==
  [user : Users, linked : BOOLEAN, isActive : BOOLEAN, disqualified : BOOLEAN,
   account : {NoLink} \cup Accounts]

AccountRow == [participant : {NoLink} \cup Rows, status : {"UNDEPLOYED", "DEPLOYED"}]

Existing == Accounts \ unborn

\* What worker w has read, and will write back, fits the step it has reached.
CallFits(w) ==
  LET c == call[w] IN
  /\ c.op \in {"update", "join", "sync"} => c.base \in MarathonRow /\ c.base # NoRow
  /\ c.op = "sync" => c.status \in Statuses /\ c.base.status # "CANCELED"
  /\ c.op = "join" => c.user \in Users
  /\ c.op = "attach" => c.row \in Rows
  /\ c.op \in {"unassign", "remove"} => c.account \in Existing
  /\ c.op = "unassign" => c.base \in AccountRow
  /\ c.op \in {"deploy", "redeploy"} => c = [op |-> c.op, todo |-> c.todo]
  /\ c.op = "deploy" => \A a \in DOMAIN c.todo : a \in Existing /\ c.todo[a] \in AccountRow
  /\ c.op \in {"provision", "ready"} => c.todo \subseteq Rows
  /\ c.op = "ready" => c.account \in Existing
  /\ c.op = "redeploy" => c.todo \subseteq Accounts
  /\ c.op = "rules" => /\ c.row \in Rows
                       /\ c.base \in ParticipantRow
                       /\ c.base.linked
                       /\ c.base.account \in Accounts

CallsFit ==
  /\ call = [w \in Workers |-> call[w]]
  /\ \A w \in Workers : CallFits(w)

RowsFit ==
  /\ now \in Nat /\ served \in Nat /\ joined \in Int
  /\ marathon \in MarathonRow \cup {NoRow}
  /\ participants \in Seq(ParticipantRow)
  /\ accounts \in [Accounts -> AccountRow \cup {NoRow}]
  /\ unborn \subseteq Accounts
  /\ \A a \in unborn : accounts[a] = NoRow

\* The foreign key of the participants: the account they name is there.
NamedAreThere ==
  \A r \in Rows : participants[r].account # NoLink => accounts[participants[r].account] # NoRow

\* Accounts that name one participant together are torn.
SharersAreTorn ==
  \A a, b \in Accounts :
    (/\ a # b /\ accounts[a] # NoRow /\ accounts[b] # NoRow
     /\ accounts[a].participant = accounts[b].participant
     /\ accounts[a].participant # NoLink)
      => a \in torn

LinksFit == OnlyTornLinksDiffer /\ SharersAreTorn

LifecycleInv ==
  /\ RowsFit
  /\ CallsFit
  /\ NamedAreThere
  /\ LinksFit
  /\ OnlyLostWritesMiscount

------------------------------------------------------------------------------
LEMMA LeastExists ==
  ASSUME NEW S, S \subseteq Nat, S # {}
  PROVE  \E x \in S : \A y \in S : x <= y
<1> DEFINE Less == OpToRel(<, Nat)
<1>1. PICK x \in S : \A y \in S : <<y, x>> \notin Less
  <2>1. IsWellFoundedOn(Less, Nat)
    BY NatLessThanWellFounded, Zenon
  <2> HIDE DEF Less
  <2> QED
    BY <2>1, WFMin
<1>2. \A y \in S : x <= y
  <2> SUFFICES ASSUME NEW y \in S PROVE x <= y
    OBVIOUS
  <2>1. ~(y < x)
    BY <1>1 DEF OpToRel
  <2> QED
    BY <2>1
<1> QED
  BY <1>2

\* The oldest of some rows is one of them.
LEMMA OldestIsIn ==
  ASSUME NEW S, S \subseteq Nat, S # {}
  PROVE  Oldest(S) \in S
BY LeastExists DEF Oldest

\* Calls that do not move still fit when participants are only added and accounts created.
LEMMA OneCallMoves ==
  ASSUME CallsFit, participants \in Seq(ParticipantRow), participants' \in Seq(ParticipantRow),
         Len(participants) <= Len(participants'), unborn' \subseteq unborn,
         NEW w \in Workers, NEW c, call' = [call EXCEPT ![w] = c], CallFits(w)'
  PROVE  CallsFit'
<1>1. call' = [v \in Workers |-> call'[v]]
  BY DEF CallsFit
<1>2. ASSUME NEW v \in Workers PROVE CallFits(v)'
  <2>1. CASE v = w
    BY <2>1
  <2>2. CASE v # w
    <3>1. call'[v] = call[v] /\ CallFits(v)
      BY <2>2 DEF CallsFit
    <3>2. Rows \subseteq Rows' /\ Existing \subseteq Existing' /\ AccountRow \subseteq AccountRow'
      BY DEF Rows, Existing, AccountRow
    <3> QED
      BY <3>1, <3>2 DEF CallFits, ParticipantRow, MarathonRow
  <2> QED
    BY <2>1, <2>2
<1> QED
  BY <1>1, <1>2 DEF CallsFit

\* Who only looks, or gives up, disturbs no row.
LEMMA LookingKeeps ==
  ASSUME LifecycleInv, served' \in Nat, UNCHANGED <<now, rows, unborn, joined, lost, torn>>,
         NEW w \in Workers, NEW c, call' = [call EXCEPT ![w] = c], CallFits(w)'
  PROVE  LifecycleInv'
<1>1. CallsFit'
  <2>1. participants \in Seq(ParticipantRow) /\ participants' = participants /\ unborn' = unborn
    BY DEF LifecycleInv, RowsFit, rows
  <2>2. CallsFit /\ Len(participants) <= Len(participants') /\ unborn' \subseteq unborn
    BY <2>1 DEF LifecycleInv
  <2> QED
    BY <2>1, <2>2, OneCallMoves
<1>2. RowsFit'
  BY DEF LifecycleInv, RowsFit, rows, MarathonRow, ParticipantRow, AccountRow, Rows
<1>3. NamedAreThere' /\ LinksFit' /\ OnlyLostWritesMiscount'
  BY DEF LifecycleInv, NamedAreThere, LinksFit, OnlyTornLinksDiffer, SharersAreTorn, OnlyLostWritesMiscount, rows, Rows,
         Playing
<1> QED
  BY <1>1, <1>2, <1>3 DEF LifecycleInv

\* The counts hold as long as marathon and memberships stay.
LEMMA MembersKept ==
  ASSUME OnlyLostWritesMiscount, UNCHANGED <<marathon, joined, lost>>, Rows' = Rows,
         \A r \in Rows : /\ participants'[r].linked = participants[r].linked
                         /\ participants'[r].isActive = participants[r].isActive
  PROVE  OnlyLostWritesMiscount'
<1>1. {r \in Rows : Playing(r)}' = {r \in Rows : Playing(r)}
  BY DEF Playing
<1> QED
  BY <1>1 DEF OnlyLostWritesMiscount

LEMMA LifecycleInitInv ==
  ASSUME LifecycleInit
  PROVE  LifecycleInv
<1>1. RowsFit
  <2>1. marathon \in MarathonRow
    BY LifecycleAssumption DEF LifecycleInit, Created, MarathonRow, Statuses, LifecycleStatus
  <2>2. accounts \in [Accounts -> AccountRow \cup {NoRow}]
    BY DEF LifecycleInit, NewAccount, AccountRow
  <2>3. participants \in Seq(ParticipantRow)
    BY DEF LifecycleInit
  <2>4. unborn \subseteq Accounts /\ \A a \in unborn : accounts[a] = NoRow
    BY DEF LifecycleInit
  <2> QED
    BY <2>1, <2>2, <2>3, <2>4 DEF LifecycleInit, RowsFit
<1>2. CallsFit
  BY DEF LifecycleInit, CallsFit, CallFits, Idle
<1>3. Rows = {}
  BY DEF LifecycleInit, Rows
<1>4. NamedAreThere /\ LinksFit
  BY <1>3 DEF LifecycleInit, NewAccount, NamedAreThere, LinksFit, OnlyTornLinksDiffer, SharersAreTorn
<1>5. OnlyLostWritesMiscount
  <2>1. {r \in Rows : Playing(r)} = {}
    BY <1>3
  <2>2. marathon.players = 0
    BY DEF LifecycleInit, Created
  <2> QED
    BY <1>3, <2>1, <2>2, FS_EmptySet DEF OnlyLostWritesMiscount, LifecycleInit
<1> QED
  BY <1>1, <1>2, <1>4, <1>5 DEF LifecycleInv

------------------------------------------------------------------------------
\* The steps that only read, and what a provisioning run that fails leaves.

LEMMA UpdateReadKeeps ==
  ASSUME LifecycleInv, served' \in Nat, NEW q \in Workers, UpdateRead(q)
  PROVE  LifecycleInv'
<1> DEFINE c == [op |-> "update", base |-> marathon, members |-> Linked]
<1>1. call' = [call EXCEPT ![q] = c]
  BY DEF UpdateRead, Continue
<1>2. call'[q] = c
  BY <1>1 DEF LifecycleInv, CallsFit
<1>3. marathon \in MarathonRow /\ marathon # NoRow
  BY DEF UpdateRead, LifecycleInv, RowsFit
<1>4. CallFits(q)'
  BY <1>2, <1>3 DEF CallFits, MarathonRow
<1>5. UNCHANGED <<now, rows, unborn, joined, lost, torn>>
  BY DEF UpdateRead
<1> QED
  BY <1>1, <1>4, <1>5, LookingKeeps

\* A call that ends leaves nothing to fit.
LEMMA FinishFits ==
  ASSUME CallsFit, NEW q \in Workers, Finish(q)
  PROVE  CallFits(q)' /\ call' = [call EXCEPT ![q] = Idle]
BY DEF CallsFit, CallFits, Finish, Continue, Idle

LEMMA FinishLooking ==
  ASSUME LifecycleInv, served' \in Nat, NEW q \in Workers, Finish(q),
         UNCHANGED <<now, rows, unborn, joined, lost, torn>>
  PROVE  LifecycleInv'
BY FinishFits, LookingKeeps DEF LifecycleInv

LEMMA JoinReadKeeps ==
  ASSUME LifecycleInv, served' \in Nat, NEW q \in Workers, NEW u \in Users, JoinRead(q, u)
  PROVE  LifecycleInv'
<1>1. UNCHANGED <<now, rows, unborn, joined, lost, torn>>
  BY DEF JoinRead
<1>2. CASE Continue(q, [op |-> "join", user |-> u, base |-> marathon])
  <2> DEFINE c == [op |-> "join", user |-> u, base |-> marathon]
  <2>1. call' = [call EXCEPT ![q] = c]
    BY <1>2 DEF Continue
  <2>2. call'[q] = c
    BY <2>1 DEF LifecycleInv, CallsFit
  <2>3. marathon \in MarathonRow /\ marathon # NoRow
    BY DEF JoinRead, LifecycleInv, RowsFit
  <2>4. CallFits(q)'
    BY <2>2, <2>3 DEF CallFits, MarathonRow
  <2> QED
    BY <1>1, <2>1, <2>4, LookingKeeps
<1>3. CASE Finish(q)
  BY <1>1, <1>3, FinishLooking
<1> QED
  BY <1>2, <1>3 DEF JoinRead

\* Accounts that have a row have been created.
LEMMA RowsExist ==
  ASSUME RowsFit, NEW a \in Accounts, accounts[a] # NoRow
  PROVE  a \in Existing /\ accounts[a] \in AccountRow
BY DEF RowsFit, Existing

\* A row of an account is not the lack of one.
LEMMA RowsAreNumbered ==
  ASSUME RowsFit
  PROVE  NoRow \notin AccountRow
<1>1. Rows \subseteq Nat
  BY DEF RowsFit, Rows
<1>2. NoLink \in Nat
  BY DEF NoLink
<1>3. {NoLink} \cup Rows \subseteq Nat
  BY <1>1, <1>2
<1>4. AccountRow \subseteq [participant : Nat, status : {"UNDEPLOYED", "DEPLOYED"}]
  <2> SUFFICES ASSUME NEW x \in AccountRow
      PROVE  x \in [participant : Nat, status : {"UNDEPLOYED", "DEPLOYED"}]
    OBVIOUS
  <2>1. PICK n \in {NoLink} \cup Rows, t \in {"UNDEPLOYED", "DEPLOYED"} :
          x = [participant |-> n, status |-> t]
    BY DEF AccountRow
  <2>2. n \in Nat
    BY <1>3
  <2> QED
    BY <2>1, <2>2
<1> QED
  BY <1>4, LifecycleAssumption

LEMMA EachIsARow ==
  ASSUME RowsFit, NEW r \in Rows
  PROVE  participants[r] \in ParticipantRow
BY DEF RowsFit, Rows

LEMMA UnassignReadKeeps ==
  ASSUME LifecycleInv, served' \in Nat, NEW q \in Workers, UnassignRead(q)
  PROVE  LifecycleInv'
<1>1. PICK a \in Accounts :
        /\ accounts[a] # NoRow
        /\ Continue(q, [op |-> "unassign", account |-> a, base |-> accounts[a]])
  BY DEF UnassignRead
<1> DEFINE c == [op |-> "unassign", account |-> a, base |-> accounts[a]]
<1>2. call' = [call EXCEPT ![q] = c]
  BY <1>1 DEF Continue
<1>3. call'[q] = c
  BY <1>2 DEF LifecycleInv, CallsFit
<1>4. UNCHANGED <<now, rows, unborn, joined, lost, torn>>
  BY DEF UnassignRead
<1>5. a \in Existing' /\ accounts[a] \in AccountRow'
  BY <1>1, <1>4, RowsExist DEF LifecycleInv, Existing, AccountRow, Rows, rows
<1>6. CallFits(q)'
  BY <1>3, <1>5 DEF CallFits
<1> QED
  BY <1>2, <1>4, <1>6, LookingKeeps

LEMMA RemoveReadKeeps ==
  ASSUME LifecycleInv, served' \in Nat, NEW q \in Workers, RemoveRead(q)
  PROVE  LifecycleInv'
<1>1. PICK a \in Accounts :
        /\ accounts[a] # NoRow
        /\ Continue(q, [op |-> "remove", account |-> a])
  BY DEF RemoveRead
<1> DEFINE c == [op |-> "remove", account |-> a]
<1>2. call' = [call EXCEPT ![q] = c]
  BY <1>1 DEF Continue
<1>3. call'[q] = c
  BY <1>2 DEF LifecycleInv, CallsFit
<1>4. UNCHANGED <<now, rows, unborn, joined, lost, torn>>
  BY DEF RemoveRead
<1>5. a \in Existing'
  BY <1>1, <1>4, RowsExist DEF LifecycleInv, Existing
<1>6. CallFits(q)'
  BY <1>3, <1>5 DEF CallFits
<1> QED
  BY <1>2, <1>4, <1>6, LookingKeeps

LEMMA ListParticipantsKeeps ==
  ASSUME LifecycleInv, served' \in Nat, NEW q \in Workers, ListParticipants(q)
  PROVE  LifecycleInv'
<1> DEFINE named == {participants[r].account : r \in {p \in Linked : participants[p].isActive}}
           read == {a \in named \ {NoLink} : accounts[a].status = "UNDEPLOYED"}
           c == [op |-> "deploy", todo |-> [a \in read |-> accounts[a]]]
<1>1. UNCHANGED <<now, rows, unborn, joined, lost, torn>>
  BY DEF ListParticipants
<1>2. CASE Continue(q, c)
  <2>1. call' = [call EXCEPT ![q] = c]
    BY <1>2 DEF Continue
  <2>2. call'[q] = c
    BY <2>1 DEF LifecycleInv, CallsFit
  <2>3. ASSUME NEW a \in read PROVE a \in Existing /\ accounts[a] \in AccountRow
    <3>1. PICK r \in Rows : participants[r].account = a /\ a # NoLink
      BY DEF Linked
    <3>2. participants[r].account \in {NoLink} \cup Accounts
      BY EachIsARow DEF LifecycleInv, ParticipantRow
    <3>3. a \in Accounts /\ accounts[a] # NoRow
      BY <3>1, <3>2 DEF LifecycleInv, NamedAreThere
    <3> QED
      BY <3>3, RowsExist DEF LifecycleInv
  <2>4. \A a \in read : a \in Existing' /\ accounts[a] \in AccountRow'
    BY <1>1, <2>3 DEF Existing, AccountRow, Rows, rows
  <2>5. DOMAIN c.todo = read /\ (\A a \in read : c.todo[a] = accounts[a])
    OBVIOUS
  <2> HIDE DEF read, named
  <2>6. CallFits(q)'
    BY <2>2, <2>4, <2>5 DEF CallFits
  <2> QED
    BY <1>1, <2>1, <2>6, LookingKeeps
<1>3. CASE Finish(q)
  BY <1>1, <1>3, FinishLooking
<1> QED
  BY <1>2, <1>3 DEF ListParticipants

LEMMA SyncReadKeeps ==
  ASSUME LifecycleInv, served' \in Nat, NEW j \in Workers, SyncRead(j)
  PROVE  LifecycleInv'
<1> DEFINE c == [op |-> "sync", base |-> marathon, status |-> NextStatus(marathon)]
<1>1. call' = [call EXCEPT ![j] = c]
  BY DEF SyncRead, Continue
<1>2. call'[j] = c
  BY <1>1 DEF LifecycleInv, CallsFit
<1>3. marathon \in MarathonRow /\ marathon # NoRow
  BY DEF SyncRead, LifecycleInv, RowsFit
<1>4. NextStatus(marathon) \in Statuses /\ marathon.status # "CANCELED"
  BY <1>3 DEF SyncRead, NextStatus, LifecycleStatus, MarathonRow, Statuses
<1>5. CallFits(j)'
  BY <1>2, <1>3, <1>4 DEF CallFits, MarathonRow
<1>6. UNCHANGED <<now, rows, unborn, joined, lost, torn>>
  BY DEF SyncRead
<1> QED
  BY <1>1, <1>5, <1>6, LookingKeeps

LEMMA ProvisionReadKeeps ==
  ASSUME LifecycleInv, served' \in Nat, NEW j \in Workers, ProvisionRead(j)
  PROVE  LifecycleInv'
<1> DEFINE c == [op |-> "provision", todo |-> Waiting]
<1>1. call' = [call EXCEPT ![j] = c]
  BY DEF ProvisionRead, Continue
<1>2. call'[j] = c
  BY <1>1 DEF LifecycleInv, CallsFit
<1>3. UNCHANGED <<now, rows, unborn, joined, lost, torn>>
  BY DEF ProvisionRead
<1>4. Waiting \subseteq Rows'
  BY <1>3 DEF Waiting, Rows, rows
<1> HIDE DEF Waiting
<1>5. CallFits(j)'
  BY <1>2, <1>4 DEF CallFits
<1> QED
  BY <1>1, <1>3, <1>5, LookingKeeps

LEMMA RulesReadKeeps ==
  ASSUME LifecycleInv, served' \in Nat, NEW j \in Workers, RulesRead(j)
  PROVE  LifecycleInv'
<1>1. PICK r \in Rows :
        /\ Playing(r)
        /\ participants[r].account # NoLink
        /\ Continue(j, [op |-> "rules", row |-> r, base |-> participants[r]])
  BY DEF RulesRead
<1> DEFINE c == [op |-> "rules", row |-> r, base |-> participants[r]]
<1>2. call' = [call EXCEPT ![j] = c]
  BY <1>1 DEF Continue
<1>3. call'[j] = c
  BY <1>2 DEF LifecycleInv, CallsFit
<1>4. UNCHANGED <<now, rows, unborn, joined, lost, torn>>
  BY DEF RulesRead
<1>5. r \in Rows' /\ participants[r] \in ParticipantRow
  BY <1>4 DEF LifecycleInv, RowsFit, Rows, rows
<1>6. participants[r].linked /\ participants[r].account \in Accounts
  BY <1>1, <1>5 DEF Playing, ParticipantRow
<1>7. CallFits(j)'
  BY <1>3, <1>5, <1>6 DEF CallFits, ParticipantRow
<1> QED
  BY <1>2, <1>4, <1>7, LookingKeeps

------------------------------------------------------------------------------
(***************************************************************************)
(* The steps that write the marathon and its members.                      *)
(***************************************************************************)

\* A saved marathon is a row; nobody who saves it has read that it was gone.
LEMMA EditsAreRows ==
  ASSUME now \in Nat, NEW m \in MarathonRow, NEW e \in Edits(m)
  PROVE  e \in MarathonRow /\ e.players = m.players
<1>1. CASE \E d \in Dates : e = Redated(m, d)
  <2>1. PICK d \in Dates : e = Redated(m, d)
    BY <1>1
  <2>2. d[1] \in Nat /\ d[2] \in Nat
    BY LifecycleAssumption
  <2> QED
    BY <2>1, <2>2 DEF Redated, MarathonRow, Statuses, LifecycleStatus
<1>2. CASE \E s \in GivenStatuses : e = [m EXCEPT !.status = s]
  BY <1>2, LifecycleAssumption DEF MarathonRow
<1>3. CASE \E b \in BOOLEAN : e = [m EXCEPT !.isActive = b]
  BY <1>3 DEF MarathonRow
<1> QED
  BY <1>1, <1>2, <1>3 DEF Edits

\* Where no account and no link is written, the links hold.
LEMMA LinksKept ==
  ASSUME NamedAreThere, LinksFit, UNCHANGED <<accounts, torn>>, Rows' = Rows,
         \A r \in Rows : participants'[r].account = participants[r].account
  PROVE  NamedAreThere' /\ LinksFit'
BY DEF NamedAreThere, LinksFit, OnlyTornLinksDiffer, SharersAreTorn

LEMMA UpdateSaveKeeps ==
  ASSUME LifecycleInv, served' \in Nat, NEW q \in Workers, UpdateSave(q)
  PROVE  LifecycleInv'
<1> DEFINE c == call[q]
<1>1. c.base \in MarathonRow /\ c.base # NoRow
  BY DEF LifecycleInv, CallsFit, CallFits, UpdateSave
<1>2. PICK m \in Edits(c.base) : SaveMarathon(m, c)
  BY DEF UpdateSave
<1>3. m \in MarathonRow /\ m.players = c.base.players
  BY <1>1, EditsAreRows DEF LifecycleInv, RowsFit
<1>4. participants' \in Seq(ParticipantRow) /\ Len(participants') = Len(participants)
  <2>1. ASSUME NEW r \in Rows
        PROVE  [participants[r] EXCEPT !.linked = r \in c.members] \in ParticipantRow
    <3>1. participants[r] \in ParticipantRow
      BY EachIsARow DEF LifecycleInv
    <3>2. (r \in c.members) \in BOOLEAN
      OBVIOUS
    <3> QED
      BY <3>1, <3>2 DEF ParticipantRow
  <2>2. Rows = 1..Len(participants) /\ Len(participants) \in Nat
    BY DEF LifecycleInv, RowsFit, Rows
  <2>3. participants' = [r \in Rows |-> [participants[r] EXCEPT !.linked = r \in c.members]]
    BY DEF UpdateSave
  <2> HIDE DEF c
  <2> QED
    BY <2>1, <2>2, <2>3
<1>5. Rows' = Rows
  BY <1>4 DEF LifecycleInv, RowsFit, Rows
<1>6. UNCHANGED <<now, accounts, unborn, joined, torn>> /\ Finish(q)
  BY DEF UpdateSave
<1>7. RowsFit'
  BY <1>2, <1>3, <1>4, <1>5, <1>6 DEF LifecycleInv, RowsFit, SaveMarathon, AccountRow, MarathonRow,
     ParticipantRow
<1>8. CallsFit'
  <2>1. participants \in Seq(ParticipantRow)
    BY DEF LifecycleInv, RowsFit
  <2>2. CallFits(q)' /\ call' = [call EXCEPT ![q] = Idle]
    BY <1>6, FinishFits DEF LifecycleInv
  <2>3. Len(participants) <= Len(participants') /\ unborn' \subseteq unborn /\ CallsFit
    BY <1>4, <1>6, <2>1 DEF LifecycleInv
  <2> QED
    BY <1>4, <2>1, <2>2, <2>3, OneCallMoves
<1>9. ASSUME NEW r \in Rows
      PROVE  /\ participants'[r].account = participants[r].account
             /\ participants'[r].isActive = participants[r].isActive
             /\ participants'[r].linked = (r \in c.members)
  <2>1. participants[r] \in ParticipantRow
    BY EachIsARow DEF LifecycleInv
  <2>2. participants'[r] = [participants[r] EXCEPT !.linked = r \in c.members]
    BY DEF UpdateSave
  <2> QED
    BY <2>1, <2>2 DEF ParticipantRow
<1>10. NamedAreThere' /\ LinksFit'
  BY <1>5, <1>6, <1>9, LinksKept DEF LifecycleInv
<1>11. OnlyLostWritesMiscount'
  <2> SUFFICES ASSUME ~lost'
      PROVE  /\ marathon'.players = joined
             /\ \A r \in Rows : participants'[r].linked
             /\ Cardinality({r \in Rows : Playing(r)}') <= marathon'.players
    BY <1>5, <1>6 DEF OnlyLostWritesMiscount
  <2>1. ~lost /\ marathon = c.base /\ Linked = c.members
    BY <1>2 DEF SaveMarathon, UpdateSave
  <2>2. /\ marathon.players = joined
        /\ \A r \in Rows : participants[r].linked
        /\ Cardinality({r \in Rows : Playing(r)}) <= marathon.players
    BY <1>1, <2>1 DEF LifecycleInv, OnlyLostWritesMiscount
  <2>3. \A r \in Rows : participants'[r].linked
    BY <1>9, <2>1, <2>2 DEF Linked
  <2>4. {r \in Rows : Playing(r)}' = {r \in Rows : Playing(r)}
    BY <1>5, <1>9, <2>2, <2>3 DEF Playing
  <2>5. marathon'.players = marathon.players
    BY <1>2, <1>3, <2>1 DEF SaveMarathon
  <2> QED
    BY <2>2, <2>3, <2>4, <2>5
<1> QED
  BY <1>7, <1>8, <1>10, <1>11 DEF LifecycleInv

\* Steps that write the marathon alone.
LEMMA MarathonAloneKeeps ==
  ASSUME LifecycleInv, served' \in Nat, UNCHANGED <<now, participants, accounts, unborn, joined, torn>>,
         NEW q \in Workers, Finish(q), marathon' \in MarathonRow \cup {NoRow}, OnlyLostWritesMiscount'
  PROVE  LifecycleInv'
<1>1. RowsFit'
  BY DEF LifecycleInv, RowsFit, AccountRow, MarathonRow, ParticipantRow, Rows
<1>2. CallsFit'
  <2>1. CallFits(q)' /\ call' = [call EXCEPT ![q] = Idle]
    BY FinishFits DEF LifecycleInv
  <2>2. participants \in Seq(ParticipantRow) /\ Len(participants) <= Len(participants')
    BY DEF LifecycleInv, RowsFit
  <2> QED
    BY <2>1, <2>2, OneCallMoves DEF LifecycleInv
<1>3. NamedAreThere' /\ LinksFit'
  BY LinksKept DEF LifecycleInv, Rows
<1> QED
  BY <1>1, <1>2, <1>3 DEF LifecycleInv

LEMMA RemoveMarathonKeeps ==
  ASSUME LifecycleInv, served' \in Nat, NEW q \in Workers, RemoveMarathon(q)
  PROVE  LifecycleInv'
<1>1. UNCHANGED <<now, participants, accounts, unborn, joined, lost, torn>> /\ Finish(q)
  BY DEF RemoveMarathon
<1>2. marathon' \in {marathon, NoRow}
  BY DEF RemoveMarathon
<1>3. OnlyLostWritesMiscount'
  BY <1>1, <1>2 DEF LifecycleInv, OnlyLostWritesMiscount, Rows, Playing
<1> QED
  BY <1>1, <1>2, <1>3, MarathonAloneKeeps DEF LifecycleInv, RowsFit

LEMMA SyncSaveKeeps ==
  ASSUME LifecycleInv, served' \in Nat, NEW j \in Workers, SyncSave(j)
  PROVE  LifecycleInv'
<1> DEFINE c == call[j]
<1>1. c.base \in MarathonRow /\ c.base # NoRow /\ c.status \in Statuses
  BY DEF LifecycleInv, CallsFit, CallFits, SyncSave
<1>2. /\ marathon' = [c.base EXCEPT !.status = c.status]
      /\ ~lost' => ~lost /\ marathon = c.base
  BY DEF SyncSave, SaveMarathon
<1>3. UNCHANGED <<now, participants, accounts, unborn, joined, torn>> /\ Finish(j)
  BY DEF SyncSave
<1>4. marathon' \in MarathonRow /\ marathon'.players = c.base.players
  BY <1>1, <1>2 DEF MarathonRow
<1>5. OnlyLostWritesMiscount'
  BY <1>1, <1>2, <1>3, <1>4 DEF LifecycleInv, OnlyLostWritesMiscount, Rows, Playing
<1> QED
  BY <1>3, <1>4, <1>5, MarathonAloneKeeps

\* How many there are when one comes or goes.
LEMMA OneMoreAtMost ==
  ASSUME NEW P, IsFiniteSet(P), NEW r, NEW Q, Q \subseteq P \cup {r}
  PROVE  Cardinality(Q) \in Nat /\ Cardinality(Q) <= Cardinality(P) + 1
<1>1. IsFiniteSet(P \cup {r})
  BY FS_AddElement
<1>2. Cardinality(P) \in Nat /\ Cardinality(P \cup {r}) \in Nat
  BY <1>1, FS_CardinalityType
<1>3. Cardinality(P \cup {r}) = IF r \in P THEN Cardinality(P) ELSE Cardinality(P) + 1
  BY FS_AddElement
<1>4. IsFiniteSet(Q) /\ Cardinality(Q) <= Cardinality(P \cup {r})
  BY <1>1, FS_Subset
<1>5. Cardinality(Q) \in Nat
  BY <1>4, FS_CardinalityType
<1> QED
  BY <1>2, <1>3, <1>4, <1>5

LEMMA OneLessAtLeast ==
  ASSUME NEW P, IsFiniteSet(P), NEW r \in P, NEW Q, Q \subseteq P \ {r}
  PROVE  /\ Cardinality(P) >= 1
         /\ Cardinality(Q) \in Nat
         /\ Cardinality(Q) <= Cardinality(P) - 1
<1>1. IsFiniteSet(P \ {r}) /\ Cardinality(P \ {r}) = Cardinality(P) - 1
  BY FS_RemoveElement
<1>2. IsFiniteSet(Q) /\ Cardinality(Q) <= Cardinality(P \ {r})
  BY <1>1, FS_Subset
<1>3. Cardinality(P) \in Nat /\ Cardinality(P \ {r}) \in Nat /\ Cardinality(Q) \in Nat
  BY <1>1, <1>2, FS_CardinalityType
<1> QED
  BY <1>1, <1>2, <1>3

LEMMA PlayersAreFinite ==
  ASSUME RowsFit
  PROVE  IsFiniteSet({r \in Rows : Playing(r)})
<1>1. Rows = 1..Len(participants) /\ Len(participants) \in Nat
  BY DEF RowsFit, Rows
<1>2. IsFiniteSet(Rows)
  BY <1>1, FS_Interval
<1>3. {r \in Rows : Playing(r)} \in SUBSET Rows
  OBVIOUS
<1> QED
  BY <1>2, <1>3, FS_Subset, Zenon

\* One participant's row is replaced.
LEMMA RowReplaced ==
  ASSUME participants \in Seq(ParticipantRow), NEW r \in Rows, NEW row \in ParticipantRow,
         participants' = [participants EXCEPT ![r] = row]
  PROVE  /\ participants' \in Seq(ParticipantRow)
         /\ Len(participants') = Len(participants)
         /\ Rows' = Rows
         /\ participants'[r] = row
         /\ \A p \in Rows \ {r} : participants'[p] = participants[p]
BY DEF Rows

\* What joins and cancellations make of the marathon's row.
LEMMA PlacesAreRows ==
  ASSUME NEW m \in MarathonRow
  PROVE  /\ [m EXCEPT !.players = @ + 1] \in MarathonRow
         /\ [m EXCEPT !.players = @ + 1].players = m.players + 1
         /\ OneLess(m) \in MarathonRow
         /\ m.players \in Nat
         /\ m.players > 0 => OneLess(m).players = m.players - 1
BY DEF MarathonRow, OneLess

\* Accounts and calls when one participant's columns change or one is added.
LEMMA AddingKeeps ==
  ASSUME LifecycleInv, served' \in Nat, UNCHANGED <<now, unborn>>,
         participants' \in Seq(ParticipantRow), Len(participants) <= Len(participants'),
         marathon' \in MarathonRow \cup {NoRow}, joined' \in Int,
         accounts' \in [Accounts -> AccountRow \cup {NoRow}],
         \A a \in unborn : accounts'[a] = NoRow,
         NEW q \in Workers, NEW c, call' = [call EXCEPT ![q] = c], CallFits(q)'
  PROVE  RowsFit' /\ CallsFit'
<1>1. participants \in Seq(ParticipantRow) /\ CallsFit /\ unborn' \subseteq unborn
  BY DEF LifecycleInv, RowsFit
<1>2. CallsFit'
  BY <1>1, OneCallMoves
<1>3. Rows \subseteq Rows'
  BY <1>1 DEF Rows
<1>4. AccountRow \subseteq AccountRow'
  BY <1>3 DEF AccountRow
<1>5. accounts' \in [Accounts -> AccountRow' \cup {NoRow}]
  BY <1>4
<1>6. RowsFit'
  BY <1>5 DEF LifecycleInv, RowsFit, MarathonRow, ParticipantRow
<1> QED
  BY <1>2, <1>6

LEMMA JoinCommitReactivates ==
  ASSUME LifecycleInv, served' \in Nat, NEW q \in Workers, call[q].op = "join",
         NEW r \in RowsOf(call[q].user),
         participants' = [participants EXCEPT ![r].isActive = TRUE],
         Continue(q, [op |-> "attach", row |-> r]),
         SaveMarathon([call[q].base EXCEPT !.players = @ + 1], call[q]),
         joined' = joined + 1, UNCHANGED <<now, accounts, unborn, torn>>
  PROVE  LifecycleInv'
<1> DEFINE c == call[q]
<1>1. c.base \in MarathonRow /\ c.base # NoRow
  BY DEF LifecycleInv, CallsFit, CallFits
<1>2. /\ marathon' = [c.base EXCEPT !.players = @ + 1]
      /\ ~lost' => ~lost /\ marathon = c.base
  BY DEF SaveMarathon
<1>3. marathon' \in MarathonRow /\ marathon'.players = c.base.players + 1
  BY <1>1, <1>2, PlacesAreRows
<1>4. participants \in Seq(ParticipantRow) /\ r \in Rows /\ participants[r] \in ParticipantRow
  BY EachIsARow DEF LifecycleInv, RowsFit, RowsOf, Linked
<1> DEFINE row == [participants[r] EXCEPT !.isActive = TRUE]
<1>a. row \in ParticipantRow /\ row.account = participants[r].account
      /\ row.linked = participants[r].linked
  BY <1>4 DEF ParticipantRow
<1>b. participants' = [participants EXCEPT ![r] = row]
  OBVIOUS
<1>5. /\ participants' \in Seq(ParticipantRow)
      /\ Len(participants') = Len(participants)
      /\ Rows' = Rows
      /\ participants'[r] = row
      /\ \A p \in Rows \ {r} : participants'[p] = participants[p]
  <2> HIDE DEF row
  <2> QED
    BY <1>4, <1>a, <1>b, RowReplaced
<1>6. ASSUME NEW p \in Rows
      PROVE  /\ participants'[p].account = participants[p].account
             /\ participants'[p].linked = participants[p].linked
             /\ p # r => participants'[p].isActive = participants[p].isActive
  <2> HIDE DEF row
  <2> QED
    BY <1>a, <1>5
<1>7. CallFits(q)' /\ call' = [call EXCEPT ![q] = [op |-> "attach", row |-> r]]
  BY <1>4, <1>5 DEF LifecycleInv, CallsFit, CallFits, Continue
<1>8. RowsFit' /\ CallsFit'
  <2>1. accounts' \in [Accounts -> AccountRow \cup {NoRow}] /\ joined' \in Int
        /\ \A a \in unborn : accounts'[a] = NoRow
    BY DEF LifecycleInv, RowsFit
  <2>2. Len(participants) <= Len(participants')
    BY <1>4, <1>5
  <2> QED
    BY <1>3, <1>5, <1>7, <2>1, <2>2, AddingKeeps
<1>9. NamedAreThere' /\ LinksFit'
  BY <1>5, <1>6, LinksKept DEF LifecycleInv
<1>10. OnlyLostWritesMiscount'
  <2> SUFFICES ASSUME ~lost'
      PROVE  /\ marathon'.players = joined'
             /\ \A p \in Rows : participants'[p].linked
             /\ Cardinality({p \in Rows : Playing(p)}') <= marathon'.players
    BY <1>5 DEF OnlyLostWritesMiscount
  <2>1. /\ marathon.players = joined
        /\ \A p \in Rows : participants[p].linked
        /\ Cardinality({p \in Rows : Playing(p)}) <= marathon.players
        /\ marathon'.players = marathon.players + 1
    BY <1>1, <1>2, <1>3 DEF LifecycleInv, OnlyLostWritesMiscount
  <2>2. {p \in Rows : Playing(p)}' \subseteq {p \in Rows : Playing(p)} \cup {r}
    BY <1>5, <1>6 DEF Playing
  <2>3. IsFiniteSet({p \in Rows : Playing(p)})
    BY PlayersAreFinite DEF LifecycleInv
  <2>4. /\ Cardinality({p \in Rows : Playing(p)}') \in Nat
        /\ Cardinality({p \in Rows : Playing(p)}') <= Cardinality({p \in Rows : Playing(p)}) + 1
    BY <2>2, <2>3, OneMoreAtMost
  <2>5. marathon.players \in Nat /\ Cardinality({p \in Rows : Playing(p)}) \in Nat
    BY <1>1, <1>2, <2>3, PlacesAreRows, FS_CardinalityType
  <2> QED
    BY <1>6, <2>1, <2>4, <2>5
<1> QED
  BY <1>8, <1>9, <1>10 DEF LifecycleInv

\* Nor does a participant without an account disturb them.
LEMMA RowAdded ==
  ASSUME RowsFit, NamedAreThere, LinksFit, UNCHANGED <<accounts, torn>>,
         NEW r, r \notin Rows, r # NoLink, Rows' = Rows \cup {r},
         participants'[r].account = NoLink,
         \A p \in Rows : participants'[p] = participants[p]
  PROVE  NamedAreThere' /\ LinksFit'
<1>1. NamedAreThere'
  BY DEF NamedAreThere
<1>2. \A a \in Accounts : a # NoLink
  BY LifecycleAssumption DEF Accounts, NoLink
<1>3. \A a \in Accounts : accounts[a] # NoRow => accounts[a].participant # r
  BY DEF RowsFit, AccountRow
<1>4. LinksFit'
  BY <1>2, <1>3 DEF LinksFit, OnlyTornLinksDiffer, SharersAreTorn
<1> QED
  BY <1>1, <1>4

LEMMA JoinCommitInserts ==
  ASSUME LifecycleInv, served' \in Nat, NEW q \in Workers, call[q].op = "join",
         NEW row, row = [user |-> call[q].user, linked |-> TRUE, isActive |-> TRUE,
                         disqualified |-> FALSE, account |-> NoLink],
         participants' = Append(participants, row),
         Continue(q, [op |-> "attach", row |-> Len(participants) + 1]),
         SaveMarathon([call[q].base EXCEPT !.players = @ + 1], call[q]),
         joined' = joined + 1, UNCHANGED <<now, accounts, unborn, torn>>
  PROVE  LifecycleInv'
<1> DEFINE c == call[q]
           r == Len(participants) + 1
<1>1. c.base \in MarathonRow /\ c.base # NoRow /\ row \in ParticipantRow
  BY DEF LifecycleInv, CallsFit, CallFits, ParticipantRow
<1>2. /\ marathon' = [c.base EXCEPT !.players = @ + 1]
      /\ ~lost' => ~lost /\ marathon = c.base
  BY DEF SaveMarathon
<1>3. marathon' \in MarathonRow /\ marathon'.players = c.base.players + 1
  BY <1>1, <1>2, PlacesAreRows
<1>4. participants \in Seq(ParticipantRow) /\ Len(participants) \in Nat
  BY DEF LifecycleInv, RowsFit
<1>5. /\ participants' \in Seq(ParticipantRow)
      /\ Len(participants') = Len(participants) + 1
      /\ participants'[r] = row
      /\ \A p \in Rows : participants'[p] = participants[p]
  <2> HIDE DEF r
  <2> QED
    BY <1>1, <1>4 DEF Rows, r
<1>6. Rows' = Rows \cup {r} /\ r \notin Rows /\ r # NoLink
  BY <1>4, <1>5 DEF Rows, NoLink
<1>7. CallFits(q)' /\ call' = [call EXCEPT ![q] = [op |-> "attach", row |-> r]]
  BY <1>6 DEF LifecycleInv, CallsFit, CallFits, Continue
<1>8. RowsFit' /\ CallsFit'
  <2>1. accounts' \in [Accounts -> AccountRow \cup {NoRow}] /\ joined' \in Int
        /\ \A a \in unborn : accounts'[a] = NoRow
    BY DEF LifecycleInv, RowsFit
  <2>2. Len(participants) <= Len(participants')
    BY <1>4, <1>5
  <2> QED
    BY <1>3, <1>5, <1>7, <2>1, <2>2, AddingKeeps
<1>9. row.account = NoLink /\ row.linked /\ row.isActive
  OBVIOUS
<1>10. NamedAreThere' /\ LinksFit'
  <2>1. participants'[r].account = NoLink
    BY <1>5, <1>9
  <2>2. RowsFit /\ NamedAreThere /\ LinksFit /\ UNCHANGED <<accounts, torn>>
    BY DEF LifecycleInv
  <2> HIDE DEF r
  <2> QED
    BY <1>5, <1>6, <2>1, <2>2, RowAdded
<1>11. OnlyLostWritesMiscount'
  <2> SUFFICES ASSUME ~lost'
      PROVE  /\ marathon'.players = joined'
             /\ \A p \in Rows' : participants'[p].linked
             /\ Cardinality({p \in Rows : Playing(p)}') <= marathon'.players
    BY DEF OnlyLostWritesMiscount
  <2>1. /\ marathon.players = joined
        /\ \A p \in Rows : participants[p].linked
        /\ Cardinality({p \in Rows : Playing(p)}) <= marathon.players
        /\ marathon'.players = marathon.players + 1
    BY <1>1, <1>2, <1>3 DEF LifecycleInv, OnlyLostWritesMiscount
  <2>2. {p \in Rows : Playing(p)}' \subseteq {p \in Rows : Playing(p)} \cup {r}
    BY <1>5, <1>6 DEF Playing
  <2>3. IsFiniteSet({p \in Rows : Playing(p)})
    BY PlayersAreFinite DEF LifecycleInv
  <2>4. /\ Cardinality({p \in Rows : Playing(p)}') \in Nat
        /\ Cardinality({p \in Rows : Playing(p)}') <= Cardinality({p \in Rows : Playing(p)}) + 1
    BY <2>2, <2>3, OneMoreAtMost
  <2>5. marathon.players \in Nat /\ Cardinality({p \in Rows : Playing(p)}) \in Nat
    BY <1>1, <1>2, <2>3, PlacesAreRows, FS_CardinalityType
  <2>6. \A p \in Rows' : participants'[p].linked
    BY <1>5, <1>6, <1>9, <2>1
  <2>7. Cardinality({p \in Rows : Playing(p)}') <= marathon'.players
    BY <2>1, <2>4, <2>5
  <2>8. marathon'.players = joined'
    BY <2>1
  <2> QED
    BY <2>6, <2>7, <2>8
<1> QED
  BY <1>8, <1>10, <1>11 DEF LifecycleInv

LEMMA JoinCommitKeeps ==
  ASSUME LifecycleInv, served' \in Nat, NEW q \in Workers, JoinCommit(q)
  PROVE  LifecycleInv'
<1>1. call[q].op = "join" /\ UNCHANGED <<now, accounts, unborn, torn>>
  BY DEF JoinCommit
<1>2. CASE /\ \E r \in RowsOf(call[q].user) :
                 /\ ~participants[r].isActive
                 /\ participants' = [participants EXCEPT ![r].isActive = TRUE]
                 /\ Continue(q, [op |-> "attach", row |-> r])
           /\ SaveMarathon([call[q].base EXCEPT !.players = @ + 1], call[q])
           /\ joined' = joined + 1
  BY <1>1, <1>2, JoinCommitReactivates
<1>3. CASE /\ participants' = Append(participants,
                 [user |-> call[q].user, linked |-> TRUE, isActive |-> TRUE,
                  disqualified |-> FALSE, account |-> NoLink])
           /\ Continue(q, [op |-> "attach", row |-> Len(participants) + 1])
           /\ SaveMarathon([call[q].base EXCEPT !.players = @ + 1], call[q])
           /\ joined' = joined + 1
  BY <1>1, <1>3, JoinCommitInserts
<1>4. CASE Finish(q) /\ UNCHANGED <<participants, marathon, joined, lost>>
  BY <1>1, <1>4, FinishLooking DEF rows
<1> QED
  BY <1>2, <1>3, <1>4 DEF JoinCommit

\* What is released is one account that named the participant; all else is as it was.
LEMMA ReleasedIsFree ==
  ASSUME RowsFit, NEW r \in Rows, NEW after, after \in Released(r)
  PROVE  /\ after \in [Accounts -> AccountRow \cup {NoRow}]
         /\ \A a \in Accounts :
              /\ after[a] = NoRow <=> accounts[a] = NoRow
              /\ after[a] = accounts[a] \/ (a \in Holders(r) /\ after[a].participant = NoLink)
              /\ Holders(r) = {a} => after[a].participant = NoLink
<1>1. NoRow \notin AccountRow /\ accounts \in [Accounts -> AccountRow \cup {NoRow}]
  BY RowsAreNumbered DEF RowsFit
<1>2. CASE Holders(r) = {}
  BY <1>1, <1>2 DEF Released
<1>3. ASSUME NEW b \in Holders(r), after = [accounts EXCEPT ![b].participant = NoLink]
      PROVE  /\ after \in [Accounts -> AccountRow \cup {NoRow}]
             /\ \A a \in Accounts :
                  /\ after[a] = NoRow <=> accounts[a] = NoRow
                  /\ after[a] = accounts[a] \/ (a \in Holders(r) /\ after[a].participant = NoLink)
                  /\ Holders(r) = {a} => after[a].participant = NoLink
  <2> DEFINE row == [accounts[b] EXCEPT !.participant = NoLink]
  <2>1. b \in Accounts /\ accounts[b] \in AccountRow
    BY <1>1 DEF Holders
  <2>2. row \in AccountRow /\ row.participant = NoLink
    BY <2>1 DEF AccountRow
  <2>3. after = [accounts EXCEPT ![b] = row]
    BY <1>3
  <2> HIDE DEF row
  <2>4. after[b] = row /\ \A a \in Accounts \ {b} : after[a] = accounts[a]
    BY <1>1, <2>1, <2>3
  <2>5. \A a \in Accounts : Holders(r) = {a} => a = b
    BY <1>3
  <2> QED
    BY <1>1, <1>3, <2>1, <2>2, <2>3, <2>4, <2>5
<1> QED
  BY <1>2, <1>3 DEF Released

LEMMA CancelKeeps ==
  ASSUME LifecycleInv, served' \in Nat, NEW q \in Workers, NEW u \in Users, Cancel(q, u)
  PROVE  LifecycleInv'
<1>1. Finish(q) /\ UNCHANGED <<now, unborn, lost, torn>>
  BY DEF Cancel
<1>2. CASE UNCHANGED <<rows, joined>>
  BY <1>1, <1>2, FinishLooking
<1>3. ASSUME marathon # NoRow, NEW r \in RowsOf(u), participants[r].isActive,
             participants' = [participants EXCEPT ![r].isActive = FALSE, ![r].account = NoLink],
             accounts' \in Released(r), marathon' = OneLess(marathon), joined' = joined - 1
      PROVE  LifecycleInv'
  <2> DEFINE row == [participants[r] EXCEPT !.isActive = FALSE, !.account = NoLink]
  <2>1. /\ participants \in Seq(ParticipantRow)
        /\ r \in Rows /\ participants[r].linked
        /\ participants[r] \in ParticipantRow
    BY EachIsARow DEF LifecycleInv, RowsFit, RowsOf, Linked
  <2>2. row \in ParticipantRow /\ row.account = NoLink
        /\ row.linked = participants[r].linked /\ ~row.isActive
    BY <2>1 DEF ParticipantRow
  <2>3. participants' = [participants EXCEPT ![r] = row]
    BY <1>3
  <2> HIDE DEF row
  <2>4. /\ participants' \in Seq(ParticipantRow)
        /\ Len(participants') = Len(participants)
        /\ Rows' = Rows
        /\ participants'[r] = row
        /\ \A p \in Rows \ {r} : participants'[p] = participants[p]
    BY <2>1, <2>2, <2>3, RowReplaced
  <2>5. /\ accounts' \in [Accounts -> AccountRow \cup {NoRow}]
        /\ \A a \in Accounts :
             /\ accounts'[a] = NoRow <=> accounts[a] = NoRow
             /\ accounts'[a] = accounts[a] \/ (a \in Holders(r) /\ accounts'[a].participant = NoLink)
             /\ Holders(r) = {a} => accounts'[a].participant = NoLink
    BY <1>3, <2>1, ReleasedIsFree DEF LifecycleInv
  <2>6. marathon \in MarathonRow /\ marathon' \in MarathonRow
    BY <1>3, PlacesAreRows DEF LifecycleInv, RowsFit
  <2>7. RowsFit' /\ CallsFit'
    <3>1. CallFits(q)' /\ call' = [call EXCEPT ![q] = Idle]
      BY <1>1, FinishFits DEF LifecycleInv
    <3>2. joined' \in Int /\ (\A a \in unborn : accounts'[a] = NoRow)
          /\ Len(participants) <= Len(participants')
      BY <1>3, <2>1, <2>4, <2>5 DEF LifecycleInv, RowsFit
    <3> QED
      BY <1>1, <1>3, <2>4, <2>5, <2>6, <3>1, <3>2, AddingKeeps
  <2>8. r # NoLink /\ (\A a \in Accounts : a # NoLink)
    BY <2>1, LifecycleAssumption DEF Accounts, NoLink, Rows
  <2>9. NamedAreThere' /\ LinksFit'
    <3>1. NamedAreThere /\ OnlyTornLinksDiffer /\ SharersAreTorn /\ RowsFit
      BY DEF LifecycleInv, LinksFit
    <3>2. \A p \in Rows : participants[p].account \in {NoLink} \cup Accounts
      BY <3>1, EachIsARow DEF ParticipantRow
    <3>3. NamedAreThere'
      <4> SUFFICES ASSUME NEW p \in Rows, participants'[p].account # NoLink
                   PROVE  accounts'[participants'[p].account] # NoRow
        BY <2>4 DEF NamedAreThere
      <4>1. participants'[p] = participants[p]
        BY <2>2, <2>4
      <4>2. participants[p].account \in Accounts /\ accounts[participants[p].account] # NoRow
        BY <3>1, <3>2, <4>1 DEF NamedAreThere
      <4> QED
        BY <2>5, <4>1, <4>2
    <3>4. ASSUME NEW a \in Accounts \ torn, NEW p \in Rows
          PROVE  (accounts'[a] # NoRow /\ accounts'[a].participant = p)
                 <=> participants'[p].account = a
      <4>1. (accounts[a] # NoRow /\ accounts[a].participant = p) <=> participants[p].account = a
        BY <3>1 DEF OnlyTornLinksDiffer
      <4>2. p # NoLink
        BY <2>1 DEF Rows, NoLink
      <4>3. a \in Holders(r) => Holders(r) = {a}
        BY <3>1 DEF SharersAreTorn, Holders
      <4>4. CASE p = r
        <5>1. participants'[p].account # a
          BY <2>2, <2>4, <2>8, <4>4
        <5>2. ~(accounts'[a] # NoRow /\ accounts'[a].participant = r)
          <6>1. CASE a \in Holders(r)
            BY <2>5, <2>8, <4>3, <6>1
          <6>2. CASE a \notin Holders(r)
            BY <2>5, <2>8, <6>2 DEF Holders
          <6> QED
            BY <6>1, <6>2
        <5> QED
          BY <4>4, <5>1, <5>2
      <4>5. CASE p # r
        <5>1. participants'[p] = participants[p]
          BY <2>4, <4>5
        <5>2. CASE accounts'[a] = accounts[a]
          BY <4>1, <5>1, <5>2
        <5>3. CASE a \in Holders(r) /\ accounts'[a].participant = NoLink
          <6>1. participants[p].account # a
            BY <4>1, <4>5, <5>3 DEF Holders
          <6> QED
            BY <4>2, <5>1, <5>3, <6>1
        <5> QED
          BY <2>5, <5>2, <5>3
      <4> QED
        BY <4>4, <4>5
    <3>5. SharersAreTorn'
      BY <1>1, <2>5, <3>1 DEF SharersAreTorn
    <3> QED
      BY <1>1, <2>4, <3>3, <3>4, <3>5 DEF LinksFit, OnlyTornLinksDiffer
  <2>10. OnlyLostWritesMiscount'
    <3> SUFFICES ASSUME ~lost
        PROVE  /\ marathon'.players = joined'
               /\ \A p \in Rows : participants'[p].linked
               /\ Cardinality({p \in Rows : Playing(p)}') <= marathon'.players
      BY <1>1, <2>4 DEF OnlyLostWritesMiscount
    <3>1. /\ marathon.players = joined
          /\ \A p \in Rows : participants[p].linked
          /\ Cardinality({p \in Rows : Playing(p)}) <= marathon.players
      BY <1>3 DEF LifecycleInv, OnlyLostWritesMiscount
    <3>2. r \in {p \in Rows : Playing(p)}
      BY <1>3, <2>1 DEF Playing
    <3>3. {p \in Rows : Playing(p)}' \subseteq {p \in Rows : Playing(p)} \ {r}
      BY <2>2, <2>4 DEF Playing
    <3>4. IsFiniteSet({p \in Rows : Playing(p)})
      BY PlayersAreFinite DEF LifecycleInv
    <3>5. /\ Cardinality({p \in Rows : Playing(p)}) >= 1
          /\ Cardinality({p \in Rows : Playing(p)}') \in Nat
          /\ Cardinality({p \in Rows : Playing(p)}') <= Cardinality({p \in Rows : Playing(p)}) - 1
      BY <3>2, <3>3, <3>4, OneLessAtLeast
    <3>6. Cardinality({p \in Rows : Playing(p)}) \in Nat /\ marathon.players \in Nat
      BY <2>6, <3>4, PlacesAreRows, FS_CardinalityType
    <3>7. marathon'.players = marathon.players - 1
      <4>1. marathon.players > 0
        BY <3>1, <3>5, <3>6
      <4>2. OneLess(marathon).players = marathon.players - 1
        BY <2>6, <4>1, PlacesAreRows
      <4> QED
        BY <1>3, <4>2
    <3>8. \A p \in Rows : participants'[p].linked
      BY <2>1, <2>2, <2>4, <3>1
    <3>9. marathon'.players = joined'
      BY <1>3, <3>1, <3>7
    <3>10. Cardinality({p \in Rows : Playing(p)}') <= marathon'.players
      BY <3>1, <3>5, <3>6, <3>7
    <3> QED
      BY <3>8, <3>9, <3>10
  <2> QED
    BY <2>7, <2>9, <2>10 DEF LifecycleInv
<1> QED
  BY <1>1, <1>2, <1>3 DEF Cancel

------------------------------------------------------------------------------
(***************************************************************************)
(* The steps that write accounts and links.                                *)
(***************************************************************************)

\* A free account goes to a participant, whose former account is torn, and so is who shares it.
LEMMA LinkKeeps ==
  ASSUME LifecycleInv, served' \in Nat, NEW a \in Accounts, NEW r \in Rows,
         accounts[a] # NoRow, accounts[a].participant = NoLink, Link(a, r),
         UNCHANGED <<now, marathon, unborn, joined, lost>>,
         NEW q \in Workers, NEW c, call' = [call EXCEPT ![q] = c],
         Rows' = Rows => CallFits(q)'
  PROVE  LifecycleInv'
<1> DEFINE row == [participants[r] EXCEPT !.account = a]
           given == [accounts[a] EXCEPT !.participant = r]
<1>1. participants \in Seq(ParticipantRow) /\ participants[r] \in ParticipantRow
  BY EachIsARow DEF LifecycleInv, RowsFit
<1>2. row \in ParticipantRow /\ row.account = a
      /\ row.linked = participants[r].linked /\ row.isActive = participants[r].isActive
  BY <1>1 DEF ParticipantRow
<1>3. participants' = [participants EXCEPT ![r] = row]
  BY DEF Link
<1> HIDE DEF row
<1>4. /\ participants' \in Seq(ParticipantRow)
      /\ Len(participants') = Len(participants)
      /\ Rows' = Rows
      /\ participants'[r] = row
      /\ \A p \in Rows \ {r} : participants'[p] = participants[p]
  BY <1>1, <1>2, <1>3, RowReplaced
<1>5. a \in Existing /\ accounts[a] \in AccountRow /\ NoRow \notin AccountRow
  BY RowsExist, RowsAreNumbered DEF LifecycleInv
<1>6. given \in AccountRow /\ given.participant = r /\ given # NoRow
  BY <1>5 DEF AccountRow
<1>7. accounts \in [Accounts -> AccountRow \cup {NoRow}] /\ \A b \in unborn : accounts[b] = NoRow
  BY DEF LifecycleInv, RowsFit
<1>8. accounts' = [accounts EXCEPT ![a] = given]
  BY DEF Link
<1> HIDE DEF given
<1>9. accounts'[a] = given /\ \A b \in Accounts \ {a} : accounts'[b] = accounts[b]
  BY <1>7, <1>8
<1>10. RowsFit' /\ CallsFit'
  <2>1. accounts' \in [Accounts -> AccountRow \cup {NoRow}]
        /\ \A b \in unborn : accounts'[b] = NoRow
    BY <1>5, <1>6, <1>7, <1>8 DEF Existing
  <2>2. Len(participants) <= Len(participants') /\ joined' \in Int
        /\ marathon' \in MarathonRow \cup {NoRow}
    BY <1>1, <1>4 DEF LifecycleInv, RowsFit
  <2> QED
    BY <1>4, <2>1, <2>2, AddingKeeps
<1>11. \A b \in Accounts : b # NoLink
  BY LifecycleAssumption DEF Accounts, NoLink
<1>12. NamedAreThere'
  BY <1>2, <1>4, <1>6, <1>9, EachIsARow DEF LifecycleInv, NamedAreThere, ParticipantRow
<1>13. LinksFit'
  <2>1. ASSUME NEW b \in Accounts \ torn', NEW p \in Rows
        PROVE  (accounts'[b] # NoRow /\ accounts'[b].participant = p)
               <=> participants'[p].account = b
    <3>1. b \notin torn /\ (participants[r].account # b)
      BY <1>11 DEF Link
    <3>2. (accounts[b] # NoRow /\ accounts[b].participant = p) <=> participants[p].account = b
      BY <3>1 DEF LifecycleInv, LinksFit, OnlyTornLinksDiffer, SharersAreTorn
    <3>3. (accounts[b] # NoRow /\ accounts[b].participant = r) <=> participants[r].account = b
      BY <3>1 DEF LifecycleInv, LinksFit, OnlyTornLinksDiffer, SharersAreTorn
    <3>4. p # NoLink /\ r # NoLink
      BY <1>1 DEF Rows, NoLink
    <3>5. CASE p = r /\ b = a
      BY <1>2, <1>4, <1>6, <1>9, <3>5
    <3>6. CASE p = r /\ b # a
      BY <1>2, <1>4, <1>9, <3>1, <3>3, <3>6
    <3>7. CASE p # r /\ b = a
      BY <1>4, <1>6, <1>9, <3>2, <3>4, <3>7
    <3>8. CASE p # r /\ b # a
      BY <1>4, <1>9, <3>2, <3>8
    <3> QED
      BY <3>5, <3>6, <3>7, <3>8
  <2>2. ASSUME NEW b \in Accounts, NEW d \in Accounts, b # d,
               accounts'[b] # NoRow, accounts'[d] # NoRow,
               accounts'[b].participant = accounts'[d].participant,
               accounts'[b].participant # NoLink
        PROVE  b \in torn'
    <3>1. torn \cup Sharing(a, r) \subseteq torn'
      BY DEF Link
    <3>2. r # NoLink
      BY <1>1 DEF Rows, NoLink
    <3>3. CASE b # a /\ d # a
      <4>1. accounts'[b] = accounts[b] /\ accounts'[d] = accounts[d]
        BY <1>9, <3>3
      <4>2. SharersAreTorn
        BY DEF LifecycleInv, LinksFit
      <4>3. b \in torn
        BY <2>2, <4>1, <4>2 DEF SharersAreTorn
      <4> QED
        BY <3>1, <4>3
    <3>4. CASE b = a \/ d = a
      <4>1. PICK e \in {b, d} : e # a
        BY <2>2
      <4>2. accounts[e] # NoRow /\ accounts[e].participant = r /\ e \in Accounts
        BY <1>6, <1>9, <2>2, <3>4, <4>1
      <4>3. e \in Holders(r) /\ {e, a} = {b, d}
        BY <2>2, <3>2, <3>4, <4>1, <4>2 DEF Holders
      <4>4. {e, a} \subseteq Sharing(a, r)
        BY <4>1, <4>3 DEF Sharing
      <4> QED
        BY <3>1, <4>3, <4>4
    <3> QED
      BY <3>3, <3>4
  <2> QED
    <3>1. OnlyTornLinksDiffer'
      BY <1>4, <2>1 DEF OnlyTornLinksDiffer
    <3>2. SharersAreTorn'
      BY <2>2 DEF SharersAreTorn
    <3> QED
      BY <3>1, <3>2 DEF LinksFit
<1>14. OnlyLostWritesMiscount'
  BY <1>2, <1>4, MembersKept DEF LifecycleInv
<1> QED
  BY <1>10, <1>12, <1>13, <1>14 DEF LifecycleInv

\* An assignment gives a free account to a participant without one.
LEMMA MayAssignKeeps ==
  ASSUME LifecycleInv, served' \in Nat, NEW a \in Accounts, NEW r \in Rows,
         MayAssign(a, r), Link(a, r), UNCHANGED <<now, marathon, unborn, joined, lost>>,
         NEW q \in Workers, Finish(q)
  PROVE  LifecycleInv'
<1>1. CallFits(q)' /\ call' = [call EXCEPT ![q] = Idle]
  BY FinishFits DEF LifecycleInv
<1> QED
  BY <1>1, LinkKeeps DEF MayAssign

LEMMA AutoAssignKeeps ==
  ASSUME LifecycleInv, served' \in Nat, NEW q \in Workers, AutoAssign(q)
  PROVE  LifecycleInv'
<1>1. Finish(q) /\ UNCHANGED <<now, marathon, unborn, joined, lost>>
  BY DEF AutoAssign
<1>2. call[q].row \in Rows
  BY DEF AutoAssign, LifecycleInv, CallsFit, CallFits
<1>3. CASE \E a \in Accounts : MayAssign(a, call[q].row) /\ Link(a, call[q].row)
  BY <1>1, <1>2, <1>3, MayAssignKeeps
<1>4. CASE UNCHANGED <<accounts, participants, torn>>
  BY <1>1, <1>4, FinishLooking DEF rows
<1> QED
  BY <1>3, <1>4 DEF AutoAssign

LEMMA AssignKeeps ==
  ASSUME LifecycleInv, served' \in Nat, NEW q \in Workers, Assign(q)
  PROVE  LifecycleInv'
BY MayAssignKeeps DEF Assign

\* One account's row is written, participants and marathon are as they were.
LEMMA AccountAloneKeeps ==
  ASSUME LifecycleInv, served' \in Nat, NEW a \in Existing, NEW row \in AccountRow,
         accounts' = [accounts EXCEPT ![a] = row],
         \/ a \in torn' /\ Sharing(a, row.participant) \subseteq torn'
         \/ accounts[a] # NoRow /\ accounts[a].participant = row.participant,
         torn \subseteq torn',
         UNCHANGED <<now, marathon, participants, unborn, joined, lost>>,
         NEW q \in Workers, NEW c, call' = [call EXCEPT ![q] = c],
         CallFits(q)'
  PROVE  LifecycleInv'
<1>1. accounts \in [Accounts -> AccountRow \cup {NoRow}] /\ (\A b \in unborn : accounts[b] = NoRow)
      /\ participants \in Seq(ParticipantRow)
  BY DEF LifecycleInv, RowsFit
<1>2. a \in Accounts /\ a \notin unborn
  BY DEF Existing
<1>3. accounts'[a] = row /\ \A b \in Accounts \ {a} : accounts'[b] = accounts[b]
  BY <1>1, <1>2
<1>4. RowsFit' /\ CallsFit'
  <2>1. accounts' \in [Accounts -> AccountRow \cup {NoRow}]
        /\ \A b \in unborn : accounts'[b] = NoRow
    BY <1>1, <1>2
  <2>2. Len(participants) <= Len(participants') /\ joined' \in Int
        /\ marathon' \in MarathonRow \cup {NoRow}
    BY <1>1 DEF LifecycleInv, RowsFit
  <2> QED
    BY <1>1, <2>1, <2>2, AddingKeeps
<1>5. row # NoRow
  BY RowsAreNumbered DEF LifecycleInv
<1>6. Rows' = Rows
  BY DEF Rows
<1>7. NamedAreThere'
  <2>1. ASSUME NEW r \in Rows, participants[r].account # NoLink
        PROVE  accounts'[participants[r].account] # NoRow
    <3>1. participants[r].account \in Accounts /\ accounts[participants[r].account] # NoRow
      BY <2>1, EachIsARow DEF LifecycleInv, NamedAreThere, ParticipantRow
    <3> QED
      BY <1>3, <1>5, <3>1
  <2> QED
    BY <1>6, <2>1 DEF NamedAreThere
<1>8. OnlyTornLinksDiffer'
  BY <1>3, <1>5, <1>6 DEF LifecycleInv, LinksFit, OnlyTornLinksDiffer
<1>10. SharersAreTorn'
  <2> SUFFICES ASSUME NEW b \in Accounts, NEW d \in Accounts, b # d,
                      accounts'[b] # NoRow, accounts'[d] # NoRow,
                      accounts'[b].participant = accounts'[d].participant,
                      accounts'[b].participant # NoLink
               PROVE  b \in torn'
    BY DEF SharersAreTorn
  <2>1. SharersAreTorn
    BY DEF LifecycleInv, LinksFit
  <2>2. CASE b # a /\ d # a
    BY <1>3, <2>1, <2>2 DEF SharersAreTorn
  <2>3. CASE accounts[a] # NoRow /\ accounts[a].participant = row.participant
    BY <1>3, <2>1, <2>3 DEF SharersAreTorn
  <2>4. CASE (b = a \/ d = a) /\ Sharing(a, row.participant) \subseteq torn'
    <3>1. PICK e \in {b, d} : e # a
      BY <2>4
    <3>2. accounts[e] # NoRow /\ accounts[e].participant = row.participant /\ row.participant # NoLink
      BY <1>3, <2>4, <3>1
    <3>3. e \in Holders(row.participant) /\ {e, a} = {b, d}
      BY <2>4, <3>1, <3>2 DEF Holders
    <3>4. {e, a} \subseteq Sharing(a, row.participant)
      BY <3>1, <3>3 DEF Sharing
    <3> QED
      BY <2>4, <3>3, <3>4
  <2> QED
    BY <2>2, <2>3, <2>4
<1>9. OnlyLostWritesMiscount'
  BY <1>6, MembersKept DEF LifecycleInv
<1> QED
  BY <1>4, <1>7, <1>8, <1>9, <1>10 DEF LifecycleInv, LinksFit

LEMMA CreateAccountKeeps ==
  ASSUME LifecycleInv, served' \in Nat, NEW q \in Workers, CreateAccount(q)
  PROVE  LifecycleInv'
<1>1. PICK a \in unborn : unborn' = unborn \ {a} /\ accounts' = [accounts EXCEPT ![a] = NewAccount]
  BY DEF CreateAccount
<1>2. Finish(q) /\ UNCHANGED <<now, marathon, participants, joined, lost, torn>>
  BY DEF CreateAccount
<1>3. /\ a \in Accounts /\ accounts[a] = NoRow
      /\ accounts \in [Accounts -> AccountRow \cup {NoRow}] /\ participants \in Seq(ParticipantRow)
  BY DEF LifecycleInv, RowsFit
<1>4. NewAccount \in AccountRow /\ NewAccount.participant = NoLink /\ NewAccount # NoRow
  <2>1. NewAccount \in AccountRow /\ NewAccount.participant = NoLink
    BY DEF NewAccount, AccountRow
  <2> QED
    BY <2>1, RowsAreNumbered DEF LifecycleInv
<1>5. accounts'[a] = NewAccount /\ \A b \in Accounts \ {a} : accounts'[b] = accounts[b]
  BY <1>1, <1>3
<1>6. Rows' = Rows
  BY <1>2 DEF Rows
<1>7. RowsFit'
  <2>1. accounts' \in [Accounts -> AccountRow \cup {NoRow}]
    BY <1>1, <1>3, <1>4
  <2>2. AccountRow' = AccountRow
    BY <1>6 DEF AccountRow
  <2>3. unborn' \subseteq Accounts /\ \A b \in unborn' : accounts'[b] = NoRow
    BY <1>1, <1>5 DEF LifecycleInv, RowsFit
  <2> QED
    BY <1>2, <2>1, <2>2, <2>3 DEF LifecycleInv, RowsFit, MarathonRow, ParticipantRow
<1>8. CallsFit'
  <2>1. CallFits(q)' /\ call' = [call EXCEPT ![q] = Idle]
    BY <1>2, FinishFits DEF LifecycleInv
  <2>2. Len(participants) <= Len(participants') /\ unborn' \subseteq unborn /\ participants' = participants
    BY <1>1, <1>2, <1>3
  <2> QED
    BY <1>3, <2>1, <2>2, OneCallMoves DEF LifecycleInv
<1>9. \A r \in Rows : participants[r].account # a
  <2> SUFFICES ASSUME NEW r \in Rows, participants[r].account = a PROVE FALSE
    OBVIOUS
  <2>1. a # NoLink
    BY <1>3, LifecycleAssumption DEF Accounts, NoLink
  <2> QED
    BY <1>3, <2>1 DEF LifecycleInv, NamedAreThere
<1>10. NamedAreThere'
  <2>1. ASSUME NEW r \in Rows, participants[r].account # NoLink
        PROVE  accounts'[participants[r].account] # NoRow
    <3>1. participants[r].account \in Accounts /\ accounts[participants[r].account] # NoRow
      BY <2>1, EachIsARow DEF LifecycleInv, NamedAreThere, ParticipantRow
    <3> QED
      BY <1>4, <1>5, <3>1
  <2> QED
    BY <1>2, <1>6, <2>1 DEF NamedAreThere
<1>11. LinksFit'
  <2>1. \A r \in Rows : r # NoLink
    BY <1>3 DEF Rows, NoLink
  <2> QED
    BY <1>2, <1>4, <1>5, <1>6, <1>9, <2>1 DEF LifecycleInv, LinksFit, OnlyTornLinksDiffer, SharersAreTorn
<1>12. OnlyLostWritesMiscount'
  BY <1>2, <1>6, MembersKept DEF LifecycleInv
<1> QED
  BY <1>7, <1>8, <1>10, <1>11, <1>12 DEF LifecycleInv

LEMMA UnassignSaveKeeps ==
  ASSUME LifecycleInv, served' \in Nat, NEW q \in Workers, UnassignSave(q)
  PROVE  LifecycleInv'
<1> DEFINE c == call[q]
           row == [c.base EXCEPT !.participant = NoLink]
<1>1. c.account \in Existing /\ row \in AccountRow
  <2>1. c.account \in Existing /\ c.base \in AccountRow
    BY DEF UnassignSave, LifecycleInv, CallsFit, CallFits
  <2> QED
    BY <2>1 DEF AccountRow
<1>2. /\ accounts' = [accounts EXCEPT ![c.account] = row]
      /\ torn' = torn \cup {c.account}
      /\ Finish(q)
      /\ UNCHANGED <<now, marathon, participants, unborn, joined, lost>>
  BY DEF UnassignSave
<1>3. CallFits(q)' /\ call' = [call EXCEPT ![q] = Idle]
  BY <1>2, FinishFits DEF LifecycleInv
<1>4. Sharing(c.account, row.participant) \subseteq torn'
  <2>1. row.participant = NoLink
    BY <1>1 DEF AccountRow
  <2> QED
    BY <2>1 DEF Sharing, Holders
<1> HIDE DEF row, c
<1> QED
  BY <1>1, <1>2, <1>3, <1>4, AccountAloneKeeps

LEMMA RemoveAccountKeeps ==
  ASSUME LifecycleInv, served' \in Nat, NEW q \in Workers, RemoveAccount(q)
  PROVE  LifecycleInv'
<1> DEFINE a == call[q].account
<1>1. Finish(q) /\ UNCHANGED <<now, marathon, participants, unborn, joined, lost, torn>>
  BY DEF RemoveAccount
<1>2. CASE UNCHANGED accounts
  BY <1>1, <1>2, FinishLooking DEF rows
<1>3. CASE (\A r \in Rows : participants[r].account # a) /\ accounts' = [accounts EXCEPT ![a] = NoRow]
  <2>1. /\ a \in Accounts
        /\ accounts \in [Accounts -> AccountRow \cup {NoRow}] /\ participants \in Seq(ParticipantRow)
    BY DEF RemoveAccount, LifecycleInv, CallsFit, CallFits, Existing, RowsFit
  <2> HIDE DEF a
  <2>2. accounts'[a] = NoRow /\ \A b \in Accounts \ {a} : accounts'[b] = accounts[b]
    BY <1>3, <2>1
  <2>3. RowsFit' /\ CallsFit'
    <3>1. accounts' \in [Accounts -> AccountRow \cup {NoRow}]
          /\ \A b \in unborn : accounts'[b] = NoRow
      BY <1>3, <2>1, <2>2 DEF LifecycleInv, RowsFit
    <3>2. Len(participants) <= Len(participants') /\ joined' \in Int
          /\ marathon' \in MarathonRow \cup {NoRow} /\ participants' \in Seq(ParticipantRow)
      BY <1>1, <2>1 DEF LifecycleInv, RowsFit
    <3>3. CallFits(q)' /\ call' = [call EXCEPT ![q] = Idle]
      BY <1>1, FinishFits DEF LifecycleInv
    <3> QED
      BY <1>1, <3>1, <3>2, <3>3, AddingKeeps
  <2>4. Rows' = Rows
    BY <1>1 DEF Rows
  <2>5. NamedAreThere'
    <3>1. ASSUME NEW r \in Rows, participants[r].account # NoLink
          PROVE  accounts'[participants[r].account] # NoRow
      <4>1. participants[r].account \in Accounts /\ accounts[participants[r].account] # NoRow
        BY <3>1, EachIsARow DEF LifecycleInv, NamedAreThere, ParticipantRow
      <4> QED
        BY <1>3, <2>2, <4>1
    <3> QED
      BY <1>1, <2>4, <3>1 DEF NamedAreThere
  <2>6. LinksFit'
    BY <1>1, <1>3, <2>2, <2>4 DEF LifecycleInv, LinksFit, OnlyTornLinksDiffer, SharersAreTorn
  <2>7. OnlyLostWritesMiscount'
    BY <1>1, <2>4, MembersKept DEF LifecycleInv
  <2> QED
    BY <2>3, <2>5, <2>6, <2>7 DEF LifecycleInv
<1> QED
  BY <1>2, <1>3 DEF RemoveAccount

LEMMA DeployListedKeeps ==
  ASSUME LifecycleInv, served' \in Nat, NEW q \in Workers, DeployListed(q)
  PROVE  LifecycleInv'
<1> DEFINE c == call[q]
<1>1. UNCHANGED <<now, marathon, participants, unborn, joined, lost>> /\ call[q].op = "deploy"
  BY DEF DeployListed
<1>2. /\ c = [op |-> "deploy", todo |-> c.todo]
      /\ \A b \in DOMAIN c.todo : b \in Existing /\ c.todo[b] \in AccountRow
  BY <1>1 DEF LifecycleInv, CallsFit, CallFits
<1>3. CASE Finish(q) /\ UNCHANGED <<accounts, torn>>
  BY <1>1, <1>3, FinishLooking DEF rows
<1>4. ASSUME NEW a \in DOMAIN c.todo,
             Continue(q, [c EXCEPT !.todo = [b \in DOMAIN c.todo \ {a} |-> c.todo[b]]]),
             \/ SaveAccount(a, [c.todo[a] EXCEPT !.status = "DEPLOYED"], c.todo[a])
             \/ UNCHANGED <<accounts, torn>>
      PROVE  LifecycleInv'
  <2> DEFINE rest == [b \in DOMAIN c.todo \ {a} |-> c.todo[b]]
             row == [c.todo[a] EXCEPT !.status = "DEPLOYED"]
             left == [op |-> "deploy", todo |-> rest]
  <2>1. /\ row \in AccountRow
        /\ row.participant = c.todo[a].participant
        /\ a \in Existing
        /\ c.todo[a] \in AccountRow
    BY <1>2 DEF AccountRow
  <2>2. call' = [call EXCEPT ![q] = left] /\ call'[q] = left
    <3>1. [c EXCEPT !.todo = rest] = left
      BY <1>2
    <3>2. call' = [call EXCEPT ![q] = left]
      BY <1>4, <3>1 DEF Continue
    <3> QED
      BY <3>2 DEF LifecycleInv, CallsFit
  <2>3. CallFits(q)'
    <3>1. \A b \in DOMAIN rest : b \in Existing /\ rest[b] \in AccountRow
      BY <1>2
    <3>2. Existing' = Existing /\ AccountRow' = AccountRow
      BY <1>1 DEF Existing, AccountRow, Rows
    <3> HIDE DEF rest
    <3> QED
      BY <2>2, <3>1, <3>2 DEF CallFits
  <2> HIDE DEF left
  <2>4. CASE SaveAccount(a, row, c.todo[a])
    <3>1. accounts' = [accounts EXCEPT ![a] = row] /\ torn \subseteq torn'
      BY <2>4 DEF SaveAccount
    <3>2. \/ a \in torn' /\ Sharing(a, row.participant) \subseteq torn'
          \/ accounts[a] = c.todo[a]
      BY <2>4 DEF SaveAccount
    <3>3. \/ a \in torn' /\ Sharing(a, row.participant) \subseteq torn'
          \/ accounts[a] # NoRow /\ accounts[a].participant = row.participant
      BY <2>1, <3>2, RowsAreNumbered DEF LifecycleInv
    <3> HIDE DEF row, c
    <3> QED
      BY <1>1, <2>1, <2>2, <2>3, <3>1, <3>3, AccountAloneKeeps
  <2>5. CASE UNCHANGED <<accounts, torn>>
    BY <1>1, <2>2, <2>3, <2>5, LookingKeeps DEF rows, LifecycleInv, RowsFit
  <2> QED
    BY <1>4, <2>4, <2>5
<1> QED
  BY <1>3, <1>4 DEF DeployListed

LEMMA ProvisionNextKeeps ==
  ASSUME LifecycleInv, served' \in Nat, NEW j \in Workers, ProvisionNext(j)
  PROVE  LifecycleInv'
<1> DEFINE c == call[j]
           r == Oldest(c.todo)
           a == Oldest(Free)
<1>1. UNCHANGED <<now, marathon, unborn, joined, lost>> /\ c.op = "provision"
  BY DEF ProvisionNext
<1>2. c.todo \subseteq Rows
  BY <1>1 DEF LifecycleInv, CallsFit, CallFits
<1>3. CASE /\ c.todo # {} /\ Free # {}
           /\ Link(a, r)
           /\ Continue(j, [op |-> "ready", todo |-> c.todo \ {r}, account |-> a])
  <2> DEFINE d == [op |-> "ready", todo |-> c.todo \ {r}, account |-> a]
  <2>1. c.todo \subseteq Nat
    BY <1>2 DEF LifecycleInv, RowsFit, Rows
  <2>2. Free \subseteq Nat
    BY LifecycleAssumption DEF Free, Accounts
  <2>3. r \in Rows /\ a \in Free
    BY <1>2, <1>3, <2>1, <2>2, OldestIsIn
  <2>4. a \in Accounts /\ accounts[a] # NoRow /\ accounts[a].participant = NoLink
    BY <2>3 DEF Free
  <2> HIDE DEF r, a
  <2>5. call' = [call EXCEPT ![j] = d] /\ call'[j] = d
    BY <1>3 DEF Continue, LifecycleInv, CallsFit
  <2>6. a \in Existing'
    BY <1>1, <2>4, RowsExist DEF LifecycleInv, Existing
  <2>7. Rows' = Rows => CallFits(j)'
    BY <1>2, <2>5, <2>6 DEF CallFits
  <2> HIDE DEF d, c
  <2> QED
    BY <1>1, <1>3, <2>3, <2>4, <2>5, <2>7, LinkKeeps
<1>4. CASE ThenDeploy(j) /\ UNCHANGED <<accounts, participants, torn>>
  <2> DEFINE d == [op |-> "redeploy", todo |-> IF Open THEN Undeployed ELSE {}]
  <2>1. call' = [call EXCEPT ![j] = d] /\ call'[j] = d
    BY <1>4 DEF ThenDeploy, Continue, LifecycleInv, CallsFit
  <2>2. d.todo \subseteq Accounts
    BY DEF Undeployed
  <2>3. d = [op |-> "redeploy", todo |-> d.todo]
    OBVIOUS
  <2> HIDE DEF d
  <2>4. CallFits(j)'
    BY <2>1, <2>2, <2>3 DEF CallFits
  <2> QED
    BY <1>1, <1>4, <2>1, <2>4, LookingKeeps DEF rows
<1> QED
  BY <1>3, <1>4 DEF ProvisionNext

\* Only the status of an account that is there is written.
LEMMA DeployAccountKeeps ==
  ASSUME LifecycleInv, served' \in Nat, NEW a \in Accounts, DeployAccount(a),
         UNCHANGED <<now, marathon, participants, unborn, joined, lost, torn>>,
         NEW q \in Workers, NEW c, call' = [call EXCEPT ![q] = c], CallFits(q)'
  PROVE  LifecycleInv'
<1>1. CASE accounts[a] # NoRow /\ accounts' = [accounts EXCEPT ![a].status = "DEPLOYED"]
  <2> DEFINE row == [accounts[a] EXCEPT !.status = "DEPLOYED"]
  <2>1. a \in Existing /\ accounts[a] \in AccountRow
    BY <1>1, RowsExist DEF LifecycleInv
  <2>2. row \in AccountRow /\ row.participant = accounts[a].participant
    BY <2>1 DEF AccountRow
  <2>3. accounts' = [accounts EXCEPT ![a] = row]
    BY <1>1
  <2> HIDE DEF row
  <2> QED
    BY <1>1, <2>1, <2>2, <2>3, AccountAloneKeeps
<1>2. CASE UNCHANGED accounts
  BY <1>2, LookingKeeps DEF rows
<1> QED
  BY <1>1, <1>2 DEF DeployAccount

LEMMA ProvisionDeployKeeps ==
  ASSUME LifecycleInv, served' \in Nat, NEW j \in Workers, ProvisionDeploy(j)
  PROVE  LifecycleInv'
<1> DEFINE c == call[j]
           d == [op |-> "provision", todo |-> c.todo]
<1>1. /\ DeployAccount(c.account)
      /\ UNCHANGED <<now, marathon, participants, unborn, joined, lost, torn>>
      /\ c.op = "ready"
  BY DEF ProvisionDeploy
<1>2. c.account \in Accounts /\ c.todo \subseteq Rows
  BY <1>1 DEF LifecycleInv, CallsFit, CallFits, Existing
<1>3. call' = [call EXCEPT ![j] = d] /\ call'[j] = d
  BY DEF ProvisionDeploy, Continue, LifecycleInv, CallsFit
<1>4. CallFits(j)'
  BY <1>1, <1>2, <1>3 DEF CallFits, Rows
<1> HIDE DEF c, d
<1> QED
  BY <1>1, <1>2, <1>3, <1>4, DeployAccountKeeps

LEMMA RedeployKeeps ==
  ASSUME LifecycleInv, served' \in Nat, NEW j \in Workers, Redeploy(j)
  PROVE  LifecycleInv'
<1> DEFINE c == call[j]
<1>1. UNCHANGED <<now, marathon, participants, unborn, joined, lost, torn>> /\ c.op = "redeploy"
  BY DEF Redeploy
<1>2. c = [op |-> "redeploy", todo |-> c.todo] /\ c.todo \subseteq Accounts
  BY <1>1 DEF LifecycleInv, CallsFit, CallFits
<1>3. ASSUME NEW a \in c.todo, DeployAccount(a), Continue(j, [c EXCEPT !.todo = @ \ {a}])
      PROVE  LifecycleInv'
  <2> DEFINE d == [op |-> "redeploy", todo |-> c.todo \ {a}]
  <2>1. [c EXCEPT !.todo = @ \ {a}] = d
    BY <1>2
  <2>2. call' = [call EXCEPT ![j] = d] /\ call'[j] = d
    BY <1>3, <2>1 DEF Continue, LifecycleInv, CallsFit
  <2>3. CallFits(j)'
    BY <1>2, <2>2 DEF CallFits
  <2>4. a \in Accounts
    BY <1>2
  <2> HIDE DEF c, d
  <2> QED
    BY <1>1, <1>3, <2>2, <2>3, <2>4, DeployAccountKeeps
<1>4. CASE Finish(j) /\ UNCHANGED accounts
  BY <1>1, <1>4, FinishLooking DEF rows
<1> QED
  BY <1>3, <1>4 DEF Redeploy

\* The participant that was read is written back, with the account it had then.
LEMMA SaveDisqualifiedKeeps ==
  ASSUME LifecycleInv, served' \in Nat, NEW j \in Workers, SaveDisqualified(j)
  PROVE  LifecycleInv'
<1> DEFINE c == call[j]
           r == c.row
           row == [c.base EXCEPT !.isActive = FALSE, !.disqualified = TRUE]
<1>1. Finish(j) /\ UNCHANGED <<now, marathon, accounts, unborn, joined, lost>> /\ c.op = "rules"
  BY DEF SaveDisqualified
<1>2. r \in Rows /\ c.base \in ParticipantRow /\ c.base.linked /\ c.base.account \in Accounts
  BY <1>1 DEF LifecycleInv, CallsFit, CallFits
<1>3. CASE UNCHANGED <<participants, torn>>
  BY <1>1, <1>3, FinishLooking DEF rows
<1>4. CASE /\ accounts[c.base.account] # NoRow
           /\ participants' = [participants EXCEPT ![r] = row]
           /\ torn' = IF participants[r].account = c.base.account THEN torn
                      ELSE (torn \cup {participants[r].account, c.base.account}) \ {NoLink}
  <2>1. row \in ParticipantRow /\ row.account = c.base.account /\ row.linked /\ ~row.isActive
    BY <1>2 DEF ParticipantRow
  <2>2. participants \in Seq(ParticipantRow)
    BY DEF LifecycleInv, RowsFit
  <2> DEFINE b == c.base.account
  <2>3. /\ b \in Accounts /\ accounts[b] # NoRow /\ row.account = b
        /\ participants[r].account # b => /\ b \in torn'
                                          /\ participants[r].account \in torn' \cup {NoLink}
        /\ torn \subseteq torn' \cup {NoLink}
    BY <1>2, <1>4, <2>1, LifecycleAssumption DEF Accounts, NoLink
  <2> HIDE DEF row, r, b
  <2>4. /\ participants' \in Seq(ParticipantRow)
        /\ Len(participants') = Len(participants)
        /\ Rows' = Rows
        /\ participants'[r] = row
        /\ \A p \in Rows \ {r} : participants'[p] = participants[p]
    BY <1>2, <1>4, <2>1, <2>2, RowReplaced DEF r
  <2>5. r \in Rows
    BY <1>2 DEF r
  <2> HIDE DEF c
  <2>6. RowsFit' /\ CallsFit'
    <3>1. CallFits(j)' /\ call' = [call EXCEPT ![j] = Idle]
      BY <1>1, FinishFits DEF LifecycleInv
    <3>2. /\ Len(participants) <= Len(participants') /\ joined' \in Int
          /\ marathon' \in MarathonRow \cup {NoRow}
          /\ accounts' \in [Accounts -> AccountRow \cup {NoRow}]
          /\ \A a \in unborn : accounts'[a] = NoRow
      BY <1>1, <2>2, <2>4 DEF LifecycleInv, RowsFit
    <3> QED
      BY <1>1, <2>4, <3>1, <3>2, AddingKeeps
  <2>7. NamedAreThere'
    BY <1>1, <2>3, <2>4 DEF LifecycleInv, NamedAreThere
  <2>8. LinksFit'
    <3>1. ASSUME NEW a \in Accounts \ torn', NEW p \in Rows
          PROVE  (accounts[a] # NoRow /\ accounts[a].participant = p)
                 <=> participants'[p].account = a
      <4>1. a # NoLink /\ a \notin torn
        BY <2>3, LifecycleAssumption DEF Accounts, NoLink
      <4>2. (accounts[a] # NoRow /\ accounts[a].participant = p) <=> participants[p].account = a
        BY <4>1 DEF LifecycleInv, LinksFit, OnlyTornLinksDiffer, SharersAreTorn
      <4>3. CASE p # r
        BY <2>4, <4>2, <4>3
      <4>4. CASE p = r
        BY <2>3, <2>4, <4>1, <4>2, <4>4
      <4> QED
        BY <4>3, <4>4
    <3>2. SharersAreTorn'
      BY <1>1, <2>3, LifecycleAssumption DEF LifecycleInv, LinksFit, SharersAreTorn, Accounts, NoLink
    <3> QED
      BY <1>1, <2>4, <3>1, <3>2 DEF LinksFit, OnlyTornLinksDiffer
  <2>9. OnlyLostWritesMiscount'
    <3> SUFFICES ASSUME ~lost, marathon # NoRow
        PROVE  /\ marathon.players = joined
               /\ \A p \in Rows : participants'[p].linked
               /\ Cardinality({p \in Rows : Playing(p)}') <= marathon.players
      BY <1>1, <2>4 DEF OnlyLostWritesMiscount
    <3>1. /\ marathon.players = joined
          /\ \A p \in Rows : participants[p].linked
          /\ Cardinality({p \in Rows : Playing(p)}) <= marathon.players
      BY DEF LifecycleInv, OnlyLostWritesMiscount
    <3>2. {p \in Rows : Playing(p)}' \in SUBSET {p \in Rows : Playing(p)}
      BY <2>1, <2>4 DEF Playing
    <3>3. IsFiniteSet({p \in Rows : Playing(p)})
      BY PlayersAreFinite DEF LifecycleInv
    <3>4. /\ IsFiniteSet({p \in Rows : Playing(p)}')
          /\ Cardinality({p \in Rows : Playing(p)}') <= Cardinality({p \in Rows : Playing(p)})
      BY <3>2, <3>3, FS_Subset
    <3>5. /\ Cardinality({p \in Rows : Playing(p)}') \in Nat
          /\ Cardinality({p \in Rows : Playing(p)}) \in Nat
      BY <3>3, <3>4, FS_CardinalityType
    <3>6. marathon.players \in Nat
      BY PlacesAreRows DEF LifecycleInv, RowsFit
    <3>7. \A p \in Rows : participants'[p].linked
      BY <2>1, <2>4, <3>1
    <3> QED
      BY <3>1, <3>4, <3>5, <3>6, <3>7
  <2> QED
    BY <2>6, <2>7, <2>8, <2>9 DEF LifecycleInv
<1> QED
  BY <1>3, <1>4 DEF SaveDisqualified

------------------------------------------------------------------------------
\* Time passes for all.
LEMMA TickKeeps ==
  ASSUME LifecycleInv, Tick
  PROVE  LifecycleInv'
<1>1. UNCHANGED <<marathon, participants, accounts, unborn, served, call, joined, lost, torn>>
      /\ now' = now + 1
  BY DEF Tick, rows
<1>2. Rows' = Rows /\ Existing' = Existing /\ AccountRow' = AccountRow
  BY <1>1 DEF Rows, Existing, AccountRow
<1>3. RowsFit'
  BY <1>1, <1>2 DEF LifecycleInv, RowsFit, MarathonRow, ParticipantRow
<1>4. ASSUME NEW w \in Workers PROVE CallFits(w)'
  <2>1. CallFits(w)
    BY DEF LifecycleInv, CallsFit
  <2> QED
    BY <1>1, <1>2, <2>1 DEF CallFits, MarathonRow, ParticipantRow
<1>5. CallsFit'
  BY <1>1, <1>4 DEF LifecycleInv, CallsFit
<1>6. NamedAreThere' /\ LinksFit' /\ OnlyLostWritesMiscount'
  BY <1>1, <1>2, LinksKept, MembersKept DEF LifecycleInv
<1> QED
  BY <1>3, <1>5, <1>6 DEF LifecycleInv

LEMMA JobKeeps ==
  ASSUME LifecycleInv, served' \in Nat, NEW j \in Workers, Job(j)
  PROVE  LifecycleInv'
<1>1. ProvisionFails(j) => LifecycleInv'
  BY FinishLooking DEF ProvisionFails
<1> QED
  BY <1>1, SyncReadKeeps, SyncSaveKeeps, ProvisionReadKeeps, ProvisionNextKeeps,
     ProvisionDeployKeeps, RedeployKeeps, RulesReadKeeps, SaveDisqualifiedKeeps DEF Job

LEMMA BeginKeeps ==
  ASSUME LifecycleInv, served' \in Nat, NEW q \in Workers, Begin(q)
  PROVE  LifecycleInv'
BY UpdateReadKeeps, RemoveMarathonKeeps, JoinReadKeeps, CancelKeeps, CreateAccountKeeps,
   AssignKeeps, UnassignReadKeeps, RemoveReadKeeps, ListParticipantsKeeps DEF Begin

LEMMA ProceedKeeps ==
  ASSUME LifecycleInv, served' \in Nat, NEW q \in Workers, Proceed(q)
  PROVE  LifecycleInv'
BY UpdateSaveKeeps, JoinCommitKeeps, AutoAssignKeeps, UnassignSaveKeeps, RemoveAccountKeeps,
   DeployListedKeeps DEF Proceed

LEMMA LifecycleStep == LifecycleInv /\ [LifecycleNext]_lifecycleVars => LifecycleInv'
<1> SUFFICES ASSUME LifecycleInv, [LifecycleNext]_lifecycleVars PROVE LifecycleInv'
  OBVIOUS
<1>1. CASE Tick
  BY <1>1, TickKeeps
<1>2. ASSUME NEW w \in Workers, Job(w), UNCHANGED served PROVE LifecycleInv'
  BY <1>2, JobKeeps DEF LifecycleInv, RowsFit
<1>3. ASSUME NEW w \in Workers, Begin(w), served' = served + 1 PROVE LifecycleInv'
  <2>1. served' \in Nat
    BY <1>3 DEF LifecycleInv, RowsFit
  <2> QED
    BY <1>3, <2>1, BeginKeeps
<1>4. ASSUME NEW w \in Workers, Proceed(w), UNCHANGED served PROVE LifecycleInv'
  BY <1>4, ProceedKeeps DEF LifecycleInv, RowsFit
<1>5. CASE UNCHANGED lifecycleVars
  <2>1. UNCHANGED <<now, marathon, participants, accounts, unborn, served, call, joined, lost, torn>>
    BY <1>5 DEF lifecycleVars, rows
  <2>2. Rows' = Rows /\ Existing' = Existing /\ AccountRow' = AccountRow
    BY <2>1 DEF Rows, Existing, AccountRow
  <2>3. RowsFit'
    BY <2>1, <2>2 DEF LifecycleInv, RowsFit, MarathonRow, ParticipantRow
  <2>4. ASSUME NEW w \in Workers PROVE CallFits(w)'
    <3>1. CallFits(w)
      BY DEF LifecycleInv, CallsFit
    <3> QED
      BY <2>1, <2>2, <3>1 DEF CallFits, MarathonRow, ParticipantRow
  <2>5. CallsFit'
    BY <2>1, <2>4 DEF LifecycleInv, CallsFit
  <2>6. NamedAreThere' /\ LinksFit' /\ OnlyLostWritesMiscount'
    BY <2>1, <2>2, LinksKept, MembersKept DEF LifecycleInv
  <2> QED
    BY <2>3, <2>5, <2>6 DEF LifecycleInv
<1> QED
  BY <1>1, <1>2, <1>3, <1>4, <1>5 DEF LifecycleNext

LEMMA LifecycleInvariant == LifecycleSpec => []LifecycleInv
BY LifecycleInitInv, LifecycleStep, PTL DEF LifecycleSpec

\* The marathon's places and members are those of its joins and cancellations, and no more
\* participants play than it has players, unless a save of MarathonService or of the status
\* job has overwritten another one.
THEOREM LifecycleCountsItsJoins == LifecycleSpec => []OnlyLostWritesMiscount
<1>1. LifecycleInv => OnlyLostWritesMiscount
  BY DEF LifecycleInv
<1> QED
  BY <1>1, LifecycleInvariant, PTL

\* Account and participant name each other but for the accounts unassignFromParticipant,
\* assignAvailableAccount, getMarathonParticipants or disqualifyParticipant left torn.
THEOREM LifecycleLinksAreMutual == LifecycleSpec => []OnlyTornLinksDiffer
<1>1. LifecycleInv => OnlyTornLinksDiffer
  BY DEF LifecycleInv, LinksFit
<1> QED
  BY <1>1, LifecycleInvariant, PTL

------------------------------------------------------------------------------
(***************************************************************************)
(* What a step makes of the marathon's row, and who may write it.          *)
(***************************************************************************)

\* A save by a call of kind op, which overwrites no other commit unless it is lost.
Saves(q, op) ==
  /\ call[q].op = op
  /\ lost' \/ (~lost /\ marathon = call[q].base)

MarathonStep ==
  \/ marathon' = marathon /\ lost' = lost
  \/ marathon' = NoRow
  \/ marathon # NoRow /\ marathon' = OneLess(marathon) /\ lost' = lost
  \/ \E q \in Workers :
       \/ Saves(q, "join") /\ marathon' = [call[q].base EXCEPT !.players = @ + 1]
       \/ Saves(q, "sync") /\ marathon' = [call[q].base EXCEPT !.status = call[q].status]
       \/ Saves(q, "update") /\ marathon' \in Edits(call[q].base)

LEMMA SaveIsAStep ==
  ASSUME NEW q \in Workers, NEW m, SaveMarathon(m, call[q])
  PROVE  marathon' = m /\ Saves(q, call[q].op)
BY DEF SaveMarathon, Saves

LEMMA JobsWriteTheStatus ==
  ASSUME NEW j \in Workers, Job(j)
  PROVE  MarathonStep
<1>1. CASE SyncSave(j)
  BY <1>1, SaveIsAStep DEF SyncSave, MarathonStep
<1>2. CASE SyncRead(j) \/ ProvisionRead(j) \/ ProvisionNext(j) \/ ProvisionDeploy(j)
           \/ Redeploy(j) \/ ProvisionFails(j) \/ RulesRead(j) \/ SaveDisqualified(j)
  <2>1. marathon' = marathon /\ lost' = lost
    BY <1>2 DEF SyncRead, ProvisionRead, ProvisionNext, ProvisionDeploy, Redeploy,
                ProvisionFails, RulesRead, SaveDisqualified, rows
  <2> QED
    BY <2>1 DEF MarathonStep
<1> QED
  BY <1>1, <1>2 DEF Job

LEMMA RequestsWriteTheMarathon ==
  ASSUME NEW q \in Workers, Begin(q) \/ Proceed(q)
  PROVE  MarathonStep
<1>1. CASE UpdateSave(q)
  BY <1>1, SaveIsAStep DEF UpdateSave, MarathonStep
<1>2. CASE JoinCommit(q)
  <2>1. CASE SaveMarathon([call[q].base EXCEPT !.players = @ + 1], call[q])
    <3>1. call[q].op = "join"
      BY <1>2 DEF JoinCommit
    <3>2. marathon' = [call[q].base EXCEPT !.players = @ + 1] /\ Saves(q, call[q].op)
      BY <2>1, SaveIsAStep, Zenon
    <3> QED
      BY <3>1, <3>2 DEF MarathonStep
  <2>2. CASE UNCHANGED <<participants, marathon, joined, lost>>
    BY <2>2 DEF MarathonStep
  <2> QED
    BY <1>2, <2>1, <2>2 DEF JoinCommit
<1>3. CASE \E u \in Users : Cancel(q, u)
  BY <1>3 DEF Cancel, MarathonStep, rows
<1>4. CASE RemoveMarathon(q)
  BY <1>4 DEF RemoveMarathon, MarathonStep
<1>5. CASE \/ UpdateRead(q) \/ (\E u \in Users : JoinRead(q, u)) \/ CreateAccount(q) \/ Assign(q)
           \/ UnassignRead(q) \/ RemoveRead(q) \/ ListParticipants(q)
           \/ AutoAssign(q) \/ UnassignSave(q) \/ RemoveAccount(q) \/ DeployListed(q)
  <2>1. marathon' = marathon /\ lost' = lost
    BY <1>5 DEF UpdateRead, JoinRead, CreateAccount, Assign, UnassignRead, RemoveRead,
                ListParticipants, AutoAssign, UnassignSave, RemoveAccount, DeployListed, rows
  <2> QED
    BY <2>1 DEF MarathonStep
<1> QED
  BY <1>1, <1>2, <1>3, <1>4, <1>5 DEF Begin, Proceed

LEMMA EveryStepIsAMarathonStep ==
  ASSUME LifecycleNext
  PROVE  MarathonStep
<1>1. CASE Tick
  BY <1>1 DEF Tick, MarathonStep, rows
<1> QED
  BY <1>1, JobsWriteTheStatus, RequestsWriteTheMarathon DEF LifecycleNext

\* Of what is saved only an administrator's status ends a cancellation.
LEMMA OnlyAStatusRevives ==
  ASSUME LifecycleInv, LifecycleNext, marathon # NoRow, marathon.status = "CANCELED",
         marathon' # NoRow, marathon'.status # "CANCELED"
  PROVE  \/ lost'
         \/ \E q \in Workers : call[q].op = "update" /\ \E s \in GivenStatuses :
              marathon' = [call[q].base EXCEPT !.status = s]
<1>1. MarathonStep
  BY EveryStepIsAMarathonStep
<1>2. marathon \in MarathonRow
  BY DEF LifecycleInv, RowsFit
<1>3. CASE marathon' = OneLess(marathon)
  BY <1>2, <1>3 DEF OneLess, MarathonRow
<1>4. ASSUME NEW q \in Workers, Saves(q, "join"),
             marathon' = [call[q].base EXCEPT !.players = @ + 1]
      PROVE  lost'
  BY <1>2, <1>4 DEF Saves, MarathonRow
<1>5. ASSUME NEW q \in Workers, Saves(q, "sync")
      PROVE  lost'
  BY <1>5 DEF Saves, LifecycleInv, CallsFit, CallFits
<1>6. ASSUME NEW q \in Workers, Saves(q, "update"), marathon' \in Edits(call[q].base), ~lost'
      PROVE  call[q].op = "update" /\ \E s \in GivenStatuses :
               marathon' = [call[q].base EXCEPT !.status = s]
  <2>1. call[q].base = marathon /\ call[q].op = "update"
    BY <1>6 DEF Saves
  <2>2. ASSUME NEW d \in Dates PROVE marathon' # Redated(marathon, d)
    BY <1>2 DEF Redated, MarathonRow
  <2>3. ASSUME NEW b \in BOOLEAN PROVE marathon' # [marathon EXCEPT !.isActive = b]
    BY <1>2 DEF MarathonRow
  <2> QED
    BY <1>6, <2>1, <2>2, <2>3 DEF Edits
<1> QED
  BY <1>1, <1>3, <1>4, <1>5, <1>6 DEF MarathonStep

\* A canceled marathon stays canceled for jobs, joins, cancellations and new dates: only an
\* update that sets its status, or a save that overwrites the cancellation, ends it.
THEOREM LifecycleOnlyAnEditRevives == LifecycleSpec => OnlyAnEditRevives
<1>1. LifecycleInv /\ [LifecycleNext]_lifecycleVars =>
        [ (marathon # NoRow /\ marathon.status = "CANCELED"
           /\ marathon' # NoRow /\ marathon'.status # "CANCELED")
          => \/ lost'
             \/ \E q \in Workers : call[q].op = "update" /\ \E s \in GivenStatuses :
                  marathon' = [call[q].base EXCEPT !.status = s] ]_lifecycleVars
  BY OnlyAStatusRevives
<1> QED
  BY <1>1, LifecycleInvariant, PTL DEF LifecycleSpec, OnlyAnEditRevives

------------------------------------------------------------------------------
\* maxPlayers is checked when a join reads the marathon, before it waits for its locks.

JoinsHadAPlace == \A w \in Workers : call[w].op = "join" => call[w].base.players < MaxPlayers

PlacesSuffice == ~lost /\ marathon # NoRow => marathon.players <= MaxPlayers

\* No more participants play than the marathon has places, unless a save was lost.
NeverOverbooked ==
  ~lost /\ marathon # NoRow => Cardinality({r \in Rows : Playing(r)}) <= MaxPlayers

LEMMA JobsDoNotJoin ==
  ASSUME LifecycleInv, JoinsHadAPlace, NEW j \in Workers, Job(j)
  PROVE  JoinsHadAPlace'
<1>1. call = [w \in Workers |-> call[w]]
  BY DEF LifecycleInv, CallsFit
<1>2. CASE Redeploy(j)
  <2>1. call[j] = [op |-> "redeploy", todo |-> call[j].todo]
    BY <1>2 DEF Redeploy, LifecycleInv, CallsFit, CallFits
  <2> QED
    BY <1>1, <1>2, <2>1 DEF Redeploy, Continue, Finish, Idle, JoinsHadAPlace
<1>3. CASE SyncRead(j) \/ SyncSave(j) \/ ProvisionFails(j) \/ RulesRead(j) \/ SaveDisqualified(j)
  BY <1>1, <1>3 DEF SyncRead, SyncSave, ProvisionFails, RulesRead, SaveDisqualified, Continue,
                    Finish, Idle, JoinsHadAPlace
<1>4. CASE ProvisionRead(j) \/ ProvisionNext(j) \/ ProvisionDeploy(j)
  BY <1>1, <1>4 DEF ProvisionRead, ProvisionNext, ProvisionDeploy, ThenDeploy, Continue,
                    JoinsHadAPlace
<1> QED
  BY <1>2, <1>3, <1>4 DEF Job

LEMMA RequestsJoinWithAPlace ==
  ASSUME LifecycleInv, JoinsHadAPlace, NEW q \in Workers, Begin(q) \/ Proceed(q)
  PROVE  JoinsHadAPlace'
<1>1. call = [w \in Workers |-> call[w]]
  BY DEF LifecycleInv, CallsFit
<1>2. CASE DeployListed(q)
  <2>1. call[q] = [op |-> "deploy", todo |-> call[q].todo]
    BY <1>2 DEF DeployListed, LifecycleInv, CallsFit, CallFits
  <2>2. CASE Finish(q)
    BY <1>1, <2>2 DEF Finish, Continue, Idle, JoinsHadAPlace
  <2>3. ASSUME NEW rest, Continue(q, [call[q] EXCEPT !.todo = rest])
        PROVE  JoinsHadAPlace'
    <3>1. [call[q] EXCEPT !.todo = rest].op = "deploy"
      BY <2>1
    <3> QED
      BY <1>1, <2>3, <3>1 DEF Continue, JoinsHadAPlace
  <2> QED
    BY <1>2, <2>2, <2>3 DEF DeployListed
<1>3. CASE Finish(q)
  BY <1>1, <1>3 DEF Finish, Continue, Idle, JoinsHadAPlace
<1>4. CASE \E u \in Users : JoinRead(q, u)
  BY <1>1, <1>3, <1>4 DEF JoinRead, Continue, JoinsHadAPlace
<1>5. CASE UpdateRead(q) \/ UnassignRead(q) \/ RemoveRead(q)
  BY <1>1, <1>5 DEF UpdateRead, UnassignRead, RemoveRead, Continue, JoinsHadAPlace
<1>6. CASE ListParticipants(q)
  BY <1>1, <1>3, <1>6 DEF ListParticipants, Continue, JoinsHadAPlace
<1>7. CASE JoinCommit(q)
  BY <1>1, <1>3, <1>7 DEF JoinCommit, Continue, JoinsHadAPlace
<1> QED
  BY <1>2, <1>3, <1>4, <1>5, <1>6, <1>7
     DEF Begin, Proceed, RemoveMarathon, Cancel, CreateAccount, Assign, UpdateSave, AutoAssign,
         UnassignSave, RemoveAccount

LEMMA PlacesStep ==
  ASSUME LifecycleInv, JoinsHadAPlace, PlacesSuffice, [LifecycleNext]_lifecycleVars
  PROVE  JoinsHadAPlace' /\ PlacesSuffice'
<1>1. CASE UNCHANGED lifecycleVars
  BY <1>1 DEF lifecycleVars, rows, JoinsHadAPlace, PlacesSuffice
<1>2. CASE LifecycleNext
  <2>1. JoinsHadAPlace'
    <3>1. Tick => JoinsHadAPlace'
      BY DEF Tick, JoinsHadAPlace
    <3> QED
      BY <1>2, <3>1, JobsDoNotJoin, RequestsJoinWithAPlace DEF LifecycleNext
  <2>2. PlacesSuffice'
    <3>1. MarathonStep
      BY <1>2, EveryStepIsAMarathonStep
    <3>2. marathon \in MarathonRow \cup {NoRow} /\ MaxPlayers \in Nat /\ now \in Nat
      BY LifecycleAssumption DEF LifecycleInv, RowsFit
    <3>3. CASE marathon # NoRow /\ marathon' = OneLess(marathon) /\ lost' = lost
      BY <3>2, <3>3 DEF PlacesSuffice, OneLess, MarathonRow
    <3>4. ASSUME NEW q \in Workers, Saves(q, "join"),
                 marathon' = [call[q].base EXCEPT !.players = @ + 1]
          PROVE  PlacesSuffice'
      <4>1. call[q].base \in MarathonRow /\ call[q].base.players < MaxPlayers
        BY <3>4 DEF Saves, LifecycleInv, CallsFit, CallFits, JoinsHadAPlace
      <4>2. marathon'.players = call[q].base.players + 1 /\ call[q].base.players \in Nat
        BY <3>4, <4>1, PlacesAreRows
      <4> QED
        BY <3>2, <4>1, <4>2 DEF PlacesSuffice
    <3>5. ASSUME NEW q \in Workers, Saves(q, "sync"),
                 marathon' = [call[q].base EXCEPT !.status = call[q].status]
          PROVE  PlacesSuffice'
      <4>1. call[q].base \in MarathonRow /\ call[q].base # NoRow
        BY <3>5 DEF Saves, LifecycleInv, CallsFit, CallFits
      <4>2. marathon'.players = call[q].base.players
        BY <3>5, <4>1 DEF MarathonRow
      <4> QED
        BY <3>5, <4>1, <4>2 DEF PlacesSuffice, Saves
    <3>6. ASSUME NEW q \in Workers, Saves(q, "update"), marathon' \in Edits(call[q].base)
          PROVE  PlacesSuffice'
      <4>1. call[q].base \in MarathonRow /\ call[q].base # NoRow
        BY <3>6 DEF Saves, LifecycleInv, CallsFit, CallFits
      <4>2. marathon'.players = call[q].base.players
        BY <3>2, <3>6, <4>1, EditsAreRows
      <4> QED
        BY <3>6, <4>1, <4>2 DEF PlacesSuffice, Saves
    <3> QED
      BY <3>1, <3>3, <3>4, <3>5, <3>6 DEF MarathonStep, PlacesSuffice
  <2> QED
    BY <2>1, <2>2
<1> QED
  BY <1>1, <1>2

LEMMA PlacesInit ==
  ASSUME LifecycleInit
  PROVE  JoinsHadAPlace /\ PlacesSuffice
<1>1. JoinsHadAPlace
  BY DEF LifecycleInit, JoinsHadAPlace, Idle
<1>2. marathon.players = 0
  BY DEF LifecycleInit, Created
<1> QED
  BY <1>1, <1>2, LifecycleAssumption DEF PlacesSuffice

\* However joins, cancellations, edits and jobs interleave, maxPlayers holds for those who
\* play as long as no save overwrites another commit.
THEOREM LifecycleNeverOverbooks == LifecycleSpec => []NeverOverbooked
<1>1. LifecycleInit => JoinsHadAPlace /\ PlacesSuffice
  BY PlacesInit
<1>2. LifecycleInv /\ (JoinsHadAPlace /\ PlacesSuffice) /\ [LifecycleNext]_lifecycleVars
      => (JoinsHadAPlace /\ PlacesSuffice)'
  BY PlacesStep
<1>3. LifecycleInv /\ PlacesSuffice => NeverOverbooked
  <2> SUFFICES ASSUME LifecycleInv, PlacesSuffice, ~lost, marathon # NoRow
      PROVE  Cardinality({r \in Rows : Playing(r)}) <= MaxPlayers
    BY DEF NeverOverbooked
  <2>1. Cardinality({r \in Rows : Playing(r)}) <= marathon.players
    BY DEF LifecycleInv, OnlyLostWritesMiscount
  <2>2. Cardinality({r \in Rows : Playing(r)}) \in Nat
    BY PlayersAreFinite, FS_CardinalityType DEF LifecycleInv
  <2>3. marathon.players \in Nat /\ marathon.players <= MaxPlayers
    BY PlacesAreRows DEF LifecycleInv, RowsFit, PlacesSuffice
  <2> QED
    BY <2>1, <2>2, <2>3, LifecycleAssumption
<1> QED
  BY <1>1, <1>2, <1>3, LifecycleInvariant, PTL DEF LifecycleSpec

------------------------------------------------------------------------------
(***************************************************************************)
(* Rules.                                                                  *)
(*                                                                         *)
(* The inductive invariant, RulesInv, says of the reasons each check has   *)
(* found by now what ReasonsAreFacts says of those that are stored; what   *)
(* is a fact once stays one, because points of the account are only added  *)
(* and no trade is closed in time once the end has come.                   *)
(***************************************************************************)

TotalFact == outdated \/ \E i, j \in During : i < j /\ Fell(i, j, "total")
DailyFact == \E i, j \in During : Day(i) = Day(j) /\ Fell(i, j, "daily")
FloatingFact == \E t \in 1 .. Moment : Risked(t)
TradesFact == Moment >= End /\ (behind \/ Cardinality(InTime) < limits["minTrades"])

AreFacts(R) ==
  /\ "total" \in R => TotalFact
  /\ "daily" \in R => DailyFact
  /\ "floating" \in R => FloatingFact
  /\ "minTrades" \in R => TradesFact

\* A snapshot shows the account at some moment that has been.
Shown(s) ==
  \/ s = Unseen
  \/ s.at \in 1 .. Moment /\ s.equity = equity[s.at] /\ s.profit = profit[s.at]

Snapshots == [at : Nat, equity : Int, profit : Int]
CheckRow ==
  [stage : {"participant", "report", "total", "daily", "save"}, live : BOOLEAN,
   seen : Snapshots, reasons : SUBSET RuleNames]

\* What a check has read was there, and what it has found are facts.
CheckFits(c) ==
  \/ check[c] = Resting
  \/ /\ check[c] \in CheckRow
     /\ Shown(check[c].seen)
     /\ AreFacts(check[c].reasons)

MarketFits ==
  /\ limits \in RuleSets
  /\ equity \in Seq(Int)
  /\ profit \in Seq(Int) /\ Len(profit) = Len(equity)
  /\ traded \in Seq(Nat) /\ reported \in Nat
  /\ recorded \in 0 .. Moment
  /\ snapshot \in Snapshots
  /\ Shown(snapshot)

RulesInv ==
  /\ MarketFits
  /\ check = [c \in Checks |-> check[c]]
  /\ \A c \in Checks : CheckFits(c)
  /\ ReasonsAreFacts

------------------------------------------------------------------------------
\* Extremes exist.  A smallest set without them would have them, without one element.
LEMMA ExtremesExist ==
  ASSUME NEW S, S \subseteq Int, IsFiniteSet(S), S # {}
  PROVE  /\ \E x \in S : \A y \in S : x >= y
         /\ \E x \in S : \A y \in S : x <= y
<1> DEFINE Extremes(U) == (\E x \in U : \A y \in U : x >= y) /\ (\E x \in U : \A y \in U : x <= y)
           Bad == {n \in Nat : \E U : /\ U \subseteq Int /\ IsFiniteSet(U) /\ U # {}
                                      /\ Cardinality(U) = n
                                      /\ ~Extremes(U)}
<1>1. SUFFICES ASSUME Bad # {} PROVE FALSE
  <2>1. Cardinality(S) \in Nat
    BY FS_CardinalityType
  <2>2. Extremes(S)
    BY <1>1, <2>1
  <2> QED
    BY <2>2
<1>2. PICK n \in Bad : \A m \in Bad : n <= m
  <2>1. Bad \subseteq Nat
    OBVIOUS
  <2> HIDE DEF Bad
  <2> QED
    BY <1>1, <2>1, LeastExists
<1>3. n \in Nat /\ \A m \in Bad : n <= m
  BY <1>2
<1>4. PICK U : U \subseteq Int /\ IsFiniteSet(U) /\ U # {} /\ Cardinality(U) = n /\ ~Extremes(U)
  BY <1>2
<1>5. PICK x \in U : x \in Int
  BY <1>4
<1> DEFINE V == U \ {x}
<1>6. IsFiniteSet(V) /\ Cardinality(V) = n - 1 /\ V \subseteq Int
  BY <1>4, <1>5, FS_RemoveElement
<1>7. n - 1 \in Nat
  BY <1>6, FS_CardinalityType
<1>8. CASE V = {}
  <2>1. \A y \in U : y = x
    BY <1>8
  <2> HIDE DEF V, Bad
  <2> QED
    BY <1>4, <1>5, <2>1
<1>9. CASE V # {}
  <2>1. n - 1 \notin Bad
    BY <1>3, <1>7
  <2>2. Extremes(V)
    BY <1>6, <1>7, <1>9, <2>1
  <2>3. PICK h \in V, l \in V : (\A y \in V : h >= y) /\ (\A y \in V : l <= y)
    BY <2>2
  <2>4. h \in Int /\ l \in Int /\ h \in U /\ l \in U
    BY <1>6, <2>3
  <2>5. \A y \in U : y \in Int /\ (y = x \/ y \in V)
    BY <1>4
  <2> HIDE DEF V, Bad
  <2>6. \E z \in U : \A y \in U : z >= y
    <3>1. CASE x >= h
      BY <1>5, <2>3, <2>4, <2>5, <3>1
    <3>2. CASE ~(x >= h)
      BY <1>5, <2>3, <2>4, <2>5, <3>2
    <3> QED
      BY <3>1, <3>2
  <2>7. \E z \in U : \A y \in U : z <= y
    <3>1. CASE x <= l
      BY <1>5, <2>3, <2>4, <2>5, <3>1
    <3>2. CASE ~(x <= l)
      BY <1>5, <2>3, <2>4, <2>5, <3>2
    <3> QED
      BY <3>1, <3>2
  <2> QED
    BY <1>4, <2>6, <2>7
<1> QED
  BY <1>8, <1>9

\* So Max and Min of the community modules are what their names say.
LEMMA MaxIsReached ==
  ASSUME NEW S, S \subseteq Int, IsFiniteSet(S), S # {}
  PROVE  Max(S) \in S /\ \A y \in S : Max(S) >= y
<1>1. \E x \in S : \A y \in S : x >= y
  BY ExtremesExist
<1> QED
  BY <1>1 DEF Max

LEMMA MinIsReached ==
  ASSUME NEW S, S \subseteq Int, IsFiniteSet(S), S # {}
  PROVE  Min(S) \in S /\ \A y \in S : Min(S) <= y
<1>1. \E x \in S : \A y \in S : x <= y
  BY ExtremesExist
<1> QED
  BY <1>1 DEF Min

\* The highest and the lowest equity of some moments are those of two of them.
LEMMA EquitiesAreReached ==
  ASSUME MarketFits, NEW n \in 0 .. Moment, NEW T, T \subseteq 1 .. n, T # {}
  PROVE  /\ \E t \in T : equity[t] = Highest(T)
         /\ \E t \in T : equity[t] = Lowest(T)
         /\ \A t \in T : equity[t] \in Int /\ equity[t] <= Highest(T) /\ equity[t] >= Lowest(T)
<1> DEFINE E == {equity[t] : t \in T}
           f == [t \in T |-> equity[t]]
<1>1. n \in Int /\ \A t \in T : equity[t] \in Int
  BY DEF MarketFits, Moment
<1>2. IsFiniteSet(T)
  <2>1. IsFiniteSet(1 .. n)
    BY <1>1, FS_Interval
  <2> QED
    BY <2>1, FS_Subset
<1>3. f \in Surjection(T, E)
  BY DEF Surjection
<1>4. IsFiniteSet(E)
  <2> HIDE DEF f, E
  <2> QED
    BY <1>2, <1>3, FS_Surjection
<1>5. E \subseteq Int /\ E # {}
  BY <1>1
<1>6. Max(E) \in E /\ (\A y \in E : Max(E) >= y) /\ Min(E) \in E /\ (\A y \in E : Min(E) <= y)
  <2> HIDE DEF E
  <2> QED
    BY <1>4, <1>5, MaxIsReached, MinIsReached
<1>7. Highest(T) = Max(E) /\ Lowest(T) = Min(E)
  BY DEF Highest, Lowest
<1> HIDE DEF f
<1>8. Max(E) \in Int /\ Min(E) \in Int
  BY <1>5, <1>6
<1>9. \A t \in T : equity[t] \in E
  OBVIOUS
<1>10. \A y \in E : \E t \in T : equity[t] = y
  OBVIOUS
<1> HIDE DEF E
<1> QED
  BY <1>1, <1>6, <1>7, <1>8, <1>9, <1>10

\* A part that is none measures nothing.
LEMMA SmallQuotient ==
  ASSUME NEW a \in Nat, NEW b \in Nat, a < b
  PROVE  a \div b = 0
OBVIOUS

LEMMA NoneMeasuresNothing ==
  ASSUME NEW whole \in Nat, whole > 0
  PROVE  Hundredths(0, whole) = 0
<1>1. 20000 * 0 + whole = whole /\ 2 * whole \in Nat /\ whole < 2 * whole
  OBVIOUS
<1>2. whole \div (2 * whole) = 0
  BY <1>1, SmallQuotient
<1> QED
  BY <1>1, <1>2 DEF Hundredths

LEMMA MeasureIsInt ==
  ASSUME NEW part \in Int, NEW whole \in Nat, whole > 0
  PROVE  Hundredths(part, whole) \in Int
<1>1. 20000 * part + whole \in Int /\ 2 * whole \in Int /\ 2 * whole > 0
  OBVIOUS
<1>2. ASSUME NEW a \in Int, NEW b \in Int, b > 0 PROVE a \div b \in Int
  BY <1>2
<1> QED
  BY <1>1, <1>2 DEF Hundredths

\* A fall that a measure shows is one between two moments of the marathon.
LEMMA PositiveMeasureFalls ==
  ASSUME NEW hi \in Int, NEW lo \in Int, hi > 0, lo <= hi, NEW rule,
         Breaks(rule, Hundredths(hi - lo, hi)), limits \in RuleSets
  PROVE  lo < hi
<1> SUFFICES ASSUME lo = hi PROVE FALSE
  OBVIOUS
<1>1. hi - lo = 0 /\ hi \in Nat
  OBVIOUS
<1>2. Hundredths(hi - lo, hi) = 0
  BY <1>1, NoneMeasuresNothing
<1>3. rule \in DOMAIN limits /\ limits[rule] \in Nat
  BY RulesAssumption DEF Breaks
<1>4. ~(0 > 100 * limits[rule])
  BY <1>3
<1> QED
  BY <1>2, <1>4 DEF Breaks

LEMMA NothingBreaks ==
  ASSUME limits \in RuleSets, NEW rule, NEW measured, Breaks(rule, measured)
  PROVE  measured # 0
<1> SUFFICES ASSUME measured = 0 PROVE FALSE
  OBVIOUS
<1>1. rule \in DOMAIN limits /\ limits[rule] \in Nat
  BY RulesAssumption DEF Breaks
<1>2. ~(0 > 100 * limits[rule])
  BY <1>1
<1> QED
  BY <1>2 DEF Breaks

\* calculateTotalDrawdown breaks its rule only after a fall, unless the live equity is of a
\* moment before the last point imported.
LEMMA TotalIsAFall ==
  ASSUME MarketFits, NEW known, Shown(known),
         Breaks("total", TotalDrawdown(recorded, known.equity)),
         known.at \notin 1 .. recorded - 1
  PROVE  \E i, j \in During : i < j /\ Fell(i, j, "total")
<1> DEFINE T == Since(recorded)
           H == Highest(T)
           cur == IF known.equity # 0 THEN known.equity ELSE equity[recorded]
<1>1. T \subseteq 1 .. recorded /\ recorded \in 0 .. Moment /\ Moment \in Nat
      /\ limits \in RuleSets
  BY DEF MarketFits, Since, Moment
<1>2. TotalDrawdown(recorded, known.equity) # 0
  BY <1>1, NothingBreaks
<1>3. /\ T # {}
      /\ ~(H <= 0) /\ ~(cur <= 0) /\ ~(cur > H)
      /\ TotalDrawdown(recorded, known.equity) = Hundredths(H - cur, H)
  BY <1>2 DEF TotalDrawdown
<1>4. PICK i \in T : equity[i] = H
  BY <1>1, <1>3, EquitiesAreReached
<1>5. i \in 1 .. recorded /\ i >= Start /\ i \in Int /\ H \in Int
  <2>1. i \in 1 .. recorded /\ i >= Start /\ i \in Int
    BY <1>1, <1>4 DEF Since
  <2>2. equity[i] \in Int
    BY <1>1, <2>1 DEF MarketFits, Moment
  <2> QED
    BY <1>4, <2>1, <2>2
<1>6. PICK j \in recorded .. Moment : equity[j] = cur /\ cur \in Int
  <2>1. recorded \in 1 .. Moment /\ equity[recorded] \in Int
    BY <1>1, <1>5 DEF MarketFits, Moment
  <2>2. CASE known.equity # 0
    <3>1. known # Unseen
      BY <2>2 DEF Unseen
    <3>2. known.at \in 1 .. Moment /\ known.equity = equity[known.at]
      BY <3>1 DEF Shown
    <3>3. known.at \in recorded .. Moment
      BY <1>1, <3>2
    <3>4. equity[known.at] \in Int
      BY <3>2 DEF MarketFits, Moment
    <3> QED
      BY <2>2, <3>2, <3>3, <3>4
  <2>3. CASE known.equity = 0
    BY <1>1, <2>1, <2>3
  <2> QED
    BY <2>2, <2>3
<1> HIDE DEF T, H, cur
<1>7. cur < H
  BY <1>1, <1>3, <1>5, <1>6, PositiveMeasureFalls
<1>8. i < j
  BY <1>1, <1>4, <1>5, <1>6, <1>7
<1>9. i \in During /\ j \in During
  BY <1>1, <1>5, <1>6, <1>8, RulesAssumption DEF During
<1>10. Fell(i, j, "total")
  BY <1>3, <1>4, <1>5, <1>6, <1>7, <1>9 DEF Fell
<1> QED
  BY <1>8, <1>9, <1>10

\* calculateDailyDrawdown breaks its rule only if some day of the marathon has an equity that
\* far below another.
LEMMA DailyIsAFall ==
  ASSUME MarketFits, Breaks("daily", DailyDrawdown(recorded))
  PROVE  DailyFact
<1> DEFINE T == Since(recorded)
           OfDay(t) == {u \in T : Day(u) = Day(t)}
           D == {DayDrawdown(OfDay(t)) : t \in T}
<1>1. T \subseteq 1 .. recorded /\ recorded \in 0 .. Moment /\ Moment \in Nat
      /\ limits \in RuleSets
  BY DEF MarketFits, Since, Moment
<1>2. DailyDrawdown(recorded) = Max({0} \cup D)
  BY DEF DailyDrawdown
<1>3. ASSUME NEW t \in T
      PROVE  /\ OfDay(t) # {} /\ OfDay(t) \subseteq 1 .. recorded
             /\ Highest(OfDay(t)) \in Int /\ Lowest(OfDay(t)) \in Int
             /\ Lowest(OfDay(t)) <= Highest(OfDay(t))
             /\ \E i \in OfDay(t) : equity[i] = Highest(OfDay(t))
             /\ \E j \in OfDay(t) : equity[j] = Lowest(OfDay(t))
  <2>1. OfDay(t) # {} /\ OfDay(t) \subseteq 1 .. recorded
    BY <1>1
  <2> HIDE DEF OfDay
  <2>2. /\ \E i \in OfDay(t) : equity[i] = Highest(OfDay(t))
        /\ \E i \in OfDay(t) : equity[i] = Lowest(OfDay(t))
        /\ \A i \in OfDay(t) : /\ equity[i] \in Int
                               /\ equity[i] <= Highest(OfDay(t))
                               /\ equity[i] >= Lowest(OfDay(t))
    BY <1>1, <2>1, EquitiesAreReached
  <2>3. Highest(OfDay(t)) \in Int /\ Lowest(OfDay(t)) \in Int
    BY <2>2
  <2> QED
    BY <2>1, <2>2, <2>3
<1>4. ASSUME NEW t \in T PROVE DayDrawdown(OfDay(t)) \in Int
  <2> DEFINE hi == Highest(OfDay(t))
             lo == Lowest(OfDay(t))
  <2>1. hi \in Int /\ lo \in Int
    BY <1>3
  <2>2. DayDrawdown(OfDay(t)) = IF hi <= 0 THEN 0 ELSE Hundredths(hi - lo, hi)
    BY DEF DayDrawdown
  <2> HIDE DEF hi, lo
  <2>3. CASE hi <= 0
    BY <2>2, <2>3
  <2>4. CASE ~(hi <= 0)
    <3>1. hi \in Nat /\ hi > 0 /\ hi - lo \in Int
      BY <2>1, <2>4
    <3> QED
      BY <2>2, <2>4, <3>1, MeasureIsInt
  <2> QED
    BY <2>3, <2>4
<1>5. IsFiniteSet(T)
  <2>1. IsFiniteSet(1 .. recorded)
    BY <1>1, FS_Interval
  <2> QED
    BY <1>1, <2>1, FS_Subset
<1>6. IsFiniteSet(D)
  <2> DEFINE f == [t \in T |-> DayDrawdown(OfDay(t))]
  <2>1. f \in Surjection(T, D)
    BY DEF Surjection
  <2> HIDE DEF f, T, D
  <2> QED
    BY <1>5, <2>1, FS_Surjection
<1>7. {0} \cup D \subseteq Int /\ IsFiniteSet({0} \cup D) /\ {0} \cup D # {}
  <2>1. D \subseteq Int
    BY <1>4
  <2> HIDE DEF D
  <2>2. IsFiniteSet(D \cup {0})
    BY <1>6, FS_AddElement
  <2>3. D \cup {0} = {0} \cup D
    OBVIOUS
  <2> QED
    BY <2>1, <2>2, <2>3
<1>8. Max({0} \cup D) \in {0} \cup D
  <2> HIDE DEF D
  <2> QED
    BY <1>7, MaxIsReached
<1>9. DailyDrawdown(recorded) # 0
  BY <1>1, NothingBreaks
<1>10. PICK t \in T : DailyDrawdown(recorded) = DayDrawdown(OfDay(t))
  <2>1. DailyDrawdown(recorded) \in D
    BY <1>2, <1>8, <1>9
  <2> QED
    BY <2>1
<1>11. PICK i \in OfDay(t), j \in OfDay(t) :
         equity[i] = Highest(OfDay(t)) /\ equity[j] = Lowest(OfDay(t))
  BY <1>3
<1>12. ~(equity[i] <= 0) /\ DailyDrawdown(recorded) = Hundredths(equity[i] - equity[j], equity[i])
  BY <1>9, <1>10, <1>11 DEF DayDrawdown
<1>13. equity[i] \in Int /\ equity[j] \in Int /\ equity[j] <= equity[i]
  BY <1>3, <1>11
<1>14. equity[j] < equity[i]
  BY <1>1, <1>12, <1>13, PositiveMeasureFalls
<1>15. Day(i) = Day(j) /\ i \in T /\ j \in T
  OBVIOUS
<1>16. i \in During /\ j \in During
  BY <1>1, <1>15 DEF During, Since
<1> HIDE DEF T, D, OfDay
<1>17. Fell(i, j, "daily")
  BY <1>12, <1>13, <1>14, <1>16 DEF Fell
<1> QED
  BY <1>15, <1>16, <1>17 DEF DailyFact

------------------------------------------------------------------------------
\* The past stays: what a step may do to market, snapshot and history variables.
Goes ==
  /\ limits' = limits
  /\ equity' \in Seq(Int) /\ Len(equity) <= Len(equity')
  /\ \A t \in 1 .. Len(equity) : equity'[t] = equity[t]
  /\ profit' \in Seq(Int) /\ Len(profit') = Len(equity')
  /\ \A t \in 1 .. Len(equity) : profit'[t] = profit[t]
  /\ traded' \in Seq(Nat) /\ reported' \in Nat
  /\ Moment >= End => InTime' = InTime
  /\ recorded' \in 0 .. Len(equity')
  /\ (outdated => outdated') /\ (behind => behind')
  /\ snapshot' \in Snapshots

\* What is a fact once stays one.
LEMMA FactsStay ==
  ASSUME MarketFits, Goes, NEW R, AreFacts(R)
  PROVE  AreFacts(R)'
<1>1. Moment \in Nat /\ Moment' \in Nat /\ Moment <= Moment'
  BY DEF MarketFits, Goes, Moment
<1>2. During \subseteq During'
  BY <1>1 DEF During
<1>3. ASSUME NEW i \in During, NEW j \in During, NEW rule, Fell(i, j, rule)
      PROVE  Fell(i, j, rule)'
  <2>1. equity'[i] = equity[i] /\ equity'[j] = equity[j]
    BY DEF Goes, During, Moment
  <2>2. limits' = limits
    BY DEF Goes
  <2> QED
    BY <1>2, <1>3, <2>1, <2>2 DEF Fell, Breaks
<1>4. TotalFact => TotalFact'
  BY <1>2, <1>3 DEF TotalFact, Goes
<1>5. DailyFact => DailyFact'
  BY <1>2, <1>3 DEF DailyFact
<1>6. FloatingFact => FloatingFact'
  <2> SUFFICES ASSUME NEW t \in 1 .. Moment, Risked(t) PROVE FloatingFact'
    BY DEF FloatingFact
  <2>1. t \in 1 .. Moment'
    BY <1>1
  <2>2. equity'[t] = equity[t] /\ profit'[t] = profit[t] /\ limits' = limits
    BY DEF Goes, Moment
  <2>3. Risked(t)'
    BY <2>2 DEF Risked, Breaks
  <2> QED
    BY <2>1, <2>3 DEF FloatingFact
<1>7. TradesFact => TradesFact'
  <2> SUFFICES ASSUME TradesFact PROVE TradesFact'
    OBVIOUS
  <2>1. Moment >= End /\ Moment' >= End
    BY <1>1, RulesAssumption DEF TradesFact
  <2>2. InTime' = InTime /\ limits' = limits /\ (behind => behind')
    BY <2>1 DEF Goes
  <2> QED
    BY <2>1, <2>2 DEF TradesFact
<1> QED
  BY <1>4, <1>5, <1>6, <1>7 DEF AreFacts

LEMMA ShownStays ==
  ASSUME MarketFits, Goes, NEW s, Shown(s)
  PROVE  Shown(s)'
<1>1. CASE s = Unseen
  BY <1>1 DEF Shown
<1>2. CASE s.at \in 1 .. Moment /\ s.equity = equity[s.at] /\ s.profit = profit[s.at]
  <2>0. PICK i : i = s.at
    OBVIOUS
  <2>3. Len(equity) \in Nat /\ Len(equity') \in Nat /\ Len(equity) <= Len(equity')
    BY DEF MarketFits, Goes
  <2>4. Moment = Len(equity) /\ Moment' = Len(equity')
    BY DEF Moment
  <2>5. i \in 1 .. Len(equity) /\ i \in 1 .. Moment'
    BY <1>2, <2>0, <2>3, <2>4
  <2>1. s.at \in 1 .. Len(equity) /\ s.at \in 1 .. Moment'
    BY <2>0, <2>5
  <2>2. equity'[s.at] = equity[s.at] /\ profit'[s.at] = profit[s.at]
    BY <2>1 DEF Goes
  <2> QED
    BY <1>2, <2>1, <2>2 DEF Shown
<1> QED
  BY <1>1, <1>2 DEF Shown

\* A check that is left alone still fits.
LEMMA CheckStays ==
  ASSUME MarketFits, Goes, NEW c, CheckFits(c), check'[c] = check[c]
  PROVE  CheckFits(c)'
<1>1. CASE check[c] = Resting
  BY <1>1 DEF CheckFits
<1>2. CASE check[c] # Resting
  <2> DEFINE s == check[c].seen
             R == check[c].reasons
  <2>1. Shown(s) /\ AreFacts(R)
    BY <1>2 DEF CheckFits
  <2> HIDE DEF s, R
  <2>2. Shown(s)' /\ AreFacts(R)'
    BY <2>1, FactsStay, ShownStays DEF s, R
  <2> QED
    BY <1>2, <2>2 DEF CheckFits, s, R
<1> QED
  BY <1>1, <1>2

\* Steps of the account, of imports and of the status job, which no check takes.
LEMMA WorldKeeps ==
  ASSUME RulesInv, Goes, Shown(snapshot)', UNCHANGED <<check, reasons>>
  PROVE  RulesInv'
<1>1. MarketFits /\ AreFacts(reasons)
  BY DEF RulesInv, ReasonsAreFacts, AreFacts, TotalFact, DailyFact, FloatingFact, TradesFact
<1>2. MarketFits'
  BY <1>1 DEF MarketFits, Goes, Moment
<1>3. \A c \in Checks : CheckFits(c)'
  BY <1>1, CheckStays DEF RulesInv
<1>4. AreFacts(reasons)'
  <2> DEFINE R == reasons
  <2>1. AreFacts(R) /\ R' = R
    BY <1>1
  <2> HIDE DEF R
  <2>2. AreFacts(R)'
    BY <1>1, <2>1, FactsStay
  <2> QED
    BY <2>2 DEF R
<1>5. ReasonsAreFacts'
  BY <1>4 DEF ReasonsAreFacts, AreFacts, TotalFact, DailyFact, FloatingFact, TradesFact
<1> QED
  BY <1>2, <1>3, <1>5 DEF RulesInv

\* One check moves on; the others and the reasons stored stay.
LEMMA OneCheckKeeps ==
  ASSUME RulesInv, Goes, Shown(snapshot)', NEW c \in Checks, NEW k,
         check' = [check EXCEPT ![c] = k], CheckFits(c)', ReasonsAreFacts'
  PROVE  RulesInv'
<1>1. MarketFits /\ MarketFits'
  BY DEF RulesInv, MarketFits, Goes, Moment
<1>2. check' = [d \in Checks |-> check'[d]]
  BY DEF RulesInv
<1>3. ASSUME NEW d \in Checks PROVE CheckFits(d)'
  <2>1. CASE d = c
    BY <2>1
  <2>2. CASE d # c
    <3>1. check'[d] = check[d] /\ CheckFits(d)
      BY <2>2 DEF RulesInv
    <3> QED
      BY <1>1, <3>1, CheckStays
  <2> QED
    BY <2>1, <2>2
<1> QED
  BY <1>1, <1>2, <1>3 DEF RulesInv

\* Where account, imports and snapshot stay, so does what was stored of them.
still == <<limits, market, imported>>

LEMMA NothingGoes ==
  ASSUME RulesInv, UNCHANGED still, outdated => outdated', behind => behind'
  PROVE  Goes /\ Shown(snapshot)' /\ (UNCHANGED reasons => ReasonsAreFacts')
<1>1. Goes
  BY DEF RulesInv, MarketFits, Goes, Moment, InTime, still, market, imported
<1>2. Shown(snapshot)'
  BY DEF RulesInv, MarketFits, Shown, Moment, still, market, imported
<1>3. ASSUME UNCHANGED reasons PROVE ReasonsAreFacts'
  <2> DEFINE R == reasons
  <2>1. AreFacts(R) /\ R' = R /\ MarketFits
    BY <1>3 DEF RulesInv, ReasonsAreFacts, AreFacts, TotalFact, DailyFact, FloatingFact, TradesFact
  <2> HIDE DEF R
  <2>2. AreFacts(R)'
    BY <1>1, <2>1, FactsStay
  <2> QED
    BY <2>2 DEF R, ReasonsAreFacts, AreFacts, TotalFact, DailyFact, FloatingFact, TradesFact
<1> QED
  BY <1>1, <1>2, <1>3

LEMMA RulesInitInv == RulesInit => RulesInv
<1> SUFFICES ASSUME RulesInit PROVE RulesInv
  OBVIOUS
<1>1. MarketFits
  <2>1. /\ limits \in RuleSets /\ equity = <<>> /\ profit = <<>> /\ traded = <<>>
        /\ recorded = 0 /\ reported = 0 /\ snapshot = Unseen
    BY DEF RulesInit
  <2>2. /\ equity \in Seq(Int) /\ Len(equity) = 0
        /\ profit \in Seq(Int) /\ Len(profit) = 0
        /\ traded \in Seq(Nat)
    BY <2>1
  <2>3. Unseen \in Snapshots
    BY DEF Unseen, Snapshots
  <2> QED
    BY <2>1, <2>2, <2>3 DEF MarketFits, Shown, Moment
<1>2. check = [c \in Checks |-> check[c]] /\ \A c \in Checks : CheckFits(c)
  BY DEF RulesInit, CheckFits
<1>3. ReasonsAreFacts
  BY DEF RulesInit, ReasonsAreFacts
<1> QED
  BY <1>1, <1>2, <1>3 DEF RulesInv

LEMMA MoveKeeps ==
  ASSUME RulesInv, NEW point \in Points, Move(point)
  PROVE  RulesInv'
<1>1. /\ equity \in Seq(Int) /\ equity' = Append(equity, point[1]) /\ point[1] \in Int
      /\ profit \in Seq(Int) /\ profit' = Append(profit, point[2]) /\ point[2] \in Int
      /\ Len(profit) = Len(equity)
  BY RulesAssumption DEF RulesInv, MarketFits, Move
<1>2. /\ equity' \in Seq(Int) /\ Len(equity') = Len(equity) + 1
      /\ \A t \in 1 .. Len(equity) : equity'[t] = equity[t]
      /\ profit' \in Seq(Int) /\ Len(profit') = Len(equity) + 1
      /\ \A t \in 1 .. Len(equity) : profit'[t] = profit[t]
      /\ Len(equity) \in Nat
  BY <1>1
<1>3. UNCHANGED <<limits, traded, recorded, reported, snapshot, check, reasons, outdated, behind>>
  BY DEF Move, imported, past
<1>4. Goes
  BY <1>2, <1>3 DEF RulesInv, MarketFits, Goes, Moment, InTime
<1>5. Shown(snapshot)'
  <2> DEFINE s == snapshot
  <2>1. Shown(s) /\ s' = s /\ MarketFits
    BY <1>3 DEF RulesInv, MarketFits
  <2> HIDE DEF s
  <2>2. Shown(s)'
    BY <1>4, <2>1, ShownStays
  <2> QED
    BY <2>2 DEF s
<1> QED
  BY <1>3, <1>4, <1>5, WorldKeeps

LEMMA ImportHistoryKeeps ==
  ASSUME RulesInv, ImportHistory
  PROVE  RulesInv'
<1>1. /\ UNCHANGED <<limits, equity, profit, traded, reported, snapshot, check, reasons, outdated, behind>>
      /\ recorded' = Moment
  BY DEF ImportHistory, market, past
<1>2. Goes
  BY <1>1 DEF RulesInv, MarketFits, Goes, Moment, InTime
<1>3. Shown(snapshot)'
  BY <1>1 DEF RulesInv, MarketFits, Shown, Moment
<1> QED
  BY <1>1, <1>2, <1>3, WorldKeeps

\* A trade that is closed once the end has come is not closed in time.
LEMMA CloseTradeKeeps ==
  ASSUME RulesInv, CloseTrade
  PROVE  RulesInv'
<1>1. /\ UNCHANGED <<limits, equity, profit, recorded, reported, snapshot, check, reasons, outdated, behind>>
      /\ traded' = Append(traded, Moment)
  BY DEF CloseTrade, imported, past
<1>2. traded \in Seq(Nat) /\ Moment \in Nat
  BY DEF RulesInv, MarketFits, Moment
<1>3. /\ traded' \in Seq(Nat) /\ DOMAIN traded' = DOMAIN traded \cup {Len(traded) + 1}
      /\ traded'[Len(traded) + 1] = Moment
      /\ \A i \in DOMAIN traded : traded'[i] = traded[i]
  BY <1>1, <1>2
<1>4. Moment >= End => InTime' = InTime
  <2> SUFFICES ASSUME Moment >= End PROVE InTime' = InTime
    OBVIOUS
  <2>1. ~(Moment < End)
    BY <1>2, RulesAssumption
  <2>2. \A i \in DOMAIN traded' : traded'[i] < End => i \in DOMAIN traded /\ traded[i] < End
    BY <1>3, <2>1
  <2>3. \A i \in DOMAIN traded : traded[i] < End => i \in DOMAIN traded' /\ traded'[i] < End
    BY <1>3
  <2> QED
    BY <2>2, <2>3 DEF InTime
<1>5. Goes
  BY <1>1, <1>3, <1>4 DEF RulesInv, MarketFits, Goes, Moment
<1>6. Shown(snapshot)'
  BY <1>1 DEF RulesInv, MarketFits, Shown, Moment
<1> QED
  BY <1>1, <1>5, <1>6, WorldKeeps

LEMMA ImportReportKeeps ==
  ASSUME RulesInv, ImportReport
  PROVE  RulesInv'
<1>1. /\ UNCHANGED <<limits, equity, profit, traded, recorded, snapshot, check, reasons, outdated, behind>>
      /\ reported' = Len(traded)
  BY DEF ImportReport, market, past
<1>2. Goes
  BY <1>1 DEF RulesInv, MarketFits, Goes, Moment, InTime
<1>3. Shown(snapshot)'
  BY <1>1 DEF RulesInv, MarketFits, Shown, Moment
<1> QED
  BY <1>1, <1>2, <1>3, WorldKeeps

LEMMA SyncStatusKeeps ==
  ASSUME RulesInv, SyncStatus
  PROVE  RulesInv'
<1>1. UNCHANGED still /\ UNCHANGED <<check, reasons>> /\ (outdated => outdated') /\ (behind => behind')
  BY DEF SyncStatus, still, past
<1> QED
  BY <1>1, NothingGoes, WorldKeeps

\* A check that has become a row like that fits if what it holds does.
LEMMA RowFits ==
  ASSUME RulesInv, NEW c \in Checks, NEW k \in CheckRow, check' = [check EXCEPT ![c] = k],
         NEW s, NEW R, s = k.seen, R = k.reasons, Shown(s)', AreFacts(R)'
  PROVE  CheckFits(c)'
<1>1. check'[c] = k
  BY DEF RulesInv
<1> QED
  BY <1>1 DEF CheckFits, CheckRow

LEMMA RestingFits ==
  ASSUME RulesInv, NEW c \in Checks, check' = [check EXCEPT ![c] = Resting]
  PROVE  CheckFits(c)'
BY DEF RulesInv, CheckFits

\* A check that begins has found nothing.
LEMMA AskedFits ==
  ASSUME RulesInv, NEW c \in Checks, NEW fresh \in BOOLEAN, check' = [check EXCEPT ![c] = Asked(fresh)]
  PROVE  CheckFits(c)'
<1>1. AreFacts({})' /\ Shown(Unseen)'
  BY DEF AreFacts, Shown
<1>2. Asked(fresh) \in CheckRow /\ Asked(fresh).seen = Unseen /\ Asked(fresh).reasons = {}
  BY DEF Asked, CheckRow, Unseen, Snapshots
<1> HIDE DEF Asked
<1> QED
  BY <1>1, <1>2, RowFits

LEMMA BeginCheckKeeps ==
  ASSUME RulesInv, NEW c \in Checks, BeginCheck(c)
  PROVE  RulesInv'
<1>1. check' = [check EXCEPT ![c] = Asked(FALSE)]
  BY DEF BeginCheck
<1>2. UNCHANGED still /\ UNCHANGED reasons /\ (outdated => outdated') /\ (behind => behind')
  BY DEF BeginCheck, still, past
<1>3. CheckFits(c)'
  BY <1>1, AskedFits
<1> QED
  BY <1>1, <1>2, <1>3, NothingGoes, OneCheckKeeps

LEMMA PushProfitKeeps ==
  ASSUME RulesInv, NEW c \in Checks, PushProfit(c)
  PROVE  RulesInv'
<1>1. check' = [check EXCEPT ![c] = Asked(TRUE)]
  BY DEF PushProfit
<1>2. /\ UNCHANGED <<limits, equity, profit, traded, recorded, reported, reasons, outdated, behind>>
      /\ Moment > 0
      /\ snapshot' = SnapshotOf(Moment)
  BY DEF PushProfit, market, past
<1>3. Moment \in Nat /\ Moment \in 1 .. Len(profit) /\ equity[Moment] \in Int /\ profit[Moment] \in Int
  BY <1>2 DEF RulesInv, MarketFits, Moment
<1>4. /\ snapshot'.at = Moment /\ snapshot'.equity = equity[Moment] /\ snapshot'.profit = profit[Moment]
      /\ snapshot' \in Snapshots
  BY <1>2, <1>3 DEF SnapshotOf, Snapshots
<1>5. Goes
  BY <1>2, <1>4 DEF RulesInv, MarketFits, Goes, Moment, InTime
<1>6. Shown(snapshot)'
  BY <1>2, <1>4 DEF RulesInv, MarketFits, Shown, Moment
<1>7. CheckFits(c)'
  BY <1>1, AskedFits
<1>8. ReasonsAreFacts'
  <2> DEFINE R == reasons
  <2>1. AreFacts(R) /\ R' = R /\ MarketFits
    BY <1>2 DEF RulesInv, ReasonsAreFacts, AreFacts, TotalFact, DailyFact, FloatingFact, TradesFact
  <2> HIDE DEF R
  <2>2. AreFacts(R)'
    BY <1>5, <2>1, FactsStay
  <2> QED
    BY <2>2 DEF R, ReasonsAreFacts, AreFacts, TotalFact, DailyFact, FloatingFact, TradesFact
<1> QED
  BY <1>1, <1>5, <1>6, <1>7, <1>8, OneCheckKeeps

\* What a check under way holds, and that it still fits after a step that adds no facts.
LEMMA HeldByACheck ==
  ASSUME RulesInv, NEW c \in Checks, check[c].stage # "resting",
         UNCHANGED still, outdated => outdated', behind => behind'
  PROVE  /\ check[c] \in CheckRow
         /\ Shown(check[c].seen)
         /\ AreFacts(check[c].reasons)
         /\ \A s : Shown(s) => Shown(s)'
         /\ \A R : AreFacts(R) => AreFacts(R)'
<1>1. check[c] # Resting
  BY DEF Resting
<1>2. CheckFits(c) /\ MarketFits /\ Goes
  BY NothingGoes DEF RulesInv
<1>3. \A s : Shown(s) => Shown(s)'
  BY <1>2, ShownStays
<1>4. \A R : AreFacts(R) => AreFacts(R)'
  BY <1>2, FactsStay
<1> QED
  BY <1>1, <1>2, <1>3, <1>4 DEF CheckFits

\* A check that goes on with what it holds already.
LEMMA HoldingKeeps ==
  ASSUME RulesInv, NEW c \in Checks, check[c].stage # "resting",
         UNCHANGED still, UNCHANGED reasons, outdated => outdated', behind => behind',
         NEW k \in CheckRow, check' = [check EXCEPT ![c] = k],
         NEW s, NEW R, s = k.seen, R = k.reasons, Shown(s), AreFacts(R)'
  PROVE  RulesInv'
<1>1. Shown(s)'
  BY HeldByACheck
<1>2. CheckFits(c)'
  BY <1>1, RowFits
<1> QED
  BY <1>2, NothingGoes, OneCheckKeeps

LEMMA StoppingKeeps ==
  ASSUME RulesInv, NEW c \in Checks, check' = [check EXCEPT ![c] = Resting],
         UNCHANGED still, outdated => outdated', behind => behind',
         ReasonsAreFacts'
  PROVE  RulesInv'
BY RestingFits, NothingGoes, OneCheckKeeps

LEMMA ReadParticipantKeeps ==
  ASSUME RulesInv, NEW c \in Checks, ReadParticipant(c)
  PROVE  RulesInv'
<1>1. UNCHANGED still /\ UNCHANGED reasons /\ (outdated => outdated') /\ (behind => behind')
      /\ check[c].stage = "participant"
  BY DEF ReadParticipant, still, past
<1>2. CASE check' = [check EXCEPT ![c] = Resting]
  BY <1>1, <1>2, NothingGoes, StoppingKeeps
<1>3. CASE check' = [check EXCEPT ![c] = [check[c] EXCEPT !.stage = "report"]]
  <2> DEFINE k == [check[c] EXCEPT !.stage = "report"]
  <2>1. /\ check[c] \in CheckRow
        /\ Shown(check[c].seen)
        /\ AreFacts(check[c].reasons)
        /\ \A R : AreFacts(R) => AreFacts(R)'
    BY <1>1, HeldByACheck
  <2>2. k \in CheckRow /\ k.seen = check[c].seen /\ k.reasons = check[c].reasons
    BY <2>1 DEF CheckRow
  <2>3. PICK s, R : s = check[c].seen /\ R = check[c].reasons
    OBVIOUS
  <2>4. Shown(s) /\ AreFacts(R)'
    BY <2>1, <2>3
  <2> HIDE DEF k
  <2> QED
    BY <1>1, <1>3, <2>2, <2>3, <2>4, HoldingKeeps DEF k
<1> QED
  BY <1>2, <1>3 DEF ReadParticipant

\* A report that is not behind shows all trades that were closed in time.
LEMMA TooFewIsAFact ==
  ASSUME RulesInv, NEW c \in Checks, ReadReport(c), TooFewTrades
  PROVE  TradesFact'
<1>1. /\ traded \in Seq(Nat) /\ reported \in Nat
      /\ reported < limits["minTrades"] /\ limits["minTrades"] \in Nat
      /\ Moment >= End
  BY RulesAssumption DEF RulesInv, MarketFits, TooFewTrades
<1>2. UNCHANGED <<limits, equity, traded>> /\ behind' = (behind \/ reported < Len(traded))
  BY DEF ReadReport, market, TooFewTrades
<1>3. CASE reported < Len(traded)
  BY <1>1, <1>2, <1>3 DEF TradesFact, Moment
<1>4. CASE ~(reported < Len(traded))
  <2>1. DOMAIN traded = 1 .. Len(traded) /\ Len(traded) \in Nat
    BY <1>1
  <2>2. IsFiniteSet(DOMAIN traded) /\ Cardinality(DOMAIN traded) = Len(traded)
    <3>1. PICK m \in Nat : m = Len(traded) /\ DOMAIN traded = 1 .. m
      BY <2>1
    <3>2. IsFiniteSet(1 .. m) /\ Cardinality(1 .. m) = (IF 1 > m THEN 0 ELSE m - 1 + 1)
      <4>1. 1 \in Int /\ m \in Int
        OBVIOUS
      <4> QED
        BY <4>1, FS_Interval, Zenon
    <3>3. (IF 1 > m THEN 0 ELSE m - 1 + 1) = m
      BY <3>1
    <3> QED
      BY <3>1, <3>2, <3>3
  <2>3. InTime \subseteq DOMAIN traded
    BY DEF InTime
  <2>4. IsFiniteSet(InTime) /\ Cardinality(InTime) <= Cardinality(DOMAIN traded)
    BY <2>2, <2>3, FS_Subset
  <2>5. Cardinality(InTime) \in Nat
    BY <2>4, FS_CardinalityType
  <2> DEFINE n == Cardinality(InTime)
             m == limits["minTrades"]
  <2>6. n < m
    <3>1. n \in Nat /\ n <= Len(traded) /\ m \in Nat /\ reported < m
      BY <1>1, <2>2, <2>4, <2>5
    <3> HIDE DEF n, m
    <3> QED
      BY <1>1, <1>4, <2>1, <3>1
  <2>7. InTime' = InTime
    BY <1>2 DEF InTime
  <2> QED
    BY <1>1, <1>2, <2>6, <2>7 DEF TradesFact, Moment
<1> QED
  BY <1>3, <1>4

LEMMA ReadReportKeeps ==
  ASSUME RulesInv, NEW c \in Checks, ReadReport(c)
  PROVE  RulesInv'
<1> DEFINE t == IF check[c].live THEN snapshot ELSE Unseen
           Q == Found(c, "minTrades", TooFewTrades)
           k == [check[c] EXCEPT !.stage = "total", !.seen = t, !.reasons = Q]
<1>1. /\ UNCHANGED still /\ UNCHANGED reasons
      /\ (outdated => outdated') /\ (behind => behind')
      /\ check[c].stage = "report"
  BY DEF ReadReport, still, past
<1>2. /\ check[c] \in CheckRow
      /\ AreFacts(check[c].reasons)
      /\ \A R : AreFacts(R) => AreFacts(R)'
  BY <1>1, HeldByACheck
<1>3. check' = [check EXCEPT ![c] = k]
  BY DEF ReadReport
<1>4. t \in Snapshots /\ Shown(t)
  <2>1. Unseen \in Snapshots /\ Shown(Unseen)
    BY DEF Unseen, Snapshots, Shown
  <2> QED
    BY <2>1 DEF RulesInv, MarketFits
<1>5. Q \in SUBSET RuleNames
  BY <1>2 DEF Found, RuleNames, CheckRow
<1>6. PICK F : F = check[c].reasons
  OBVIOUS
<1>7. Q = IF TooFewTrades THEN F \cup {"minTrades"} ELSE F
  BY <1>6 DEF Found
<1>8. PICK s, R : s = t /\ R = Q
  OBVIOUS
<1> HIDE DEF t, Q
<1>9. AreFacts(R)'
  <2>1. AreFacts(F)'
    BY <1>2, <1>6
  <2>2. CASE TooFewTrades
    <3>1. TradesFact' /\ R = F \cup {"minTrades"}
      BY <1>7, <1>8, <2>2, TooFewIsAFact
    <3> QED
      BY <2>1, <3>1 DEF AreFacts
  <2>3. CASE ~TooFewTrades
    BY <1>7, <1>8, <2>1, <2>3
  <2> QED
    BY <2>2, <2>3
<1>10. k \in CheckRow /\ k.seen = t /\ k.reasons = Q
  BY <1>2, <1>4, <1>5 DEF CheckRow
<1>11. Shown(s)
  BY <1>4, <1>8
<1> HIDE DEF k
<1> QED
  BY <1>1, <1>3, <1>8, <1>9, <1>10, <1>11, HoldingKeeps

\* What a snapshot that was read shows beyond the limit was so at its moment.
LEMMA RiskWasShown ==
  ASSUME MarketFits, NEW s, Shown(s), s.at > 0, Breaks("floating", FloatingRisk(s))
  PROVE  FloatingFact
<1>1. s # Unseen
  BY DEF Unseen
<1>2. s.at \in 1 .. Moment /\ s.equity = equity[s.at] /\ s.profit = profit[s.at]
  BY <1>1 DEF Shown
<1>3. equity[s.at] \in Int
  BY <1>2 DEF MarketFits, Moment
<1>4. FloatingRisk(s) # 0
  BY NothingBreaks DEF MarketFits
<1>5. ~(s.equity <= 0) /\ FloatingRisk(s) = Hundredths(Size(s.profit), s.equity)
  BY <1>4 DEF FloatingRisk
<1>6. Risked(s.at)
  BY <1>2, <1>3, <1>5 DEF Risked
<1> QED
  BY <1>2, <1>6 DEF FloatingFact

\* Facts hold of what has not moved.
LEMMA FallsStand ==
  ASSUME UNCHANGED <<limits, equity>>
  PROVE  During' = During /\ \A i, j, rule : Fell(i, j, rule)' <=> Fell(i, j, rule)
BY DEF During, Moment, Fell, Breaks

LEMMA MeasureTotalKeeps ==
  ASSUME RulesInv, NEW c \in Checks, NEW fails \in BOOLEAN, MeasureTotal(c, fails)
  PROVE  RulesInv'
<1> DEFINE broken == ~fails /\ Breaks("total", TotalDrawdown(recorded, check[c].seen.equity))
           Q == Found(c, "total", broken)
           k == [check[c] EXCEPT !.stage = "daily", !.reasons = Q]
<1>1. /\ UNCHANGED still /\ UNCHANGED reasons
      /\ (outdated => outdated') /\ (behind => behind')
      /\ check[c].stage = "total"
  BY DEF MeasureTotal, still, past
<1>2. /\ check[c] \in CheckRow
      /\ Shown(check[c].seen)
      /\ AreFacts(check[c].reasons)
      /\ \A R : AreFacts(R) => AreFacts(R)'
  BY <1>1, HeldByACheck
<1>3. check' = [check EXCEPT ![c] = k]
  BY DEF MeasureTotal
<1>4. Q \in SUBSET RuleNames
  BY <1>2 DEF Found, RuleNames, CheckRow
<1>5. PICK s, F : s = check[c].seen /\ F = check[c].reasons
  OBVIOUS
<1>6. Shown(s) /\ AreFacts(F)'
  BY <1>2, <1>5
<1>7. broken => TotalFact'
  <2> SUFFICES ASSUME broken PROVE TotalFact'
    OBVIOUS
  <2>1. CASE check[c].seen.at \in 1 .. recorded - 1
    <3>1. outdated'
      BY <2>1 DEF MeasureTotal
    <3> QED
      BY <3>1 DEF TotalFact
  <2>2. CASE check[c].seen.at \notin 1 .. recorded - 1
    <3>1. Breaks("total", TotalDrawdown(recorded, s.equity)) /\ MarketFits
      BY <1>5 DEF RulesInv
    <3>2. s.at \notin 1 .. recorded - 1
      BY <1>5, <2>2
    <3>3. \E i, j \in During : i < j /\ Fell(i, j, "total")
      BY <1>6, <3>1, <3>2, TotalIsAFall
    <3> QED
      BY <1>1, <3>3, FallsStand DEF TotalFact, still, market
  <2> QED
    BY <2>1, <2>2
<1>8. Q = IF broken THEN F \cup {"total"} ELSE F
  BY <1>5 DEF Found
<1>9. PICK R : R = Q
  OBVIOUS
<1> HIDE DEF broken, Q
<1>10. AreFacts(R)'
  <2>1. CASE broken
    <3>1. R = F \cup {"total"}
      BY <1>8, <1>9, <2>1
    <3> QED
      BY <1>6, <1>7, <2>1, <3>1 DEF AreFacts
  <2>2. CASE ~broken
    BY <1>6, <1>8, <1>9, <2>2
  <2> QED
    BY <2>1, <2>2
<1>11. k \in CheckRow /\ k.seen = check[c].seen /\ k.reasons = Q
  BY <1>2, <1>4 DEF CheckRow
<1> HIDE DEF k
<1> QED
  BY <1>1, <1>3, <1>5, <1>6, <1>9, <1>10, <1>11, HoldingKeeps

LEMMA MeasureDailyKeeps ==
  ASSUME RulesInv, NEW c \in Checks, NEW fails \in BOOLEAN, MeasureDaily(c, fails)
  PROVE  RulesInv'
<1> DEFINE broken == ~fails /\ Breaks("daily", DailyDrawdown(recorded))
           daily == Found(c, "daily", broken)
           risky == check[c].seen.at > 0 /\ Breaks("floating", FloatingRisk(check[c].seen))
           Q == IF risky THEN daily \cup {"floating"} ELSE daily
           k == [check[c] EXCEPT !.stage = "save", !.reasons = Q]
<1>1. /\ UNCHANGED still /\ UNCHANGED reasons /\ (outdated => outdated') /\ (behind => behind')
      /\ check[c].stage = "daily"
  BY DEF MeasureDaily, still, past
<1>2. CASE check' = [check EXCEPT ![c] = Resting]
  BY <1>1, <1>2, NothingGoes, StoppingKeeps
<1>3. CASE check' = [check EXCEPT ![c] = k]
  <2>1. /\ check[c] \in CheckRow
        /\ Shown(check[c].seen)
        /\ AreFacts(check[c].reasons)
        /\ \A R : AreFacts(R) => AreFacts(R)'
    BY <1>1, HeldByACheck
  <2>2. Q \in SUBSET RuleNames
    BY <2>1 DEF Found, RuleNames, CheckRow
  <2>3. PICK s, F : s = check[c].seen /\ F = check[c].reasons
    OBVIOUS
  <2>4. Shown(s) /\ AreFacts(F)'
    BY <2>1, <2>3
  <2>5. broken => DailyFact'
    <3> SUFFICES ASSUME broken PROVE DailyFact'
      OBVIOUS
    <3>1. DailyFact
      BY DailyIsAFall DEF RulesInv
    <3> QED
      BY <1>1, <3>1, FallsStand DEF DailyFact, still, market
  <2>6. risky => FloatingFact'
    <3> SUFFICES ASSUME s.at > 0, Breaks("floating", FloatingRisk(s)) PROVE FloatingFact'
      BY <2>3
    <3>1. FloatingFact
      BY <2>4, RiskWasShown DEF RulesInv
    <3> QED
      BY <1>1, <3>1 DEF FloatingFact, Moment, Risked, Breaks, still, market
  <2>7. Q \subseteq F \cup (IF broken THEN {"daily"} ELSE {}) \cup (IF risky THEN {"floating"} ELSE {})
    BY <2>3 DEF Found
  <2>8. PICK R : R = Q
    OBVIOUS
  <2> HIDE DEF broken, risky, daily, Q
  <2>9. AreFacts(R)'
    <3>1. "total" \in R => "total" \in F
      BY <2>7, <2>8
    <3>2. "minTrades" \in R => "minTrades" \in F
      BY <2>7, <2>8
    <3>3. "daily" \in R => "daily" \in F \/ broken
      BY <2>7, <2>8
    <3>4. "floating" \in R => "floating" \in F \/ risky
      BY <2>7, <2>8
    <3> QED
      BY <2>4, <2>5, <2>6, <3>1, <3>2, <3>3, <3>4 DEF AreFacts
  <2>10. k \in CheckRow /\ k.seen = check[c].seen /\ k.reasons = Q
    BY <2>1, <2>2 DEF CheckRow
  <2> HIDE DEF k
  <2> QED
    BY <1>1, <1>3, <2>3, <2>4, <2>8, <2>9, <2>10, HoldingKeeps
<1> QED
  BY <1>2, <1>3 DEF MeasureDaily

LEMMA DisqualifyKeeps ==
  ASSUME RulesInv, NEW c \in Checks, Disqualify(c)
  PROVE  RulesInv'
<1>1. /\ UNCHANGED still /\ (outdated => outdated') /\ (behind => behind')
      /\ check[c].stage = "save"
      /\ reasons' = check[c].reasons
      /\ check' = [check EXCEPT ![c] = Resting]
  BY DEF Disqualify, still, past
<1>2. PICK R : R = check[c].reasons
  OBVIOUS
<1>3. AreFacts(R)'
  <2>1. AreFacts(check[c].reasons) /\ \A Q : AreFacts(Q) => AreFacts(Q)'
    BY <1>1, HeldByACheck
  <2> QED
    BY <1>2, <2>1
<1>4. ReasonsAreFacts'
  BY <1>1, <1>2, <1>3 DEF ReasonsAreFacts, AreFacts, TotalFact, DailyFact, FloatingFact, TradesFact
<1> QED
  BY <1>1, <1>4, StoppingKeeps

LEMMA CheckFailsKeeps ==
  ASSUME RulesInv, NEW c \in Checks, CheckFails(c)
  PROVE  RulesInv'
<1>1. UNCHANGED still /\ UNCHANGED reasons /\ (outdated => outdated') /\ (behind => behind')
      /\ check' = [check EXCEPT ![c] = Resting]
  BY DEF CheckFails, still, past
<1> QED
  BY <1>1, NothingGoes, StoppingKeeps

LEMMA RulesStep == RulesInv /\ [RulesNext]_rulesVars => RulesInv'
<1> SUFFICES ASSUME RulesInv, [RulesNext]_rulesVars PROVE RulesInv'
  OBVIOUS
<1>1. ASSUME NEW c \in Checks, Advance(c) PROVE RulesInv'
  BY <1>1, ReadParticipantKeeps, ReadReportKeeps, DisqualifyKeeps, CheckFailsKeeps,
     MeasureTotalKeeps, MeasureDailyKeeps DEF Advance
<1>2. CASE UNCHANGED rulesVars
  <2>1. UNCHANGED still /\ UNCHANGED <<check, reasons>> /\ (outdated => outdated') /\ (behind => behind')
    BY <1>2 DEF rulesVars, still, market, imported, past
  <2> QED
    BY <2>1, NothingGoes, WorldKeeps
<1> QED
  BY <1>1, <1>2, MoveKeeps, ImportHistoryKeeps, CloseTradeKeeps, ImportReportKeeps,
     SyncStatusKeeps, BeginCheckKeeps, PushProfitKeeps DEF RulesNext

\* Whoever checkParticipantRules disqualifies has fallen by more than a limit during the
\* marathon, or had floated a profit or a loss beyond the limit when a live message was
\* delivered, or the marathon was at its end with fewer trades closed in time than it asks
\* for, or with a report from before some of them: for any rules, any course of the account
\* and any number of checks that overlap with imports.
THEOREM RulesReasonsAreFacts == RulesSpec => []ReasonsAreFacts
<1>1. RulesInv => ReasonsAreFacts
  BY DEF RulesInv
<1> QED
  BY <1>1, RulesInitInv, RulesStep, PTL DEF RulesSpec

------------------------------------------------------------------------------
(***************************************************************************)
(* Feed.  What an invariant says of a handler it says of the record it has *)
(* in handling.                                                            *)
(***************************************************************************)

Delivery == [id : MessageIds, tries : Nat]

SegmentOf(h) == Messages[h.msg.id][h.at]

HandlerFits(h) ==
  \/ h = Ready
  \/ /\ h \in [step : {"next", "saving"}, msg : Delivery, at : Nat, open : BOOLEAN]
     /\ h.step = "saving" => h.at \in 1 .. Len(Messages[h.msg.id]) /\ SegmentOf(h).kind = "report"

Values == [Fields -> Nat]

PushRow == [step : {"emitted", "marked", "fetched"}, login : Logins, data : Values]

FeedFits ==
  /\ published \in 0 .. Len(Messages)
  /\ queue \in Seq(Delivery) /\ delayed \in Seq(Delivery)
  /\ DOMAIN handling = Handlers
  /\ \A w \in Handlers : HandlerFits(handling[w])
  /\ stored \in [Logins -> Values] /\ heard \in [Logins -> Values] /\ live \in [Logins -> Values]
  /\ pushes \subseteq PushRow

\* The handler waits for the database with data of the account.
SavesFor(h, l) == h.step = "saving" /\ SegmentOf(h).login = l

\* One handler or one update at most is on its way with data of the account, and what it
\* has not done yet is all that is missing.
Agrees(l) ==
  /\ \A w \in Handlers : SavesFor(handling[w], l) =>
       /\ \A x \in Handlers : SavesFor(handling[x], l) => x = w
       /\ \A p \in pushes : p.login # l
       /\ heard[l] = Merged(stored[l], SegmentOf(handling[w]), handling[w].msg.id)
  /\ \A p \in pushes : p.login = l =>
       /\ \A q \in pushes : q.login = l => q = p
       /\ stored[l] = heard[l]
       /\ p.step = "fetched" => p.data = stored[l]
  /\ (\A w \in Handlers : ~SavesFor(handling[w], l)) /\ (\A p \in pushes : p.login # l) =>
       live[l] = stored[l] /\ stored[l] = heard[l]

FeedInv == FeedFits /\ \A l \in Logins : l \notin disturbed => Agrees(l)

------------------------------------------------------------------------------
\* A segment that reports names an account and fields of it.
LEMMA SegmentsReport ==
  ASSUME NEW id \in MessageIds, NEW j \in 1 .. Len(Messages[id])
  PROVE  /\ Messages[id][j].kind \in {"report", "skipped", "broken"}
         /\ Messages[id][j].kind = "report" =>
              Messages[id][j].login \in Logins /\ Messages[id][j].fields \subseteq Fields
<1>1. Messages[id] \in Seq(Segment)
  <2>1. Messages \in Seq(Seq(Segment))  BY FeedAssumption
  <2> QED  BY <2>1 DEF MessageIds
<1>2. Messages[id][j] \in Segment  BY <1>1
<1> QED  BY <1>2 DEF Segment

LEMMA HandlerKnows ==
  ASSUME NEW h, HandlerFits(h), h.step # "idle"
  PROVE  /\ h \in [step : {"next", "saving"}, msg : Delivery, at : Nat, open : BOOLEAN]
         /\ h.msg.id \in MessageIds /\ h.msg.id \in Nat /\ h.msg \in Delivery /\ h.msg.tries \in Nat
         /\ h.step = "saving" =>
              /\ h.at \in 1 .. Len(Messages[h.msg.id])
              /\ SegmentOf(h).kind = "report"
              /\ SegmentOf(h).login \in Logins /\ SegmentOf(h).fields \subseteq Fields
<1>1. h # Ready  BY DEF Ready
<1>2. /\ h \in [step : {"next", "saving"}, msg : Delivery, at : Nat, open : BOOLEAN]
      /\ h.step = "saving" => h.at \in 1 .. Len(Messages[h.msg.id]) /\ SegmentOf(h).kind = "report"
  BY <1>1 DEF HandlerFits
<1>3. h.msg \in Delivery  BY <1>2
<1>4. h.msg.id \in MessageIds /\ h.msg.id \in Nat /\ h.msg.tries \in Nat
  BY <1>3 DEF Delivery, MessageIds
<1>5. h.step = "saving" => SegmentOf(h).login \in Logins /\ SegmentOf(h).fields \subseteq Fields
  BY <1>2, <1>4, SegmentsReport DEF SegmentOf
<1> QED  BY <1>2, <1>3, <1>4, <1>5

\* What agrees goes on to agree when a step has nothing to do with the account.
LEMMA AgreementStays ==
  ASSUME NEW l, Agrees(l), stored'[l] = stored[l], heard'[l] = heard[l], live'[l] = live[l],
         \A p : p.login = l => (p \in pushes' <=> p \in pushes),
         \A w \in Handlers : SavesFor(handling'[w], l) <=> SavesFor(handling[w], l),
         \A w \in Handlers : SavesFor(handling[w], l) =>
           handling'[w].msg = handling[w].msg /\ handling'[w].at = handling[w].at
  PROVE  Agrees(l)'
<1>1. ASSUME NEW w \in Handlers, SavesFor(handling'[w], l)
      PROVE  /\ \A x \in Handlers : SavesFor(handling'[x], l) => x = w
             /\ \A p \in pushes' : p.login # l
             /\ heard'[l] = Merged(stored'[l], SegmentOf(handling'[w]), handling'[w].msg.id)
  <2>1. SavesFor(handling[w], l)  BY <1>1
  <2>2. SegmentOf(handling'[w]) = SegmentOf(handling[w]) /\ handling'[w].msg = handling[w].msg
    BY <2>1 DEF SegmentOf
  <2>3. heard[l] = Merged(stored[l], SegmentOf(handling[w]), handling[w].msg.id)  BY <2>1 DEF Agrees
  <2> QED  BY <2>1, <2>2, <2>3 DEF Agrees
<1>2. ASSUME NEW p \in pushes', p.login = l
      PROVE  /\ \A q \in pushes' : q.login = l => q = p
             /\ stored'[l] = heard'[l]
             /\ p.step = "fetched" => p.data = stored'[l]
  BY <1>2 DEF Agrees
<1>3. (\A w \in Handlers : ~SavesFor(handling'[w], l)) /\ (\A p \in pushes' : p.login # l) =>
        live'[l] = stored'[l] /\ stored'[l] = heard'[l]
  BY DEF Agrees
<1> QED  BY <1>1, <1>2, <1>3 DEF Agrees, SavesFor, SegmentOf, Merged

\* A step that leaves handlers, updates and values alone.
LEMMA NobodyMoves ==
  ASSUME FeedInv, UNCHANGED <<handling, stored, heard, live, pushes, disturbed>>,
         published' \in 0 .. Len(Messages), queue' \in Seq(Delivery), delayed' \in Seq(Delivery)
  PROVE  FeedInv'
BY DEF FeedInv, FeedFits, Agrees, HandlerFits, SavesFor, SegmentOf, Merged, Delivery, MessageIds, PushRow, Values

LEMMA DeliveryMoves ==
  ASSUME NEW q \in Seq(Delivery), q # <<>>
  PROVE  Head(q) \in Delivery /\ Tail(q) \in Seq(Delivery)
BY HeadTailProperties

LEMMA QuietKeeps ==
  ASSUME FeedInv,
         Publish \/ Expire \/ Redeliver \/ Boot \/ Flush \/ (\E b \in flushes : Compare(b)) \/ UNCHANGED feedVars
  PROVE  FeedInv'
<1>1. published \in 0 .. Len(Messages) /\ queue \in Seq(Delivery) /\ delayed \in Seq(Delivery)
  BY DEF FeedInv, FeedFits
<1>2. UNCHANGED <<handling, stored, heard, live, pushes, disturbed>>
  BY DEF Publish, Expire, Redeliver, Boot, Flush, Compare, feedVars, broker, gateway, batches, outcome
<1>3. CASE Publish
  <2>1. published' \in 0 .. Len(Messages) /\ published' \in MessageIds
    <3>1. Len(Messages) \in Nat  BY FeedAssumption
    <3>2. published < Len(Messages) /\ published' = published + 1  BY <1>3 DEF Publish
    <3> QED  BY <1>1, <3>1, <3>2 DEF MessageIds
  <2>2. [id |-> published', tries |-> 0] \in Delivery  BY <2>1 DEF Delivery
  <2>3. queue' \in Seq(Delivery) /\ delayed' \in Seq(Delivery)
    BY <1>1, <1>3, <2>2 DEF Publish
  <2> QED  BY <1>2, <2>1, <2>3, NobodyMoves
<1>4. CASE Expire
  <2>1. queue # <<>> /\ queue' = Tail(queue) /\ UNCHANGED <<published, delayed>>  BY <1>4 DEF Expire
  <2>2. queue' \in Seq(Delivery)  BY <1>1, <2>1, DeliveryMoves
  <2> QED  BY <1>1, <1>2, <2>1, <2>2, NobodyMoves
<1>5. CASE Redeliver
  <2>1. /\ delayed # <<>> /\ delayed' = Tail(delayed) /\ UNCHANGED published
        /\ queue' = Append(queue, Head(delayed)) \/ UNCHANGED queue
    BY <1>5 DEF Redeliver
  <2>2. Head(delayed) \in Delivery /\ delayed' \in Seq(Delivery)  BY <1>1, <2>1, DeliveryMoves
  <2>3. \A q \in Seq(Delivery), d \in Delivery : Append(q, d) \in Seq(Delivery)  OBVIOUS
  <2>4. queue' \in Seq(Delivery)  BY <1>1, <2>1, <2>2, <2>3, Zenon
  <2> QED  BY <1>1, <1>2, <2>1, <2>2, <2>4, NobodyMoves
<1>6. CASE UNCHANGED <<published, queue, delayed>>
  BY <1>1, <1>2, <1>6, NobodyMoves
<1> QED  BY <1>3, <1>4, <1>5, <1>6 DEF Boot, Flush, Compare, feedVars, broker

\* A step of one handler, between messages or segments: it saves nothing before or after.
LEMMA HandlerMoves ==
  ASSUME FeedInv, NEW w \in Handlers, NEW h, HandlerFits(h),
         handling' = [handling EXCEPT ![w] = h],
         ~(handling[w].step = "saving"), ~(h.step = "saving"),
         UNCHANGED <<published, stored, heard, live, pushes, disturbed>>,
         queue' \in Seq(Delivery), delayed' \in Seq(Delivery)
  PROVE  FeedInv'
<1>1. FeedFits /\ DOMAIN handling = Handlers  BY DEF FeedInv, FeedFits
<1>2. handling'[w] = h /\ DOMAIN handling' = Handlers /\ \A x \in Handlers \ {w} : handling'[x] = handling[x]
  BY <1>1
<1>3. FeedFits'
  BY <1>1, <1>2 DEF FeedFits, HandlerFits, SegmentOf, Delivery, MessageIds, PushRow, Values
<1>4. ASSUME NEW l \in Logins, l \notin disturbed'  PROVE Agrees(l)'
  <2>1. Agrees(l)  BY <1>4 DEF FeedInv
  <2>2. \A x \in Handlers : SavesFor(handling'[x], l) <=> SavesFor(handling[x], l)
    BY <1>2 DEF SavesFor
  <2>3. \A x \in Handlers : SavesFor(handling[x], l) =>
          handling'[x].msg = handling[x].msg /\ handling'[x].at = handling[x].at
    BY <1>2 DEF SavesFor
  <2> QED  BY <2>1, <2>2, <2>3, AgreementStays
<1> QED  BY <1>3, <1>4 DEF FeedInv

LEMMA DeliverKeeps ==
  ASSUME FeedInv, NEW w \in Handlers, Deliver(w)
  PROVE  FeedInv'
<1>1. queue \in Seq(Delivery) /\ delayed \in Seq(Delivery)  BY DEF FeedInv, FeedFits
<1>2. queue # <<>> /\ queue' = Tail(queue) /\ handling[w] = Ready  BY DEF Deliver
<1>3. Head(queue) \in Delivery /\ queue' \in Seq(Delivery)  BY <1>1, <1>2, DeliveryMoves
<1>4. PICK h : h = [step |-> "next", msg |-> Head(queue), at |-> 0, open |-> TRUE]  OBVIOUS
<1>5. HandlerFits(h) /\ h.step = "next"  BY <1>3, <1>4 DEF HandlerFits
<1>6. handling' = [handling EXCEPT ![w] = h]  BY <1>4 DEF Deliver
<1>7. UNCHANGED <<published, stored, heard, live, pushes, disturbed, delayed>>
  BY DEF Deliver, outcome, gateway, batches
<1>8. ~(handling[w].step = "saving")  BY <1>2 DEF Ready
<1> QED  BY <1>1, <1>3, <1>5, <1>6, <1>7, <1>8, HandlerMoves

------------------------------------------------------------------------------
\* The queue after deliveries have come back is a queue of deliveries.
LEMMA RequeuedFits ==
  ASSUME FeedInv, NEW q \in Requeued
  PROVE  q \in Seq(Delivery)
<1>1. queue \in Seq(Delivery) /\ \A w \in Handlers : HandlerFits(handling[w])  BY DEF FeedInv, FeedFits
<1>2. PICK back \in [1 .. Cardinality(Unacked) -> Unacked] : q = back \o queue  BY DEF Requeued
<1>3. Unacked \subseteq Delivery
  <2> SUFFICES ASSUME NEW w \in Busy  PROVE handling[w].msg \in Delivery
    BY DEF Unacked
  <2>1. w \in Handlers /\ handling[w] # Ready  BY DEF Busy
  <2> QED  BY <1>1, <2>1 DEF HandlerFits
<1>4. Cardinality(Unacked) \in Nat
  <2>1. IsFiniteSet({x \in Busy : handling[x].open})
    BY FeedAssumption, FS_Subset DEF Busy
  <2>2. PICK busy : busy = {x \in Busy : handling[x].open}  OBVIOUS
  <2>3. Unacked = {handling[w].msg : w \in busy}  BY <2>2 DEF Unacked
  <2>4. PICK f : f = [w \in busy |-> handling[w].msg]  OBVIOUS
  <2>5. f \in Surjection(busy, Unacked)  BY <2>3, <2>4 DEF Surjection
  <2>6. IsFiniteSet(Unacked)  BY <2>1, <2>2, <2>5, FS_Surjection
  <2> QED  BY <2>6, FS_CardinalityType
<1>5. back \in Seq(Delivery)  BY <1>2, <1>3, <1>4
<1> QED  BY <1>1, <1>2, <1>5, ConcatProperties

\* When the process ends every account is disturbed: there is nothing left to agree.
LEMMA DiesKeeps ==
  ASSUME FeedInv, Dies, delayed' \in Seq(Delivery)
  PROVE  FeedInv'
<1>1. FeedFits  BY DEF FeedInv
<1>2. queue' \in Seq(Delivery)  BY RequeuedFits DEF Dies
<1>3. /\ UNCHANGED <<published, stored, heard, live>> /\ pushes' = {} /\ disturbed' = Logins
      /\ DOMAIN handling' = Handlers /\ \A w \in Handlers : handling'[w] = Ready
  BY DEF Dies
<1>4. FeedFits'
  BY <1>1, <1>2, <1>3 DEF FeedFits, HandlerFits, SegmentOf, Delivery, MessageIds, PushRow, Values, Ready
<1> QED  BY <1>3, <1>4 DEF FeedInv

LEMMA LinkFailsKeeps ==
  ASSUME FeedInv, LinkFails
  PROVE  FeedInv'
<1>1. FeedFits  BY DEF FeedInv
<1>2. queue' \in Seq(Delivery)  BY RequeuedFits DEF LinkFails
<1>3. /\ UNCHANGED <<published, delayed, stored, heard, live, pushes, disturbed>>
      /\ DOMAIN handling' = Handlers
  BY DEF LinkFails, gateway, batches
<1>4. \A w \in Handlers :
        handling'[w] = handling[w] \/ (handling[w] # Ready /\ handling'[w] = [handling[w] EXCEPT !.open = FALSE])
  BY DEF LinkFails, Busy
<1>5. ASSUME NEW w \in Handlers
      PROVE  /\ HandlerFits(handling[w])'
             /\ handling'[w].step = handling[w].step
             /\ handling[w].step = "saving" =>
                  handling'[w].msg = handling[w].msg /\ handling'[w].at = handling[w].at
  <2>1. PICK h : h = handling[w]  OBVIOUS
  <2>2. HandlerFits(h)  BY <1>1, <2>1 DEF FeedFits
  <2>3. CASE handling'[w] = h
    BY <2>1, <2>2, <2>3 DEF HandlerFits, SegmentOf, Delivery, MessageIds
  <2>4. CASE h # Ready /\ handling'[w] = [h EXCEPT !.open = FALSE]
    <3>1. /\ h \in [step : {"next", "saving"}, msg : Delivery, at : Nat, open : BOOLEAN]
          /\ h.step = "saving" => h.at \in 1 .. Len(Messages[h.msg.id]) /\ SegmentOf(h).kind = "report"
      BY <2>2, <2>4 DEF HandlerFits
    <3>2. PICK k : k = [h EXCEPT !.open = FALSE]  OBVIOUS
    <3>3. /\ k \in [step : {"next", "saving"}, msg : Delivery, at : Nat, open : BOOLEAN]
          /\ k.step = h.step /\ k.msg = h.msg /\ k.at = h.at
      BY <3>1, <3>2
    <3>4. HandlerFits(k)  BY <3>1, <3>3 DEF HandlerFits, SegmentOf
    <3> QED  BY <2>1, <2>4, <3>2, <3>3, <3>4 DEF HandlerFits, SegmentOf, Delivery, MessageIds
  <2> QED  BY <1>4, <2>1, <2>3, <2>4
<1>6. FeedFits'
  BY <1>1, <1>2, <1>3, <1>5 DEF FeedFits, Delivery, MessageIds, PushRow, Values
<1>7. ASSUME NEW l \in Logins, l \notin disturbed'  PROVE Agrees(l)'
  <2>1. Agrees(l)  BY <1>3, <1>7 DEF FeedInv
  <2>2. \A w \in Handlers : SavesFor(handling'[w], l) <=> SavesFor(handling[w], l)
    BY <1>5 DEF SavesFor, SegmentOf
  <2>3. \A w \in Handlers : SavesFor(handling[w], l) =>
          handling'[w].msg = handling[w].msg /\ handling'[w].at = handling[w].at
    BY <1>5 DEF SavesFor
  <2> QED  BY <1>3, <2>1, <2>2, <2>3, AgreementStays
<1> QED  BY <1>6, <1>7 DEF FeedInv

\* An acknowledgement ends the work of the handler, or the process.
LEMMA AcknowledgeKeeps ==
  ASSUME FeedInv, NEW w \in Handlers, handling[w].step = "next", Acknowledge(w), delayed' \in Seq(Delivery)
  PROVE  FeedInv'
<1>1. CASE Dies  BY <1>1, DiesKeeps
<1>2. CASE /\ handling' = [handling EXCEPT ![w] = Ready]
           /\ UNCHANGED <<published, queue, stored, heard, live, pushes, disturbed>>
  <2>1. HandlerFits(Ready) /\ Ready.step = "idle"  BY DEF HandlerFits, Ready
  <2>2. queue' \in Seq(Delivery)  BY <1>2 DEF FeedInv, FeedFits
  <2> QED  BY <1>2, <2>1, <2>2, HandlerMoves
<1> QED  BY <1>1, <1>2 DEF Acknowledge, gateway

LEMMA SettleKeeps ==
  ASSUME FeedInv, NEW w \in Handlers, Settle(w)
  PROVE  FeedInv'
<1>1. delayed' \in Seq(Delivery)  BY DEF Settle, FeedInv, FeedFits
<1> QED  BY <1>1, AcknowledgeKeeps DEF Settle

LEMMA FailKeeps ==
  ASSUME FeedInv, NEW w \in Handlers, Fail(w)
  PROVE  FeedInv'
<1>1. handling[w].step = "next" /\ Acknowledge(w)  BY DEF Fail
<1>2. delayed \in Seq(Delivery) /\ HandlerFits(handling[w])  BY DEF FeedInv, FeedFits
<1>3. PICK m : m = handling[w].msg  OBVIOUS
<1>4. m \in Delivery  BY <1>1, <1>2, <1>3, HandlerKnows
<1>5. [m EXCEPT !.tries = @ + 1] \in Delivery  BY <1>4 DEF Delivery
<1>6. PICK n : n = [m EXCEPT !.tries = @ + 1]  OBVIOUS
<1>7. delayed' = Append(delayed, n) \/ delayed' = delayed
  BY <1>3, <1>6 DEF Fail, Retry
<1>8. delayed' \in Seq(Delivery)
  <2>1. \A q \in Seq(Delivery), d \in Delivery : Append(q, d) \in Seq(Delivery)  OBVIOUS
  <2> QED  BY <1>2, <1>5, <1>6, <1>7, <2>1, Zenon
<1> QED  BY <1>1, <1>8, AcknowledgeKeeps

------------------------------------------------------------------------------
(***************************************************************************)
(* The updates of an account.                                              *)
(***************************************************************************)

\* A step of one update: those of other accounts stay.
LEMMA UpdateMoves ==
  ASSUME FeedInv, NEW p \in pushes, NEW after \in SUBSET PushRow,
         \A q \in after : q.login = p.login,
         pushes' = (pushes \ {p}) \cup after,
         live' \in [Logins -> Values], \A l \in Logins : l # p.login => live'[l] = live[l],
         disturbed \subseteq disturbed',
         UNCHANGED <<published, queue, delayed, handling, stored, heard>>,
         p.login \notin disturbed' => Agrees(p.login)'
  PROVE  FeedInv'
<1>1. FeedFits  BY DEF FeedInv
<1>2. FeedFits'
  BY <1>1 DEF FeedFits, HandlerFits, SegmentOf, Delivery, MessageIds, PushRow, Values
<1>3. ASSUME NEW l \in Logins, l \notin disturbed', l # p.login  PROVE Agrees(l)'
  <2>1. Agrees(l)  BY <1>3 DEF FeedInv
  <2>2. \A q : q.login = l => (q \in pushes' <=> q \in pushes)  BY <1>3
  <2> QED  BY <1>3, <2>1, <2>2, AgreementStays
<1> QED  BY <1>2, <1>3 DEF FeedInv

\* What an undisturbed account has on its way is this update and nothing else.
LEMMA AloneOnTheWay ==
  ASSUME FeedInv, NEW p \in pushes, p.login \notin disturbed
  PROVE  /\ \A w \in Handlers : ~SavesFor(handling[w], p.login)
         /\ \A q \in pushes : q.login = p.login => q = p
         /\ stored[p.login] = heard[p.login]
         /\ p.step = "fetched" => p.data = stored[p.login]
<1>1. p \in PushRow  BY DEF FeedInv, FeedFits
<1>2. Agrees(p.login)  BY <1>1 DEF FeedInv, PushRow
<1> QED  BY <1>2 DEF Agrees

\* An update that follows it on its way is as good, if what it has fetched is the row.
LEMMA NextOnTheWay ==
  ASSUME FeedInv, NEW p \in pushes, p.login \notin disturbed, NEW n, n.login = p.login,
         pushes' = (pushes \ {p}) \cup {n}, n.step = "fetched" => n.data = stored[p.login],
         UNCHANGED <<handling, stored, heard>>
  PROVE  Agrees(p.login)'
<1>1. PICK l : l = p.login  OBVIOUS
<1>2. /\ \A w \in Handlers : ~SavesFor(handling'[w], l)
      /\ \A q \in pushes' : q.login = l => q = n
      /\ stored'[l] = heard'[l]
      /\ n.step = "fetched" => n.data = stored'[l]
      /\ n \in pushes' /\ n.login = l
  BY <1>1, AloneOnTheWay
<1>3. Agrees(l)'  BY <1>2 DEF Agrees, SavesFor, SegmentOf
<1> QED  BY <1>1, <1>3

LEMMA UpdateKeeps ==
  ASSUME FeedInv, NEW p \in pushes, Mark(p) \/ Fetch(p) \/ Show(p)
  PROVE  FeedInv'
<1>1. /\ p \in PushRow /\ p.login \in Logins /\ p.data \in Values
      /\ stored \in [Logins -> Values] /\ live \in [Logins -> Values]
  BY DEF FeedInv, FeedFits, PushRow
<1>2. UNCHANGED <<published, queue, delayed, handling, stored, heard>>
  BY DEF Mark, Fetch, Show, broker
<1>3. ASSUME NEW n \in PushRow, n.login = p.login, pushes' = (pushes \ {p}) \cup {n},
             n.step = "fetched" => n.data = stored[p.login], UNCHANGED <<live, disturbed>>
      PROVE  FeedInv'
  <2>1. {n} \in SUBSET PushRow  BY <1>3
  <2>2. p.login \notin disturbed' => Agrees(p.login)'  BY <1>2, <1>3, NextOnTheWay
  <2>3. \A q \in {n} : q.login = p.login  BY <1>3
  <2>4. live' \in [Logins -> Values] /\ \A l \in Logins : l # p.login => live'[l] = live[l]
    BY <1>1, <1>3
  <2> QED  BY <1>2, <1>3, <2>1, <2>2, <2>3, <2>4, UpdateMoves
<1>4. CASE Mark(p)
  <2>1. PICK n : n = [p EXCEPT !.step = "marked"]  OBVIOUS
  <2>2. n \in PushRow /\ n.login = p.login /\ n.step = "marked"  BY <1>1, <2>1 DEF PushRow
  <2>3. pushes' = (pushes \ {p}) \cup {n} /\ UNCHANGED <<live, disturbed>>  BY <1>4, <2>1 DEF Mark
  <2> QED  BY <1>3, <2>2, <2>3
<1>5. CASE Fetch(p)
  <2>1. PICK row : row = stored[p.login]  OBVIOUS
  <2>2. CASE pushes' = (pushes \ {p}) \cup {[p EXCEPT !.step = "fetched", !.data = row]} /\ UNCHANGED disturbed
    <3>1. PICK n : n = [p EXCEPT !.step = "fetched", !.data = row]  OBVIOUS
    <3>2. row \in Values  BY <1>1, <2>1
    <3>3. n \in PushRow /\ n.login = p.login /\ n.data = row  BY <1>1, <3>1, <3>2 DEF PushRow
    <3>4. pushes' = (pushes \ {p}) \cup {n} /\ UNCHANGED <<live, disturbed>>  BY <1>5, <2>2, <3>1 DEF Fetch
    <3> QED  BY <1>3, <2>1, <3>3, <3>4
  <2>3. CASE pushes' = pushes \ {p} /\ disturbed' = disturbed \cup {p.login}
    <3>1. live' = live  BY <1>5 DEF Fetch
    <3>2. pushes' = (pushes \ {p}) \cup {} /\ {} \in SUBSET PushRow  BY <2>3
    <3>3. live' \in [Logins -> Values] /\ \A l \in Logins : l # p.login => live'[l] = live[l]
      BY <1>1, <3>1
    <3>4. disturbed \subseteq disturbed' /\ p.login \in disturbed'  BY <2>3
    <3> QED  BY <1>2, <3>2, <3>3, <3>4, UpdateMoves
  <2> QED  BY <1>5, <2>1, <2>2, <2>3 DEF Fetch, Analysis
<1>6. CASE Show(p)
  <2>1. /\ p.step = "fetched" /\ live' = [live EXCEPT ![p.login] = p.data] /\ pushes' = pushes \ {p}
        /\ UNCHANGED disturbed
    BY <1>6 DEF Show
  <2>2. live' \in [Logins -> Values] /\ \A l \in Logins : l # p.login => live'[l] = live[l]
    BY <1>1, <2>1
  <2>3. pushes' = (pushes \ {p}) \cup {} /\ {} \in SUBSET PushRow  BY <2>1
  <2>4. ASSUME p.login \notin disturbed'  PROVE Agrees(p.login)'
    <3>1. PICK l : l = p.login  OBVIOUS
    <3>2. l \in Logins /\ live'[l] = p.data  BY <1>1, <2>1, <3>1
    <3>3. /\ \A w \in Handlers : ~SavesFor(handling'[w], l)
          /\ \A q \in pushes' : q.login # l
          /\ stored'[l] = heard'[l] /\ live'[l] = stored'[l]
      BY <1>2, <2>1, <2>4, <3>1, <3>2, AloneOnTheWay
    <3>4. Agrees(l)'  BY <3>3 DEF Agrees, SavesFor, SegmentOf
    <3> QED  BY <3>1, <3>4
  <2>5. disturbed \subseteq disturbed'  BY <2>1
  <2> QED  BY <1>2, <2>2, <2>3, <2>4, <2>5, UpdateMoves
<1> QED  BY <1>4, <1>5, <1>6

------------------------------------------------------------------------------
(***************************************************************************)
(* The two halves of handling a segment.                                   *)
(***************************************************************************)

\* The first segment that is left is one of the message's.
LEMMA FirstIsLeft ==
  ASSUME NEW w \in Handlers, handling[w].at \in Nat, Left(w) # {}
  PROVE  First(Left(w)) \in Left(w) /\ First(Left(w)) \in 1 .. Len(Content(w))
<1>1. PICK left : left = Left(w)  OBVIOUS
<1>2. PICK at \in Nat : at = handling[w].at  OBVIOUS
<1>3. \A j \in left : j \in at + 1 .. Len(Content(w))  BY <1>1, <1>2 DEF Left
<1>4. Len(Content(w)) \in Int \/ left \subseteq {}  BY <1>3
<1>5. left \subseteq Nat /\ left # {} /\ \A j \in left : j \in 1 .. Len(Content(w))  BY <1>1, <1>2, <1>3
<1>6. \E x \in left : \A y \in left : x <= y  BY <1>5, LeastExists
<1>7. First(left) \in left  BY <1>6 DEF First
<1> QED  BY <1>1, <1>5, <1>7

LEMMA MergedIsAValue ==
  ASSUME NEW row \in Values, NEW s, NEW id \in Nat
  PROVE  Merged(row, s, id) \in Values
BY DEF Merged, Values

\* What has been heard of an account that nothing newer was heard of, with a report more.
LEMMA HeardIsMerged ==
  ASSUME NEW old \in Values, NEW s, NEW id \in Nat, \A f \in Fields : ~(old[f] > id)
  PROVE  [f \in Fields |-> IF Report(s, id)[f] > old[f] THEN id ELSE old[f]] = Merged(old, s, id)
<1> SUFFICES ASSUME NEW f \in Fields
             PROVE  (IF Report(s, id)[f] > old[f] THEN id ELSE old[f]) = (IF f \in s.fields THEN id ELSE old[f])
  BY DEF Merged
<1>1. old[f] \in Nat /\ ~(old[f] > id)  BY DEF Values
<1>2. Report(s, id)[f] = IF f \in s.fields THEN id ELSE 0  BY DEF Report
<1> QED  BY <1>1, <1>2

\* What a step of one handler has to keep in shape.
LEMMA FitsAfter ==
  ASSUME FeedFits, NEW w \in Handlers, NEW k, HandlerFits(k),
         DOMAIN handling' = Handlers, handling'[w] = k,
         \A x \in Handlers \ {w} : handling'[x] = handling[x],
         UNCHANGED <<published, queue, delayed, live>>,
         stored' \in [Logins -> Values], heard' \in [Logins -> Values], pushes' \subseteq PushRow
  PROVE  FeedFits'
<1>1. \A x \in Handlers : HandlerFits(handling[x])'
  <2>1. \A x \in Handlers : HandlerFits(handling[x])  BY DEF FeedFits
  <2> QED  BY <2>1 DEF HandlerFits, SegmentOf, Delivery, MessageIds
<1>2. /\ published \in 0 .. Len(Messages) /\ queue \in Seq(Delivery) /\ delayed \in Seq(Delivery)
      /\ live \in [Logins -> Values]
  BY DEF FeedFits
<1> QED  BY <1>1, <1>2 DEF FeedFits, Delivery, MessageIds, PushRow, Values

LEMMA HearKeeps ==
  ASSUME FeedInv, NEW w \in Handlers, Hear(w)
  PROVE  FeedInv'
<1>1. PICK h : h = handling[w]  OBVIOUS
<1>2. PICK j : j = First(Left(w))  OBVIOUS
<1>3. PICK s : s = Content(w)[j]  OBVIOUS
<1>4. PICK l : l = s.login  OBVIOUS
<1>5. PICK id : id = h.msg.id  OBVIOUS
<1>6. /\ FeedFits /\ HandlerFits(h) /\ h.step = "next" /\ Left(w) # {} /\ s.kind = "report"
      /\ DOMAIN handling = Handlers /\ heard \in [Logins -> Values]
  BY <1>1, <1>2, <1>3 DEF FeedInv, FeedFits, Hear
<1>7. /\ h \in [step : {"next", "saving"}, msg : Delivery, at : Nat, open : BOOLEAN]
      /\ id \in MessageIds /\ id \in Nat /\ h.at \in Nat
  <2>1. h.step # "idle"  BY <1>6
  <2>2. h \in [step : {"next", "saving"}, msg : Delivery, at : Nat, open : BOOLEAN] /\ id \in MessageIds /\ id \in Nat
    BY <1>5, <1>6, <2>1, HandlerKnows
  <2> QED  BY <2>2
<1>8. j \in 1 .. Len(Messages[id]) /\ j \in Nat /\ s = Messages[id][j]
  <2>1. Content(w) = Messages[id]  BY <1>1, <1>5 DEF Content
  <2>2. j \in 1 .. Len(Content(w))  BY <1>1, <1>2, <1>6, <1>7, FirstIsLeft
  <2> QED  BY <1>3, <2>1, <2>2
<1>9. l \in Logins  BY <1>4, <1>6, <1>7, <1>8, SegmentsReport
<1>10. PICK k : k = [h EXCEPT !.step = "saving", !.at = j]  OBVIOUS
<1>11. /\ k \in [step : {"next", "saving"}, msg : Delivery, at : Nat, open : BOOLEAN]
       /\ k.step = "saving" /\ k.msg = h.msg /\ k.at = j
  BY <1>7, <1>8, <1>10
<1>12. SegmentOf(k) = s  BY <1>5, <1>8, <1>11 DEF SegmentOf
<1>13. HandlerFits(k)  BY <1>5, <1>6, <1>8, <1>11, <1>12 DEF HandlerFits
<1>14. /\ DOMAIN handling' = Handlers /\ handling'[w] = k
       /\ \A x \in Handlers \ {w} : handling'[x] = handling[x]
  BY <1>1, <1>2, <1>6, <1>10 DEF Hear
<1>15. PICK said : said = [f \in Fields |-> IF Report(s, id)[f] > heard[l][f] THEN id ELSE heard[l][f]]
  OBVIOUS
<1>16. heard' = [heard EXCEPT ![l] = said]  BY <1>1, <1>2, <1>3, <1>4, <1>5, <1>15 DEF Hear
<1>17. said \in Values  BY <1>6, <1>7, <1>9, <1>15 DEF Values
<1>18. heard' \in [Logins -> Values] /\ heard'[l] = said /\ \A m \in Logins : m # l => heard'[m] = heard[m]
  BY <1>6, <1>9, <1>16, <1>17
<1>19. UNCHANGED <<published, queue, delayed, stored, live, pushes>>
  BY DEF Hear, broker, gateway, batches
<1>20. disturbed \subseteq disturbed'
       /\ (l \notin disturbed' => ~Others(w, l) /\ \A f \in Fields : ~(heard[l][f] > id))
  BY <1>1, <1>2, <1>3, <1>4, <1>5 DEF Hear
<1>21. FeedFits'
  <2>1. stored' \in [Logins -> Values] /\ pushes' \subseteq PushRow  BY <1>6, <1>19 DEF FeedFits
  <2> QED  BY <1>6, <1>13, <1>14, <1>18, <1>19, <2>1, FitsAfter
<1>22. ASSUME NEW m \in Logins, m \notin disturbed', m # l  PROVE Agrees(m)'
  <2>1. Agrees(m)  BY <1>20, <1>22 DEF FeedInv
  <2>2. ~SavesFor(handling[w], m) /\ ~SavesFor(handling'[w], m)
    BY <1>1, <1>4, <1>6, <1>11, <1>12, <1>14, <1>22 DEF SavesFor
  <2>3. \A x \in Handlers : SavesFor(handling'[x], m) <=> SavesFor(handling[x], m)  BY <1>14, <2>2
  <2>4. \A x \in Handlers : SavesFor(handling[x], m) =>
          handling'[x].msg = handling[x].msg /\ handling'[x].at = handling[x].at
    BY <1>14, <2>2
  <2>5. heard'[m] = heard[m]  BY <1>18, <1>22
  <2> QED  BY <1>19, <2>1, <2>3, <2>4, <2>5, AgreementStays
<1>23. ASSUME l \notin disturbed'  PROVE Agrees(l)'
  <2>1. /\ \A x \in Handlers \ {w} : ~SavesFor(handling[x], l)
        /\ \A p \in pushes : p.login # l
    <3>1. ~Others(w, l)  BY <1>20, <1>23
    <3>2. ASSUME NEW x \in Handlers \ {w}, SavesFor(handling[x], l)  PROVE FALSE
      <4>1. x \in Busy \ {w}  BY <3>2 DEF Busy, SavesFor, Ready
      <4>2. handling[x].step = "saving" /\ Content(x)[handling[x].at].login = l
        BY <3>2 DEF SavesFor, SegmentOf, Content
      <4> QED  BY <3>1, <4>1, <4>2 DEF Others
    <3>3. \A p \in pushes : p.login # l  BY <3>1 DEF Others
    <3> QED  BY <3>2, <3>3
  <2>2. ~SavesFor(handling[w], l)  BY <1>1, <1>6 DEF SavesFor
  <2>3. stored[l] = heard[l]
    <3>1. Agrees(l)  BY <1>9, <1>20, <1>23 DEF FeedInv
    <3> QED  BY <2>1, <2>2, <3>1 DEF Agrees
  <2>4. said = Merged(stored[l], s, id)
    <3>1. PICK old : old = heard[l]  OBVIOUS
    <3>2. old \in Values /\ \A f \in Fields : ~(old[f] > id)  BY <1>6, <1>9, <1>20, <1>23, <3>1
    <3>3. [f \in Fields |-> IF Report(s, id)[f] > old[f] THEN id ELSE old[f]] = Merged(old, s, id)
      BY <1>7, <3>2, HeardIsMerged
    <3> QED  BY <1>15, <2>3, <3>1, <3>3
  <2>5. heard'[l] = Merged(stored'[l], SegmentOf(handling'[w]), handling'[w].msg.id)
    BY <1>5, <1>11, <1>12, <1>14, <1>18, <1>19, <2>4
  <2>6. /\ \A x \in Handlers : SavesFor(handling'[x], l) => x = w
        /\ \A p \in pushes' : p.login # l
        /\ SavesFor(handling'[w], l)
    BY <1>4, <1>11, <1>12, <1>14, <1>19, <2>1 DEF SavesFor
  <2> QED  BY <2>5, <2>6 DEF Agrees, SavesFor, SegmentOf, Merged
<1> QED  BY <1>21, <1>22, <1>23 DEF FeedInv

LEMMA SaveKeeps ==
  ASSUME FeedInv, NEW w \in Handlers, Save(w)
  PROVE  FeedInv'
<1>1. PICK h : h = handling[w]  OBVIOUS
<1>2. PICK s : s = SegmentOf(h)  OBVIOUS
<1>3. PICK l : l = s.login  OBVIOUS
<1>4. PICK id : id = h.msg.id  OBVIOUS
<1>5. /\ FeedFits /\ HandlerFits(h) /\ h.step = "saving" /\ DOMAIN handling = Handlers
      /\ stored \in [Logins -> Values] /\ pushes \subseteq PushRow
      /\ s = Content(w)[handling[w].at]
  BY <1>1, <1>2 DEF FeedInv, FeedFits, Save, SegmentOf, Content
<1>6. /\ h \in [step : {"next", "saving"}, msg : Delivery, at : Nat, open : BOOLEAN]
      /\ id \in Nat /\ l \in Logins
  <2>1. h.step # "idle"  BY <1>5
  <2> QED  BY <1>2, <1>3, <1>4, <1>5, <2>1, HandlerKnows
<1>7. PICK k : k = [h EXCEPT !.step = "next"]  OBVIOUS
<1>8. /\ k \in [step : {"next", "saving"}, msg : Delivery, at : Nat, open : BOOLEAN] /\ k.step = "next"
      /\ HandlerFits(k)
  <2>1. k \in [step : {"next", "saving"}, msg : Delivery, at : Nat, open : BOOLEAN] /\ k.step = "next"
    BY <1>6, <1>7
  <2> QED  BY <2>1 DEF HandlerFits
<1>9. /\ DOMAIN handling' = Handlers /\ handling'[w] = k
      /\ \A x \in Handlers \ {w} : handling'[x] = handling[x]
  BY <1>1, <1>5, <1>7 DEF Save
<1>10. PICK p : p = [step |-> "emitted", login |-> l, data |-> Report(s, id)]  OBVIOUS
<1>11. p \in PushRow /\ p.login = l /\ p.step = "emitted"
  <2>1. Report(s, id) \in Values  BY <1>6 DEF Report, Values
  <2> QED  BY <1>6, <1>10, <2>1 DEF PushRow
<1>12. pushes' = pushes \cup {p}  BY <1>1, <1>3, <1>4, <1>5, <1>10 DEF Save
<1>13. UNCHANGED <<published, queue, delayed, heard, live>>  BY DEF Save, broker
<1>14. PICK row : row = Merged(stored[l], s, id)  OBVIOUS
<1>15. \/ stored' = [stored EXCEPT ![l] = row] /\ UNCHANGED disturbed
       \/ UNCHANGED stored /\ disturbed' = disturbed \cup {l}
  BY <1>1, <1>3, <1>4, <1>5, <1>14 DEF Save
<1>16. row \in Values  BY <1>5, <1>6, <1>14, MergedIsAValue
<1>17. /\ stored' \in [Logins -> Values] /\ disturbed \subseteq disturbed'
       /\ \A m \in Logins : m # l => stored'[m] = stored[m]
       /\ l \notin disturbed' => stored'[l] = row
  BY <1>5, <1>6, <1>15, <1>16
<1>18. FeedFits'
  <2>1. heard' \in [Logins -> Values]  BY <1>5, <1>13 DEF FeedFits
  <2>2. pushes' \subseteq PushRow  BY <1>5, <1>11, <1>12
  <2> QED  BY <1>5, <1>8, <1>9, <1>13, <1>17, <2>1, <2>2, FitsAfter
<1>19. ASSUME NEW m \in Logins, m \notin disturbed', m # l  PROVE Agrees(m)'
  <2>1. Agrees(m)  BY <1>17, <1>19 DEF FeedInv
  <2>2. ~SavesFor(handling[w], m) /\ ~SavesFor(handling'[w], m)
    BY <1>1, <1>2, <1>3, <1>8, <1>9, <1>19 DEF SavesFor
  <2>3. \A x \in Handlers : SavesFor(handling'[x], m) <=> SavesFor(handling[x], m)  BY <1>9, <2>2
  <2>4. \A x \in Handlers : SavesFor(handling[x], m) =>
          handling'[x].msg = handling[x].msg /\ handling'[x].at = handling[x].at
    BY <1>9, <2>2
  <2>5. \A q : q.login = m => (q \in pushes' <=> q \in pushes)  BY <1>11, <1>12, <1>19
  <2>6. stored'[m] = stored[m]  BY <1>17, <1>19
  <2> QED  BY <1>13, <2>1, <2>3, <2>4, <2>5, <2>6, AgreementStays
<1>20. ASSUME l \notin disturbed'  PROVE Agrees(l)'
  <2>1. Agrees(l)  BY <1>6, <1>17, <1>20 DEF FeedInv
  <2>2. SavesFor(handling[w], l)  BY <1>1, <1>2, <1>3, <1>5 DEF SavesFor
  <2>3. /\ \A x \in Handlers : SavesFor(handling[x], l) => x = w
        /\ \A q \in pushes : q.login # l
        /\ heard[l] = row
    BY <1>1, <1>2, <1>4, <1>14, <2>1, <2>2 DEF Agrees
  <2>4. \A x \in Handlers : ~SavesFor(handling'[x], l)
    BY <1>8, <1>9, <2>3 DEF SavesFor
  <2>5. \A q \in pushes' : q.login = l => q = p  BY <1>12, <2>3
  <2>6. stored'[l] = heard'[l]  BY <1>13, <1>17, <1>20, <2>3
  <2>7. p \in pushes' /\ p.login = l /\ p.step # "fetched"  BY <1>11, <1>12
  <2> QED  BY <2>4, <2>5, <2>6, <2>7 DEF Agrees, SavesFor, SegmentOf
<1> QED  BY <1>18, <1>19, <1>20 DEF FeedInv

------------------------------------------------------------------------------
LEMMA FeedInvInitially == FeedInit => FeedInv
<1> SUFFICES ASSUME FeedInit  PROVE FeedInv
  OBVIOUS
<1> USE DEF FeedInit
<1>1. Blank \in Values /\ Nothing \in [Logins -> Values]  BY DEF Blank, Nothing, Values
<1>2. 0 \in 0 .. Len(Messages)
  <2>1. Len(Messages) \in Nat  BY FeedAssumption
  <2> QED  BY <2>1
<1>3. \A w \in Handlers : HandlerFits(handling[w])  BY DEF HandlerFits
<1>4. FeedFits  BY <1>1, <1>2, <1>3 DEF FeedFits
<1>5. ASSUME NEW l \in Logins  PROVE Agrees(l)
  <2>1. \A w \in Handlers : ~SavesFor(handling[w], l)  BY DEF SavesFor, Ready
  <2> QED  BY <2>1 DEF Agrees
<1> QED  BY <1>4, <1>5 DEF FeedInv

LEMMA FeedInvKept ==
  ASSUME FeedInv, [FeedNext]_feedVars
  PROVE  FeedInv'
<1>1. CASE Publish \/ Expire \/ Redeliver \/ Boot \/ Flush \/ (\E b \in flushes : Compare(b)) \/ UNCHANGED feedVars
  BY <1>1, QuietKeeps
<1>2. ASSUME NEW w \in Handlers, Deliver(w) \/ Handle(w)  PROVE FeedInv'
  BY <1>2, DeliverKeeps, HearKeeps, SaveKeeps, SettleKeeps, FailKeeps DEF Handle
<1>3. CASE LinkFails  BY <1>3, LinkFailsKeeps
<1>4. CASE Crash
  <2>1. Dies /\ delayed' \in Seq(Delivery)  BY <1>4 DEF Crash, FeedInv, FeedFits
  <2> QED  BY <2>1, DiesKeeps
<1>5. ASSUME NEW p \in pushes, Mark(p) \/ Fetch(p) \/ Show(p)  PROVE FeedInv'
  BY <1>5, UpdateKeeps
<1> QED  BY <1>1, <1>2, <1>3, <1>4, <1>5 DEF FeedNext

\* When nothing of an account is on its way, its owner sees the row, and the row the newest
\* value that handleMessage has heard of each field, for any messages, accounts and number of
\* messages handled at once, unless its updates overlapped, failed or came out of order.
THEOREM FeedMyLiveCatchesUp == FeedSpec => []MyLiveCatchesUp
<1>1. FeedInit => FeedInv  BY FeedInvInitially
<1>2. FeedInv /\ [FeedNext]_feedVars => FeedInv'  BY FeedInvKept
<1>3. FeedInv => MyLiveCatchesUp
  <2> SUFFICES ASSUME FeedInv, Busy = {}, pushes = {}, NEW l \in Logins \ disturbed
               PROVE  live[l] = stored[l] /\ stored[l] = heard[l]
    BY DEF MyLiveCatchesUp
  <2>1. Agrees(l)  BY DEF FeedInv
  <2>2. \A w \in Handlers : ~SavesFor(handling[w], l)  BY DEF Busy, SavesFor, Ready
  <2> QED  BY <2>1, <2>2 DEF Agrees
<1> QED  BY <1>1, <1>2, <1>3, PTL DEF FeedSpec

==============================================================================
