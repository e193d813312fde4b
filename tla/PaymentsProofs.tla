---------------------------- MODULE PaymentsProofs ----------------------------
(***************************************************************************)
(* Theorems of Membership and of Payments for any number of users, calls   *)
(* or workers, accounts, payments and places, whatever the provider sends, *)
(* repeats and delays and whenever the process dies.                       *)
(*                                                                         *)
(* Membership's rest on one inductive invariant, MembershipInv: who works  *)
(* on a participant either inserts a row nobody else has or owns the row,  *)
(* and who cancels owns the marathon too and knows its currentPlayers.     *)
(* It says nothing of the places of the code that Membership has not, so   *)
(* Payments, which has those of the webhooks as well, keeps it too.        *)
(*                                                                         *)
(* A payment whose webhooks came one at a time and in order has one        *)
(* handler, which knows the status it found: that tells whether the charge *)
(* was made.                                                               *)
(***************************************************************************)
EXTENDS Payments, FiniteSetTheorems, SequenceTheorems, WellFoundedInduction, TLAPS

\* MembershipTypeOK, whatever other places in the code the workers may be at.
MembersFit ==
  /\ participants \in [Rows -> Participant \cup {NoRow}]
  /\ accounts \in [Accounts -> Rows \cup {NoRow}]
  /\ players \in 0..MaxPlayers
  /\ started \in BOOLEAN
  /\ refunds \in [Users -> Nat]
  /\ rowLock \in [Rows -> Workers \cup {Nobody}]
  /\ marathonLock \in Workers \cup {Nobody}
  /\ pc = [v \in Workers |-> pc[v]]
  /\ caller \in [Workers -> Users \cup {NoUser}]
  /\ found \in [Workers -> Rows \cup {NoRow}]
  /\ seen \in [Workers -> 0..MaxPlayers]
  /\ picked \in [Workers -> Accounts \cup {NoAccount}]
  /\ joins \in [Users -> Nat]
  /\ lost \in BOOLEAN
  /\ doubled \subseteq Users

\* What a worker holds in memory fits the place in the code it has reached.
CallsFit ==
  \A w \in Workers :
    /\ pc[w] \in Working => caller[w] \in Users
    /\ pc[w] \in {"enrol", "book"} => seen[w] < MaxPlayers
    /\ pc[w] \in {"book", "assign", "attach", "refund"} => found[w] \in Rows
    /\ pc[w] \in {"assign", "attach"} => participants[found[w]] # NoRow
    /\ pc[w] = "attach" => picked[w] \in Accounts

Inserts(w) == pc[w] = "book" /\ participants[found[w]] = NoRow

\* A row that is not inserted is owned until the commit, and is the caller's.
OwnsRow(w) ==
  /\ participants[found[w]] # NoRow
  /\ participants[found[w]].user = caller[w]
  /\ rowLock[found[w]] = w

HoldersOwnTheirRows ==
  \A w \in Workers :
    /\ pc[w] = "book" =>
         \/ participants[found[w]] = NoRow
         \/ OwnsRow(w) /\ ~participants[found[w]].isActive
    /\ pc[w] = "refund" =>
         /\ OwnsRow(w) /\ participants[found[w]].isActive
         /\ marathonLock = w
         /\ seen[w] = players

\* No two workers have the same row in mind while one of them inserts it.
NewRowsAreDistinct ==
  \A w, v \in Workers : Inserts(w) /\ found[v] = found[w] => v = w

\* A user whose joins never both found nothing has one open insert, and no row then.
InsertsAreAlone ==
  \A w \in Workers : Inserts(w) /\ caller[w] \notin doubled =>
    /\ RowsOf(caller[w]) = {}
    /\ \A v \in Workers : Inserts(v) /\ caller[v] = caller[w] => v = w

AtMostOneRow ==
  \A u \in Users \ doubled : \A r, s \in RowsOf(u) : r = s

WorkersFit ==
  /\ CallsFit
  /\ HoldersOwnTheirRows
  /\ NewRowsAreDistinct
  /\ InsertsAreAlone

MembershipInv ==
  /\ MembersFit
  /\ WorkersFit
  /\ AtMostOneRow
  /\ LinksAreMutual
  /\ EachJoinIsActiveOrRefunded
  /\ PlayersCountsTheActive
------------------------------------------------------------------------------
LEMMA InitInv == MembershipInit => MembershipInv
<1> SUFFICES ASSUME MembershipInit PROVE MembershipInv
  OBVIOUS
<1>1. MembersFit
  <2>1. 0 \in 0..MaxPlayers
    BY MembershipAssumption
  <2>2. started \in BOOLEAN /\ lost \in BOOLEAN /\ doubled \subseteq Users
    BY DEF MembershipInit
  <2>3. /\ pc = [v \in Workers |-> pc[v]]
        /\ seen \in [Workers -> 0..MaxPlayers]
        /\ players \in 0..MaxPlayers
    BY <2>1 DEF MembershipInit
  <2> QED
    BY <2>2, <2>3 DEF MembershipInit, MembersFit
<1>2. WorkersFit
  BY DEF MembershipInit, WorkersFit, CallsFit, HoldersOwnTheirRows, NewRowsAreDistinct,
         InsertsAreAlone, Inserts, Working
<1>3. AtMostOneRow /\ LinksAreMutual
  BY MembershipAssumption DEF MembershipInit, AtMostOneRow, LinksAreMutual, RowsOf
<1>4. ActiveRows = {} /\ \A u : RowsOf(u) = {}
  BY DEF MembershipInit, ActiveRows, RowsOf
<1>5. EachJoinIsActiveOrRefunded
  <2> SUFFICES ASSUME NEW u \in Users
               PROVE  joins[u] = refunds[u] + Cardinality(RowsOf(u) \cap ActiveRows)
    BY DEF EachJoinIsActiveOrRefunded
  <2>1. RowsOf(u) \cap ActiveRows = {}
    BY <1>4
  <2> QED
    BY <2>1, FS_EmptySet DEF MembershipInit
<1>6. PlayersCountsTheActive
  BY <1>4, FS_EmptySet DEF MembershipInit, PlayersCountsTheActive
<1> QED
  BY <1>1, <1>2, <1>3, <1>5, <1>6 DEF MembershipInv

\* A step that commits nothing says nothing new about the tables.
LEMMA TablesKept ==
  ASSUME MembershipInv, UNCHANGED <<participants, accounts, players, refunds, joins, lost>>,
         doubled \subseteq doubled'
  PROVE  /\ AtMostOneRow'
         /\ LinksAreMutual'
         /\ EachJoinIsActiveOrRefunded'
         /\ PlayersCountsTheActive'
         /\ \A u : RowsOf(u)' = RowsOf(u)
         /\ ActiveRows' = ActiveRows
<1>1. ActiveRows' = ActiveRows /\ \A u : RowsOf(u)' = RowsOf(u)
  BY DEF ActiveRows, RowsOf
<1>2. AtMostOneRow'
  BY <1>1 DEF MembershipInv, AtMostOneRow
<1>3. LinksAreMutual'
  BY DEF MembershipInv, LinksAreMutual
<1>4. EachJoinIsActiveOrRefunded' /\ PlayersCountsTheActive'
  BY <1>1 DEF MembershipInv, EachJoinIsActiveOrRefunded, PlayersCountsTheActive
<1> QED
  BY <1>1, <1>2, <1>3, <1>4

\* What a worker holds in memory when its call is over.
LEMMA ReturnFits ==
  ASSUME MembersFit, NEW w \in Workers, NEW label, NEW account \in Accounts \cup {NoAccount},
         pc' = [pc EXCEPT ![w] = label],
         caller' = [caller EXCEPT ![w] = NoUser],
         found' = [found EXCEPT ![w] = NoRow],
         seen' = [seen EXCEPT ![w] = 0],
         picked' = [picked EXCEPT ![w] = account]
  PROVE  /\ pc' = [v \in Workers |-> pc'[v]]
         /\ caller' \in [Workers -> Users \cup {NoUser}]
         /\ found' \in [Workers -> Rows \cup {NoRow}]
         /\ seen' \in [Workers -> 0..MaxPlayers]
         /\ picked' \in [Workers -> Accounts \cup {NoAccount}]
<1>1. 0 \in 0..MaxPlayers
  BY MembershipAssumption
<1>2. pc' = [v \in Workers |-> pc'[v]]
  BY DEF MembersFit
<1> QED
  BY <1>1, <1>2 DEF MembersFit

\* Giving up: the worker forgets its row and releases its locks.
LEMMA GiveUpInv ==
  ASSUME MembershipInv, NEW w \in Workers, NEW label, label \notin Working,
         NEW account \in Accounts \cup {NoAccount},
         pc' = [pc EXCEPT ![w] = label],
         caller' = [caller EXCEPT ![w] = NoUser],
         found' = [found EXCEPT ![w] = NoRow],
         seen' = [seen EXCEPT ![w] = 0],
         picked' = [picked EXCEPT ![w] = account],
         Unlock(w),
         UNCHANGED <<data, started, history>>
  PROVE  MembershipInv'
<1>1. MembersFit'
  BY ReturnFits, MembershipAssumption DEF MembershipInv, MembersFit, Unlock, data, history
<1> USE DEF Unlock, data, history
<1>2. CallsFit'
  BY DEF MembershipInv, MembersFit, WorkersFit, CallsFit, Working
<1>3. HoldersOwnTheirRows'
  BY DEF MembershipInv, MembersFit, WorkersFit, CallsFit, HoldersOwnTheirRows, OwnsRow, Working
<1>4. NewRowsAreDistinct'
  BY MembershipAssumption DEF MembershipInv, MembersFit, WorkersFit, CallsFit,
     NewRowsAreDistinct, Inserts, Working
<1>5. InsertsAreAlone'
  BY TablesKept DEF MembershipInv, MembersFit, WorkersFit, InsertsAreAlone, Inserts, Working
<1> QED
  BY <1>1, <1>2, <1>3, <1>4, <1>5, TablesKept DEF MembershipInv, WorkersFit

LEMMA RollBackInv ==
  ASSUME MembershipInv, NEW w \in Workers, NEW label \in Over, RollBack(w, label)
  PROVE  MembershipInv'
<1>1. label \notin Working
  BY DEF Over, Working
<1> QED
  BY <1>1, GiveUpInv DEF RollBack, Return, Goto

\* A join begins, from wherever the worker was.
LEMMA EnterJoinInv ==
  ASSUME MembershipInv, NEW w \in Workers, NEW u \in Users,
         caller' = [caller EXCEPT ![w] = u],
         Goto(w, "join"),
         UNCHANGED <<data, started, locks, found, seen, picked, history>>
  PROVE  MembershipInv'
<1> USE DEF Goto, data, locks, history
<1>1. MembersFit'
  BY DEF MembershipInv, MembersFit
<1>2. CallsFit'
  BY DEF MembershipInv, MembersFit, WorkersFit, CallsFit, Working
<1>3. HoldersOwnTheirRows'
  BY DEF MembershipInv, MembersFit, WorkersFit, HoldersOwnTheirRows, OwnsRow
<1>4. NewRowsAreDistinct'
  BY DEF MembershipInv, MembersFit, WorkersFit, NewRowsAreDistinct, Inserts
<1>5. InsertsAreAlone'
  BY TablesKept DEF MembershipInv, MembersFit, WorkersFit, InsertsAreAlone, Inserts
<1> QED
  BY <1>1, <1>2, <1>3, <1>4, <1>5, TablesKept DEF MembershipInv, WorkersFit

LEMMA ReadMarathonInv ==
  ASSUME MembershipInv, NEW w \in Workers, ReadMarathon(w)
  PROVE  MembershipInv'
<1>1. CASE players >= MaxPlayers /\ RollBack(w, "joinFailed")
  BY <1>1, RollBackInv DEF Over
<1>2. CASE /\ pc[w] = "join"
           /\ players < MaxPlayers
           /\ seen' = [seen EXCEPT ![w] = players]
           /\ Goto(w, "enrol")
           /\ UNCHANGED <<data, started, locks, caller, found, picked, history>>
  <2> USE <1>2 DEF Goto, data, locks, history
  <2>1. MembersFit'
    BY DEF MembershipInv, MembersFit, Working
  <2>2. CallsFit'
    BY DEF MembershipInv, MembersFit, WorkersFit, CallsFit, Working
  <2>3. HoldersOwnTheirRows'
    BY DEF MembershipInv, MembersFit, WorkersFit, HoldersOwnTheirRows, OwnsRow
  <2>4. NewRowsAreDistinct'
    BY DEF MembershipInv, MembersFit, WorkersFit, NewRowsAreDistinct, Inserts
  <2>5. InsertsAreAlone'
    BY TablesKept DEF MembershipInv, MembersFit, WorkersFit, InsertsAreAlone, Inserts
  <2> QED
    BY <2>1, <2>2, <2>3, <2>4, <2>5, TablesKept DEF MembershipInv, WorkersFit
<1> QED
  BY <1>1, <1>2 DEF ReadMarathon

LEMMA FindAvailableInv ==
  ASSUME MembershipInv, NEW w \in Workers, FindAvailable(w)
  PROVE  MembershipInv'
<1> USE DEF FindAvailable, Return, Goto, data, locks, history
<1>1. MembersFit'
  <2>1. CASE Return(w, "done")
    <3>1. NoAccount \in Accounts \cup {NoAccount}
      OBVIOUS
    <3>2. /\ caller' \in [Workers -> Users \cup {NoUser}]
          /\ found' \in [Workers -> Rows \cup {NoRow}]
          /\ seen' \in [Workers -> 0..MaxPlayers]
          /\ picked' \in [Workers -> Accounts \cup {NoAccount}]
          /\ pc' = [v \in Workers |-> pc'[v]]
      BY <2>1, <3>1, ReturnFits DEF MembershipInv
    <3> QED
      BY <3>2 DEF MembershipInv, MembersFit
  <2>2. CASE \E a \in Accounts :
               /\ picked' = [picked EXCEPT ![w] = a]
               /\ pc' = [pc EXCEPT ![w] = "attach"]
               /\ UNCHANGED <<caller, found, seen>>
    BY <2>2 DEF MembershipInv, MembersFit, Working
  <2> QED
    BY <2>1, <2>2
<1>2. CallsFit'
  BY DEF MembershipInv, MembersFit, WorkersFit, CallsFit, Working
<1>3. HoldersOwnTheirRows'
  BY DEF MembershipInv, MembersFit, WorkersFit, HoldersOwnTheirRows, OwnsRow
<1>4. NewRowsAreDistinct'
  BY MembershipAssumption DEF MembershipInv, MembersFit, WorkersFit, CallsFit,
     NewRowsAreDistinct, Inserts
<1>5. InsertsAreAlone'
  BY TablesKept DEF MembershipInv, MembersFit, WorkersFit, InsertsAreAlone, Inserts
<1> QED
  BY <1>1, <1>2, <1>3, <1>4, <1>5, TablesKept DEF MembershipInv, WorkersFit

\* A row that is found is locked; one that is not is reserved by nobody else.
LEMMA FindParticipantInv ==
  ASSUME MembershipInv, NEW w \in Workers, FindParticipant(w)
  PROVE  MembershipInv'
<1> USE DEF Goto, data, locks, history
<1>0. pc[w] = "enrol" /\ caller[w] \in Users /\ seen[w] < MaxPlayers
  BY DEF FindParticipant, MembershipInv, WorkersFit, CallsFit, Working
<1>1. CASE RollBack(w, "joinFailed")
  BY <1>1, RollBackInv DEF Over
<1>2. ASSUME NEW r \in RowsOf(caller[w]),
             rowLock[r] = Nobody,
             ~participants[r].isActive,
             rowLock' = [rowLock EXCEPT ![r] = w],
             found' = [found EXCEPT ![w] = r],
             pc' = [pc EXCEPT ![w] = "book"],
             UNCHANGED <<data, started, marathonLock, caller, seen, picked, history>>
      PROVE  MembershipInv'
  <2> USE <1>2
  <2>0. r \in Rows /\ participants[r] # NoRow /\ participants[r].user = caller[w]
    BY DEF RowsOf
  <2>1. MembersFit'
    BY <2>0 DEF MembershipInv, MembersFit, Working
  <2>2. CallsFit'
    BY <1>0, <2>0 DEF MembershipInv, MembersFit, WorkersFit, CallsFit, Working
  <2>3. HoldersOwnTheirRows'
    BY <1>0, <2>0, MembershipAssumption
    DEF MembershipInv, MembersFit, WorkersFit, CallsFit, HoldersOwnTheirRows, OwnsRow
  <2>4. NewRowsAreDistinct'
    BY <1>0, <2>0 DEF MembershipInv, MembersFit, WorkersFit, NewRowsAreDistinct, Inserts
  <2>5. InsertsAreAlone'
    BY <1>0, <2>0, TablesKept
    DEF MembershipInv, MembersFit, WorkersFit, InsertsAreAlone, Inserts
  <2> QED
    BY <2>1, <2>2, <2>3, <2>4, <2>5, TablesKept DEF MembershipInv, WorkersFit
<1>3. ASSUME RowsOf(caller[w]) = {}, NEW r \in Fresh,
             found' = [found EXCEPT ![w] = r],
             pc' = [pc EXCEPT ![w] = "book"],
             doubled' = IF Inserting(caller[w]) # {}
                        THEN doubled \cup {caller[w]} ELSE doubled,
             UNCHANGED <<data, started, locks, caller, seen, picked, joins, lost>>
      PROVE  MembershipInv'
  <2> USE <1>3
  <2>0. /\ r \in Rows
        /\ participants[r] = NoRow
        /\ \A v \in Workers : found[v] # r
        /\ doubled \subseteq doubled'
        /\ doubled' \subseteq Users
    BY <1>0 DEF Fresh, MembershipInv, MembersFit
  <2>1. MembersFit'
    <3> HIDE <1>3
    <3>1. UNCHANGED <<data, started, locks, caller, seen, picked, joins, lost>>
      BY <1>3
    <3>2. found' = [found EXCEPT ![w] = r] /\ pc' = [pc EXCEPT ![w] = "book"]
      BY <1>3
    <3> QED
      BY <2>0, <3>1, <3>2 DEF MembershipInv, MembersFit, Working
  <2>2. CallsFit'
    BY <1>0, <2>0 DEF MembershipInv, MembersFit, WorkersFit, CallsFit, Working
  <2>3. HoldersOwnTheirRows'
    BY <1>0, <2>0 DEF MembershipInv, MembersFit, WorkersFit, HoldersOwnTheirRows, OwnsRow
  <2>4. NewRowsAreDistinct'
    BY <1>0, <2>0 DEF MembershipInv, MembersFit, WorkersFit, NewRowsAreDistinct, Inserts
  <2>5. InsertsAreAlone'
    BY <1>0, <2>0, TablesKept
    DEF MembershipInv, MembersFit, WorkersFit, InsertsAreAlone, Inserts, Inserting
  <2> QED
    BY <2>0, <2>1, <2>2, <2>3, <2>4, <2>5, TablesKept DEF MembershipInv, WorkersFit
<1>4. Fresh # {} => (CHOOSE r \in Fresh : TRUE) \in Fresh
  OBVIOUS
<1> QED
  BY <1>1, <1>2, <1>3, <1>4 DEF FindParticipant

LEMMA CancelParticipationInv ==
  ASSUME MembershipInv, NEW w \in Workers, NEW u \in Users, CancelParticipation(w, u)
  PROVE  MembershipInv'
<1> USE DEF Goto, data, locks, history
<1>1. CASE RollBack(w, "failed")
  BY <1>1, RollBackInv DEF Over
<1>2. ASSUME NEW r \in RowsOf(u),
             pc[w] = "idle",
             rowLock[r] = Nobody,
             marathonLock = Nobody,
             participants[r].isActive,
             rowLock' = [rowLock EXCEPT ![r] = w],
             marathonLock' = w,
             found' = [found EXCEPT ![w] = r],
             seen' = [seen EXCEPT ![w] = players],
             caller' = [caller EXCEPT ![w] = u],
             pc' = [pc EXCEPT ![w] = "refund"],
             UNCHANGED <<data, started, picked, history>>
      PROVE  MembershipInv'
  <2> USE <1>2
  <2>0. r \in Rows /\ participants[r] # NoRow /\ participants[r].user = u
    BY DEF RowsOf
  <2>1. MembersFit'
    BY <2>0 DEF MembershipInv, MembersFit, Working
  <2>2. CallsFit'
    BY <2>0 DEF MembershipInv, MembersFit, WorkersFit, CallsFit, Working
  <2>3. HoldersOwnTheirRows'
    BY <2>0, MembershipAssumption
    DEF MembershipInv, MembersFit, WorkersFit, CallsFit, HoldersOwnTheirRows, OwnsRow
  <2>4. NewRowsAreDistinct'
    BY <2>0 DEF MembershipInv, MembersFit, WorkersFit, NewRowsAreDistinct, Inserts
  <2>5. InsertsAreAlone'
    BY <2>0, TablesKept DEF MembershipInv, MembersFit, WorkersFit, InsertsAreAlone, Inserts
  <2> QED
    BY <2>1, <2>2, <2>3, <2>4, <2>5, TablesKept DEF MembershipInv, WorkersFit
<1> QED
  BY <1>1, <1>2 DEF CancelParticipation
------------------------------------------------------------------------------
\* Steps that commit.

LEMMA EnrolledRow ==
  ASSUME MembershipInv, NEW w \in Workers, pc[w] = "book"
  PROVE  /\ Enrolled(w) \in Participant
         /\ Enrolled(w).user = caller[w]
         /\ Enrolled(w).isActive
         /\ \A a \in Accounts :
              Enrolled(w).account = a <=>
                participants[found[w]] # NoRow /\ participants[found[w]].account = a
<1>0. caller[w] \in Users /\ found[w] \in Rows
  BY DEF MembershipInv, WorkersFit, CallsFit, Working
<1>1. CASE participants[found[w]] = NoRow
  BY <1>0, <1>1, MembershipAssumption DEF Enrolled, Participant
<1>2. CASE participants[found[w]] # NoRow
  <2>1. participants[found[w]] \in Participant
    BY <1>0, <1>2 DEF MembershipInv, MembersFit
  <2>2. participants[found[w]].user = caller[w]
    BY <1>2 DEF MembershipInv, WorkersFit, HoldersOwnTheirRows, OwnsRow
  <2>3. Enrolled(w) = [participants[found[w]] EXCEPT !.isActive = TRUE]
    BY <1>2 DEF Enrolled
  <2> QED
    BY <1>2, <2>1, <2>2, <2>3 DEF Participant
<1> QED
  BY <1>1, <1>2

\* Both sides of the account of a user's joins move together.
LEMMA OneMore ==
  ASSUME NEW j \in Nat, NEW k \in Nat, NEW c \in Nat, j = k + c
  PROVE  j + 1 = k + (c + 1) /\ j = (k + 1) + (c - 1)
OBVIOUS

LEMMA CommitJoinInv ==
  ASSUME MembershipInv, NEW w \in Workers, CommitJoin(w)
  PROVE  MembershipInv'
<1> DEFINE u == caller[w]
           r == found[w]
           row == Enrolled(w)
<1>0. /\ pc[w] = "book" /\ u \in Users /\ r \in Rows /\ seen[w] < MaxPlayers
      /\ seen[w] \in Nat
  BY DEF CommitJoin, MembershipInv, MembersFit, WorkersFit, CallsFit, Working
<1>1. /\ row \in Participant /\ row # NoRow
      /\ row.user = u /\ row.isActive
      /\ \A a \in Accounts :
           row.account = a <=> participants[r] # NoRow /\ participants[r].account = a
  BY <1>0, EnrolledRow, MembershipAssumption
<1>2. /\ participants' = [participants EXCEPT ![r] = row]
      /\ players' = seen[w] + 1
      /\ joins' = [joins EXCEPT ![u] = @ + 1]
      /\ lost' = (lost \/ players # seen[w])
      /\ rowLock' = [q \in Rows |-> IF rowLock[q] = w THEN Nobody ELSE rowLock[q]]
      /\ marathonLock = Nobody
      /\ marathonLock' = marathonLock
      /\ pc' = [pc EXCEPT ![w] = "assign"]
      /\ UNCHANGED <<accounts, refunds, started, caller, found, seen, picked, doubled>>
  BY MembershipAssumption DEF CommitJoin, Unlock, Goto, local
<1>3. participants[r] # NoRow => participants[r].user = u /\ ~participants[r].isActive
  BY <1>0 DEF MembershipInv, WorkersFit, HoldersOwnTheirRows, OwnsRow
<1>4. \A q : RowsOf(q)' = IF q = u THEN RowsOf(q) \cup {r} ELSE RowsOf(q)
  BY <1>0, <1>1, <1>2, <1>3 DEF RowsOf, MembershipInv, MembersFit
<1>5. ActiveRows' = ActiveRows \cup {r} /\ r \notin ActiveRows
  BY <1>0, <1>1, <1>2, <1>3 DEF ActiveRows, MembershipInv, MembersFit
<1> HIDE DEF u, r, row
<1>6. MembersFit'
  <2>1. players' \in 0..MaxPlayers
    BY <1>0, <1>2, MembershipAssumption
  <2>2. participants' \in [Rows -> Participant \cup {NoRow}]
    BY <1>1, <1>2 DEF MembershipInv, MembersFit
  <2>3. lost' \in BOOLEAN
    BY <1>2 DEF MembershipInv, MembersFit
  <2>4. rowLock' \in [Rows -> Workers \cup {Nobody}] /\ joins' \in [Users -> Nat]
    BY <1>0, <1>2 DEF MembershipInv, MembersFit
  <2>5. pc' = [v \in Workers |-> pc'[v]]
    BY <1>2 DEF MembershipInv, MembersFit, Working
  <2> QED
    BY <1>2, <2>1, <2>2, <2>3, <2>4, <2>5 DEF MembershipInv, MembersFit
<1>7. CallsFit'
  BY <1>0, <1>1, <1>2 DEF MembershipInv, MembersFit, WorkersFit, CallsFit, Working, r, u
<1>8. HoldersOwnTheirRows'
  <2> SUFFICES ASSUME NEW v \in Workers, pc'[v] \in {"book", "refund"}
               PROVE  (/\ pc[v] = "book" =>
                           \/ participants[found[v]] = NoRow
                           \/ OwnsRow(v) /\ ~participants[found[v]].isActive
                       /\ pc[v] = "refund" =>
                           /\ OwnsRow(v) /\ participants[found[v]].isActive
                           /\ marathonLock = v
                           /\ seen[v] = players)'
    BY DEF HoldersOwnTheirRows
  <2>1. v # w /\ pc[v] = pc'[v]
    BY <1>2 DEF MembershipInv, MembersFit
  <2>2. pc[v] = "book"
    BY <1>2, <2>1, MembershipAssumption DEF MembershipInv, WorkersFit, HoldersOwnTheirRows
  <2>3. found[v] \in Rows
    BY <2>2 DEF MembershipInv, WorkersFit, CallsFit
  <2>4. found[v] # r
    BY <1>0, <2>1, <2>2
    DEF MembershipInv, WorkersFit, HoldersOwnTheirRows, NewRowsAreDistinct, Inserts, OwnsRow, r
  <2>5. participants'[found'[v]] = participants[found[v]] /\ found'[v] = found[v]
    BY <1>2, <2>3, <2>4 DEF MembershipInv, MembersFit
  <2>6. rowLock[found[v]] = v => rowLock'[found[v]] = v
    BY <1>2, <2>1, <2>3
  <2> QED
    BY <1>2, <2>1, <2>2, <2>5, <2>6 DEF MembershipInv, WorkersFit, HoldersOwnTheirRows, OwnsRow
<1>9. \A v \in Workers : Inserts(v)' => Inserts(v) /\ v # w
  BY <1>0, <1>1, <1>2 DEF Inserts, MembershipInv, MembersFit, WorkersFit, CallsFit
<1>10. NewRowsAreDistinct'
  BY <1>2, <1>9 DEF MembershipInv, WorkersFit, NewRowsAreDistinct
<1>11. InsertsAreAlone'
  <2> SUFFICES ASSUME NEW v \in Workers, Inserts(v)', NEW c, c = caller[v], c \notin doubled
               PROVE  /\ RowsOf(c)' = {}
                      /\ \A x \in Workers : Inserts(x)' /\ caller[x] = c => x = v
    BY <1>2 DEF InsertsAreAlone
  <2>1. Inserts(v) /\ v # w /\ RowsOf(c) = {}
    BY <1>9 DEF MembershipInv, WorkersFit, InsertsAreAlone
  <2>2. c # u
    <3>1. CASE participants[r] = NoRow
      BY <1>0, <2>1, <3>1 DEF MembershipInv, WorkersFit, InsertsAreAlone, Inserts, r, u
    <3>2. CASE participants[r] # NoRow
      BY <1>0, <1>3, <2>1, <3>2 DEF RowsOf
    <3> QED
      BY <3>1, <3>2
  <2> QED
    BY <1>4, <1>9, <2>1, <2>2 DEF MembershipInv, WorkersFit, InsertsAreAlone
<1>12. AtMostOneRow'
  <2> SUFFICES ASSUME NEW q \in Users \ doubled, NEW x \in RowsOf(q)', NEW y \in RowsOf(q)'
               PROVE  x = y
    BY <1>2 DEF AtMostOneRow
  <2>1. CASE q # u
    BY <1>4, <2>1 DEF MembershipInv, AtMostOneRow
  <2>2. CASE q = u /\ participants[r] = NoRow
    <3>1. RowsOf(q) = {}
      BY <1>0, <2>2 DEF MembershipInv, WorkersFit, InsertsAreAlone, Inserts, r, u
    <3> QED
      BY <1>4, <2>2, <3>1
  <2>3. CASE q = u /\ participants[r] # NoRow
    <3>1. r \in RowsOf(q)
      BY <1>0, <1>3, <2>3 DEF RowsOf
    <3> QED
      BY <1>4, <2>3, <3>1 DEF MembershipInv, AtMostOneRow
  <2> QED
    BY <2>1, <2>2, <2>3
<1>13. LinksAreMutual'
  BY <1>0, <1>1, <1>2 DEF MembershipInv, MembersFit, LinksAreMutual
<1>14. EachJoinIsActiveOrRefunded'
  <2> SUFFICES ASSUME NEW q \in Users
               PROVE  joins'[q] = refunds[q] + Cardinality(RowsOf(q)' \cap ActiveRows')
    BY <1>2 DEF EachJoinIsActiveOrRefunded
  <2>0. joins[q] = refunds[q] + Cardinality(RowsOf(q) \cap ActiveRows)
        /\ refunds[q] \in Nat /\ joins[q] \in Nat
    BY DEF MembershipInv, MembersFit, EachJoinIsActiveOrRefunded
  <2>1. CASE q = u
    <3>1. RowsOf(q)' \cap ActiveRows' = (RowsOf(q) \cap ActiveRows) \cup {r}
      BY <1>3, <1>4, <1>5, <2>1 DEF RowsOf, ActiveRows
    <3>2. IsFiniteSet(RowsOf(q) \cap ActiveRows)
      BY MembershipAssumption, FS_Subset DEF RowsOf
    <3>3. Cardinality((RowsOf(q) \cap ActiveRows) \cup {r})
            = Cardinality(RowsOf(q) \cap ActiveRows) + 1
      BY <1>5, <3>2, FS_AddElement
    <3>4. Cardinality(RowsOf(q) \cap ActiveRows) \in Nat
      BY <3>2, FS_CardinalityType
    <3>5. joins'[q] = joins[q] + 1
      BY <1>2, <2>1 DEF MembershipInv, MembersFit
    <3>6. Cardinality(RowsOf(q)' \cap ActiveRows') = Cardinality(RowsOf(q) \cap ActiveRows) + 1
      BY <3>1, <3>3, Zenon
    <3> QED
      BY <2>0, <3>4, <3>5, <3>6, OneMore
  <2>2. CASE q # u
    <3>1. RowsOf(q)' \cap ActiveRows' = RowsOf(q) \cap ActiveRows
      <4>1. r \notin RowsOf(q)
        BY <1>3, <2>2 DEF RowsOf
      <4> QED
        BY <1>4, <1>5, <2>2, <4>1
    <3> QED
      BY <1>2, <2>0, <2>2, <3>1 DEF MembershipInv, MembersFit
  <2> QED
    BY <2>1, <2>2
<1>15. PlayersCountsTheActive'
  <2> SUFFICES ASSUME ~lost' PROVE players' = Cardinality(ActiveRows')
    BY DEF PlayersCountsTheActive
  <2>1. ~lost /\ players = seen[w]
    BY <1>2
  <2>2. players = Cardinality(ActiveRows)
    BY <2>1 DEF MembershipInv, PlayersCountsTheActive
  <2>3. IsFiniteSet(ActiveRows)
    BY MembershipAssumption, FS_Subset DEF ActiveRows
  <2>4. Cardinality(ActiveRows \cup {r}) = Cardinality(ActiveRows) + 1
    BY <1>5, <2>3, FS_AddElement
  <2> QED
    BY <1>2, <1>5, <2>1, <2>2, <2>4
<1> QED
  BY <1>6, <1>7, <1>8, <1>10, <1>11, <1>12, <1>13, <1>14, <1>15 DEF MembershipInv, WorkersFit

\* Both sides of a link are written while nobody works on the participant.
LEMMA LinkInv ==
  ASSUME MembershipInv, NEW a \in Accounts, NEW r \in Rows,
         participants[r] # NoRow, rowLock[r] = Nobody,
         MayAssign(a, r), Link(a, r),
         UNCHANGED <<players, refunds, started, locks, history>>
  PROVE  /\ participants' \in [Rows -> Participant \cup {NoRow}]
         /\ accounts' \in [Accounts -> Rows \cup {NoRow}]
         /\ \A q \in Rows : q # r => participants'[q] = participants[q]
         /\ participants'[r] # NoRow
         /\ AtMostOneRow' /\ LinksAreMutual'
         /\ EachJoinIsActiveOrRefunded' /\ PlayersCountsTheActive'
         /\ \A u : RowsOf(u)' = RowsOf(u)
<1> DEFINE row == [participants[r] EXCEPT !.account = a]
<1>0. participants[r] \in Participant
  BY DEF MembershipInv, MembersFit
<1>1. /\ row \in Participant /\ row # NoRow
      /\ row.user = participants[r].user
      /\ row.isActive = participants[r].isActive
      /\ row.account = a
  BY <1>0, MembershipAssumption DEF Participant
<1>2. /\ participants' = [participants EXCEPT ![r] = row]
      /\ accounts' = [accounts EXCEPT ![a] = r]
      /\ participants[r].account = NoAccount
      /\ accounts[a] = NoRow
  BY DEF Link, MayAssign
<1> HIDE DEF row
<1>3. \A u : RowsOf(u)' = RowsOf(u)
  BY <1>1, <1>2 DEF RowsOf, MembershipInv, MembersFit
<1>4. ActiveRows' = ActiveRows
  BY <1>1, <1>2 DEF ActiveRows, MembershipInv, MembersFit
<1>5. LinksAreMutual'
  BY <1>1, <1>2, MembershipAssumption DEF MembershipInv, MembersFit, LinksAreMutual
<1>6. AtMostOneRow'
  BY <1>3 DEF history, MembershipInv, AtMostOneRow
<1>7. EachJoinIsActiveOrRefunded' /\ PlayersCountsTheActive'
  BY <1>3, <1>4 DEF history, MembershipInv, EachJoinIsActiveOrRefunded, PlayersCountsTheActive
<1> QED
  BY <1>1, <1>2, <1>3, <1>5, <1>6, <1>7 DEF MembershipInv, MembersFit

LEMMA AdminAssignInv ==
  ASSUME MembershipInv, AdminAssign
  PROVE  MembershipInv'
<1>1. PICK a \in Accounts, r \in Rows :
        participants[r] # NoRow /\ rowLock[r] = Nobody /\ MayAssign(a, r) /\ Link(a, r)
  BY DEF AdminAssign
<1>2. UNCHANGED <<players, refunds, started, locks, pc, local, history>>
  BY DEF AdminAssign
<1>3. /\ participants' \in [Rows -> Participant \cup {NoRow}]
      /\ accounts' \in [Accounts -> Rows \cup {NoRow}]
      /\ \A q \in Rows : q # r => participants'[q] = participants[q]
      /\ participants'[r] # NoRow
      /\ AtMostOneRow' /\ LinksAreMutual'
      /\ EachJoinIsActiveOrRefunded' /\ PlayersCountsTheActive'
      /\ \A u : RowsOf(u)' = RowsOf(u)
  BY <1>1, <1>2, LinkInv
<1> USE <1>2 DEF locks, local, history
<1>4. MembersFit'
  BY <1>3 DEF MembershipInv, MembersFit
<1>5. CallsFit'
  BY <1>1, <1>3 DEF MembershipInv, MembersFit, WorkersFit, CallsFit
<1>6. \A w \in Workers : found[w] = r => pc[w] \notin {"refund", "book"}
  BY <1>1, MembershipAssumption DEF MembershipInv, WorkersFit, HoldersOwnTheirRows, OwnsRow
<1>7. HoldersOwnTheirRows'
  BY <1>3, <1>6 DEF MembershipInv, WorkersFit, CallsFit, HoldersOwnTheirRows, OwnsRow
<1>8. \A w \in Workers : Inserts(w)' => Inserts(w)
  BY <1>3, <1>6 DEF Inserts, MembershipInv, WorkersFit, CallsFit
<1>9. NewRowsAreDistinct' /\ InsertsAreAlone'
  BY <1>3, <1>8 DEF MembershipInv, WorkersFit, NewRowsAreDistinct, InsertsAreAlone
<1> QED
  BY <1>3, <1>4, <1>5, <1>7, <1>9 DEF MembershipInv, WorkersFit

LEMMA AssignAccountInv ==
  ASSUME MembershipInv, NEW w \in Workers, AssignAccount(w)
  PROVE  MembershipInv'
<1> DEFINE a == picked[w]
           r == found[w]
<1>0. /\ pc[w] = "attach" /\ a \in Accounts /\ r \in Rows /\ participants[r] # NoRow
      /\ rowLock[r] = Nobody
      /\ UNCHANGED <<players, refunds, started, locks, history>>
  BY DEF AssignAccount, MembershipInv, WorkersFit, CallsFit
<1>1. /\ pc' = [pc EXCEPT ![w] = "done"]
      /\ caller' = [caller EXCEPT ![w] = NoUser]
      /\ found' = [found EXCEPT ![w] = NoRow]
      /\ seen' = [seen EXCEPT ![w] = 0]
      /\ picked' = [picked EXCEPT ![w] = NoAccount]
  BY DEF AssignAccount, Return, Goto
<1>2. /\ participants' \in [Rows -> Participant \cup {NoRow}]
      /\ accounts' \in [Accounts -> Rows \cup {NoRow}]
      /\ \A q \in Rows : q # r => participants'[q] = participants[q]
      /\ participants'[r] # NoRow
      /\ AtMostOneRow' /\ LinksAreMutual'
      /\ EachJoinIsActiveOrRefunded' /\ PlayersCountsTheActive'
      /\ \A u : RowsOf(u)' = RowsOf(u)
  <2>1. CASE MayAssign(a, r) /\ Link(a, r)
    BY <1>0, <2>1, LinkInv
  <2>2. CASE UNCHANGED <<accounts, participants>>
    BY <1>0, <2>2, TablesKept DEF history, MembershipInv, MembersFit
  <2> QED
    BY <2>1, <2>2 DEF AssignAccount
<1> HIDE DEF a, r
<1> USE <1>0, <1>1 DEF locks, history
<1>4. MembersFit'
  <2>1. MembersFit /\ NoAccount \in Accounts \cup {NoAccount}
    BY DEF MembershipInv
  <2>2. /\ pc' = [v \in Workers |-> pc'[v]]
        /\ caller' \in [Workers -> Users \cup {NoUser}]
        /\ found' \in [Workers -> Rows \cup {NoRow}]
        /\ seen' \in [Workers -> 0..MaxPlayers]
        /\ picked' \in [Workers -> Accounts \cup {NoAccount}]
    BY <2>1, ReturnFits
  <2> QED
    BY <1>2, <2>1, <2>2 DEF MembersFit
<1>5. CallsFit'
  BY <1>2 DEF MembershipInv, MembersFit, WorkersFit, CallsFit, Working
<1>6. \A v \in Workers : found[v] = r => pc[v] \notin {"refund", "book"}
  BY MembershipAssumption DEF MembershipInv, WorkersFit, HoldersOwnTheirRows, OwnsRow
<1>7. HoldersOwnTheirRows'
  BY <1>2, <1>6
  DEF MembershipInv, MembersFit, WorkersFit, CallsFit, HoldersOwnTheirRows, OwnsRow
<1>8. \A v \in Workers : Inserts(v)' => Inserts(v) /\ v # w
  BY <1>2, <1>6 DEF Inserts, MembershipInv, MembersFit, WorkersFit, CallsFit
<1>9. NewRowsAreDistinct'
  <2> SUFFICES ASSUME NEW x \in Workers, NEW v \in Workers, Inserts(x)', found'[v] = found'[x]
               PROVE  v = x
    BY DEF NewRowsAreDistinct
  <2>1. Inserts(x) /\ x # w /\ found[x] \in Rows /\ found'[x] = found[x]
    BY <1>8 DEF Inserts, MembershipInv, MembersFit, WorkersFit, CallsFit
  <2>2. v # w
    BY <2>1, MembershipAssumption DEF MembershipInv, MembersFit
  <2> QED
    BY <2>1, <2>2 DEF MembershipInv, MembersFit, WorkersFit, NewRowsAreDistinct
<1>10. InsertsAreAlone'
  <2> SUFFICES ASSUME NEW x \in Workers, Inserts(x)', NEW c, c = caller'[x], c \notin doubled
               PROVE  /\ RowsOf(c)' = {}
                      /\ \A v \in Workers : Inserts(v)' /\ caller'[v] = c => v = x
    BY DEF InsertsAreAlone
  <2>1. Inserts(x) /\ caller[x] = c
    BY <1>8 DEF MembershipInv, MembersFit
  <2> QED
    BY <1>2, <1>8, <2>1 DEF MembershipInv, MembersFit, WorkersFit, InsertsAreAlone
<1> QED
  BY <1>2, <1>4, <1>5, <1>7, <1>9, <1>10 DEF MembershipInv, WorkersFit

LEMMA CommitCancelInv ==
  ASSUME MembershipInv, NEW w \in Workers, CommitCancel(w)
  PROVE  MembershipInv'
<1> DEFINE u == caller[w]
           r == found[w]
           row == [participants[r] EXCEPT !.isActive = FALSE, !.account = NoAccount]
<1>0. /\ pc[w] = "refund" /\ u \in Users /\ r \in Rows
      /\ participants[r] # NoRow /\ participants[r].user = u /\ participants[r].isActive
      /\ seen[w] = players
      /\ marathonLock = w /\ rowLock[r] = w
  BY DEF CommitCancel, MembershipInv, WorkersFit, CallsFit, HoldersOwnTheirRows, OwnsRow, Working
<1>1. /\ row \in Participant /\ row # NoRow
      /\ row.user = u
      /\ ~row.isActive
      /\ row.account = NoAccount
  <2>1. participants[r] \in Participant
    BY <1>0 DEF MembershipInv, MembersFit
  <2> QED
    BY <1>0, <2>1, MembershipAssumption DEF Participant
<1>2. /\ participants' = [participants EXCEPT ![r] = row]
      /\ accounts' = [a \in Accounts |-> IF accounts[a] = r THEN NoRow ELSE accounts[a]]
      /\ players' = IF seen[w] > 0 THEN seen[w] - 1 ELSE 0
      /\ refunds' = [refunds EXCEPT ![u] = @ + 1]
      /\ rowLock' = [q \in Rows |-> IF rowLock[q] = w THEN Nobody ELSE rowLock[q]]
      /\ marathonLock' = Nobody
      /\ pc' = [pc EXCEPT ![w] = "done"]
      /\ caller' = [caller EXCEPT ![w] = NoUser]
      /\ found' = [found EXCEPT ![w] = NoRow]
      /\ seen' = [seen EXCEPT ![w] = 0]
      /\ picked' = [picked EXCEPT ![w] = NoAccount]
      /\ UNCHANGED <<started, history>>
  BY <1>0 DEF CommitCancel, DetachAccount, Unlock, Return, Goto
<1>3. \A q : RowsOf(q)' = RowsOf(q)
  BY <1>0, <1>1, <1>2 DEF RowsOf, MembershipInv, MembersFit
<1>4. ActiveRows' = ActiveRows \ {r} /\ r \in ActiveRows /\ r \in RowsOf(u)
  BY <1>0, <1>1, <1>2 DEF ActiveRows, RowsOf, MembershipInv, MembersFit
<1>5. UNCHANGED <<joins, lost, doubled>>
  BY <1>2 DEF history
<1> HIDE DEF u, r, row
<1>6. MembersFit'
  <2>1. players' \in 0..MaxPlayers
    BY <1>0, <1>2, MembershipAssumption DEF MembershipInv, MembersFit
  <2>2. participants' \in [Rows -> Participant \cup {NoRow}]
    BY <1>1, <1>2 DEF MembershipInv, MembersFit
  <2>3. refunds' \in [Users -> Nat]
    BY <1>0, <1>2 DEF MembershipInv, MembersFit
  <2>4. /\ rowLock' \in [Rows -> Workers \cup {Nobody}]
        /\ accounts' \in [Accounts -> Rows \cup {NoRow}]
    BY <1>2 DEF MembershipInv, MembersFit
  <2>5. /\ pc' = [v \in Workers |-> pc'[v]]
        /\ caller' \in [Workers -> Users \cup {NoUser}]
        /\ found' \in [Workers -> Rows \cup {NoRow}]
        /\ seen' \in [Workers -> 0..MaxPlayers]
        /\ picked' \in [Workers -> Accounts \cup {NoAccount}]
    <3>1. 0 \in 0..MaxPlayers
      BY MembershipAssumption
    <3>2. seen' \in [Workers -> 0..MaxPlayers]
      BY <1>2, <3>1 DEF MembershipInv, MembersFit
    <3> QED
      BY <1>2, <3>2 DEF MembershipInv, MembersFit, Over
  <2> QED
    BY <1>2, <1>5, <2>1, <2>2, <2>3, <2>4, <2>5 DEF MembershipInv, MembersFit
<1>7. CallsFit'
  BY <1>1, <1>2 DEF MembershipInv, MembersFit, WorkersFit, CallsFit, Working
<1>8. HoldersOwnTheirRows'
  <2> SUFFICES ASSUME NEW v \in Workers, pc'[v] \in {"book", "refund"}
               PROVE  (/\ pc[v] = "book" =>
                           \/ participants[found[v]] = NoRow
                           \/ OwnsRow(v) /\ ~participants[found[v]].isActive
                       /\ pc[v] = "refund" =>
                           /\ OwnsRow(v) /\ participants[found[v]].isActive
                           /\ marathonLock = v
                           /\ seen[v] = players)'
    BY DEF HoldersOwnTheirRows
  <2>1. v # w /\ pc[v] = pc'[v]
    BY <1>2 DEF MembershipInv, MembersFit
  <2>2. pc[v] = "book"
    BY <1>0, <2>1 DEF MembershipInv, WorkersFit, HoldersOwnTheirRows
  <2>3. found[v] \in Rows
    BY <2>2 DEF MembershipInv, WorkersFit, CallsFit
  <2>4. found[v] # r
    BY <1>0, <2>1, <2>2 DEF MembershipInv, WorkersFit, HoldersOwnTheirRows, OwnsRow
  <2>5. /\ participants'[found'[v]] = participants[found[v]]
        /\ found'[v] = found[v] /\ caller'[v] = caller[v]
    BY <1>2, <2>1, <2>3, <2>4 DEF MembershipInv, MembersFit
  <2>6. rowLock[found[v]] = v => rowLock'[found[v]] = v
    BY <1>2, <2>1, <2>3
  <2> QED
    BY <2>1, <2>2, <2>5, <2>6 DEF MembershipInv, WorkersFit, HoldersOwnTheirRows, OwnsRow
<1>9. \A v \in Workers : Inserts(v)' => Inserts(v) /\ v # w
  BY <1>0, <1>1, <1>2 DEF Inserts, MembershipInv, MembersFit, WorkersFit, CallsFit
<1>10. NewRowsAreDistinct'
  <2> SUFFICES ASSUME NEW x \in Workers, NEW v \in Workers, Inserts(x)', found'[v] = found'[x]
               PROVE  v = x
    BY DEF NewRowsAreDistinct
  <2>1. Inserts(x) /\ x # w /\ found[x] \in Rows /\ found'[x] = found[x]
    BY <1>2, <1>9 DEF Inserts, MembershipInv, MembersFit, WorkersFit, CallsFit
  <2>2. v # w
    BY <1>2, <2>1, MembershipAssumption DEF MembershipInv, MembersFit
  <2> QED
    BY <1>2, <2>1, <2>2 DEF MembershipInv, MembersFit, WorkersFit, NewRowsAreDistinct
<1>11. InsertsAreAlone'
  <2> SUFFICES ASSUME NEW x \in Workers, Inserts(x)', NEW c, c = caller'[x], c \notin doubled
               PROVE  /\ RowsOf(c)' = {}
                      /\ \A v \in Workers : Inserts(v)' /\ caller'[v] = c => v = x
    BY <1>5 DEF InsertsAreAlone
  <2>1. Inserts(x) /\ caller[x] = c
    BY <1>2, <1>9 DEF MembershipInv, MembersFit
  <2> QED
    BY <1>2, <1>3, <1>9, <2>1 DEF MembershipInv, MembersFit, WorkersFit, InsertsAreAlone
<1>12. AtMostOneRow'
  BY <1>3, <1>5 DEF MembershipInv, AtMostOneRow
<1>13. LinksAreMutual'
  BY <1>1, <1>2, MembershipAssumption DEF MembershipInv, MembersFit, LinksAreMutual
<1>14. EachJoinIsActiveOrRefunded'
  <2> SUFFICES ASSUME NEW q \in Users
               PROVE  joins[q] = refunds'[q] + Cardinality(RowsOf(q)' \cap ActiveRows')
    BY <1>5 DEF EachJoinIsActiveOrRefunded
  <2>0. joins[q] = refunds[q] + Cardinality(RowsOf(q) \cap ActiveRows)
        /\ refunds[q] \in Nat /\ joins[q] \in Nat
    BY DEF MembershipInv, MembersFit, EachJoinIsActiveOrRefunded
  <2>1. CASE q = u
    <3>1. /\ RowsOf(q)' \cap ActiveRows' = (RowsOf(q) \cap ActiveRows) \ {r}
          /\ r \in RowsOf(q) \cap ActiveRows
      BY <1>3, <1>4, <2>1
    <3>2. IsFiniteSet(RowsOf(q) \cap ActiveRows)
      BY MembershipAssumption, FS_Subset DEF RowsOf
    <3>3. Cardinality((RowsOf(q) \cap ActiveRows) \ {r})
            = Cardinality(RowsOf(q) \cap ActiveRows) - 1
      BY <3>1, <3>2, FS_RemoveElement
    <3>4. Cardinality(RowsOf(q) \cap ActiveRows) \in Nat
      BY <3>2, FS_CardinalityType
    <3>5. refunds'[q] = refunds[q] + 1
      BY <1>2, <2>1 DEF MembershipInv, MembersFit
    <3>6. Cardinality(RowsOf(q)' \cap ActiveRows') = Cardinality(RowsOf(q) \cap ActiveRows) - 1
      BY <3>1, <3>3, Zenon
    <3> QED
      BY <2>0, <3>4, <3>5, <3>6, OneMore
  <2>2. CASE q # u
    <3>1. r \notin RowsOf(q)
      BY <1>0, <2>2 DEF RowsOf
    <3>2. RowsOf(q)' \cap ActiveRows' = RowsOf(q) \cap ActiveRows
      BY <1>3, <1>4, <3>1
    <3>3. refunds'[q] = refunds[q]
      BY <1>2, <2>2 DEF MembershipInv, MembersFit
    <3> QED
      BY <2>0, <3>2, <3>3
  <2> QED
    BY <2>1, <2>2
<1>15. PlayersCountsTheActive'
  <2> SUFFICES ASSUME ~lost PROVE players' = Cardinality(ActiveRows')
    BY <1>5 DEF PlayersCountsTheActive
  <2>1. players = Cardinality(ActiveRows)
    BY DEF MembershipInv, PlayersCountsTheActive
  <2>2. IsFiniteSet(ActiveRows)
    BY MembershipAssumption, FS_Subset DEF ActiveRows
  <2>3. Cardinality(ActiveRows \ {r}) = Cardinality(ActiveRows) - 1
    BY <1>4, <2>2, FS_RemoveElement
  <2>4. players > 0
    <3>1. Cardinality(ActiveRows) \in Nat /\ ActiveRows # {}
      BY <1>4, <2>2, FS_CardinalityType
    <3>2. Cardinality(ActiveRows) # 0
      BY <2>2, <3>1, FS_EmptySet
    <3> QED
      BY <2>1, <3>1, <3>2
  <2> QED
    BY <1>0, <1>2, <1>4, <2>1, <2>3, <2>4
<1> QED
  BY <1>6, <1>7, <1>8, <1>10, <1>11, <1>12, <1>13, <1>14, <1>15 DEF MembershipInv, WorkersFit
------------------------------------------------------------------------------
LEMMA StepInv == MembershipInv /\ [MembershipNext]_membershipVars => MembershipInv'
<1> SUFFICES ASSUME MembershipInv, [MembershipNext]_membershipVars
             PROVE  MembershipInv'
  OBVIOUS
<1>1. ASSUME NEW w \in Workers, NEW u \in Users, BeginJoin(w, u) \/ CancelParticipation(w, u)
      PROVE  MembershipInv'
  BY <1>1, EnterJoinInv, CancelParticipationInv DEF BeginJoin
<1>2. ASSUME NEW w \in Workers, Join(w) \/ CommitCancel(w)
      PROVE  MembershipInv'
  BY <1>2, ReadMarathonInv, FindParticipantInv, CommitJoinInv, FindAvailableInv,
     AssignAccountInv, CommitCancelInv DEF Join
<1>3. ASSUME NEW w \in Workers, QueryFails(w)
      PROVE  MembershipInv'
  <2>1. PICK label \in Over : RollBack(w, label)
    BY <1>3 DEF QueryFails, Over
  <2> QED
    BY <2>1, RollBackInv
<1>4. CASE AdminAssign
  BY <1>4, AdminAssignInv
<1>5. CASE StartDate \/ UNCHANGED membershipVars
  <2>1. /\ UNCHANGED <<data, locks, pc, local, history>>
        /\ started' \in BOOLEAN
    BY <1>5 DEF StartDate, membershipVars, MembershipInv, MembersFit
  <2> USE <2>1 DEF data, locks, local, history
  <2>2. MembersFit'
    BY DEF MembershipInv, MembersFit
  <2>3. WorkersFit'
    BY TablesKept DEF MembershipInv, WorkersFit, CallsFit, HoldersOwnTheirRows, OwnsRow,
       NewRowsAreDistinct, InsertsAreAlone, Inserts
  <2> QED
    BY <2>2, <2>3, TablesKept DEF MembershipInv
<1> QED
  BY <1>1, <1>2, <1>3, <1>4, <1>5 DEF MembershipNext

LEMMA MembershipInvHolds == MembershipSpec => []MembershipInv
BY InitInv, StepInv, PTL DEF MembershipSpec

\* Calls of this module stay at its own places in the code.
PlacesFit == pc \in [Workers -> {"idle"} \cup Working \cup Over]

LEMMA PlacesStep == PlacesFit /\ [MembershipNext]_membershipVars => PlacesFit'
<1> SUFFICES ASSUME PlacesFit, [MembershipNext]_membershipVars
             PROVE  PlacesFit'
  OBVIOUS
<1> USE DEF PlacesFit, Goto, Return, RollBack
<1>1. ASSUME NEW w \in Workers, NEW u \in Users, BeginJoin(w, u) \/ CancelParticipation(w, u)
      PROVE  PlacesFit'
  BY <1>1 DEF BeginJoin, CancelParticipation, Working, Over
<1>2. ASSUME NEW w \in Workers, Join(w) \/ CommitCancel(w) \/ QueryFails(w)
      PROVE  PlacesFit'
  <2>1. CASE ReadMarathon(w) \/ FindParticipant(w) \/ CommitJoin(w)
    BY <2>1 DEF ReadMarathon, FindParticipant, CommitJoin, Working, Over
  <2>2. CASE FindAvailable(w) \/ AssignAccount(w) \/ CommitCancel(w) \/ QueryFails(w)
    BY <2>2 DEF FindAvailable, AssignAccount, CommitCancel, QueryFails, Working, Over
  <2> QED
    BY <1>2, <2>1, <2>2 DEF Join
<1>3. CASE AdminAssign \/ StartDate \/ UNCHANGED membershipVars
  BY <1>3 DEF AdminAssign, StartDate, membershipVars
<1> QED
  BY <1>1, <1>2, <1>3 DEF MembershipNext

\* currentPlayers never leaves 0..maxPlayers, although every join writes a number it
\* computed from an unlocked read.
THEOREM MembershipIsTyped == MembershipSpec => []MembershipTypeOK
<1>1. MembershipInit => PlacesFit
  BY DEF MembershipInit, PlacesFit
<1>2. MembershipInv /\ PlacesFit => MembershipTypeOK
  BY DEF MembershipInv, MembersFit, PlacesFit, MembershipTypeOK
<1> QED
  BY <1>1, <1>2, PlacesStep, MembershipInvHolds, PTL DEF MembershipSpec

\* Account and participant name each other, whoever assigns or cancels at once.
THEOREM MembershipLinksAreMutual == MembershipSpec => []LinksAreMutual
<1>1. MembershipInv => LinksAreMutual
  BY DEF MembershipInv
<1> QED
  BY <1>1, MembershipInvHolds, PTL

\* Every join is active or refunded, exactly once.
THEOREM MembershipEachJoinIsActiveOrRefunded == MembershipSpec => []EachJoinIsActiveOrRefunded
<1>1. MembershipInv => EachJoinIsActiveOrRefunded
  BY DEF MembershipInv
<1> QED
  BY <1>1, MembershipInvHolds, PTL

\* currentPlayers counts the active participants until a join has overwritten it.
THEOREM MembershipPlayersCountsTheActive == MembershipSpec => []PlayersCountsTheActive
<1>1. MembershipInv => PlayersCountsTheActive
  BY DEF MembershipInv
<1> QED
  BY <1>1, MembershipInvHolds, PTL

\* A user has one participant unless two joins of theirs both found none.
THEOREM MembershipOneRowPerUser == MembershipSpec => []OneRowPerUser
<1>1. ASSUME MembershipInv
      PROVE  OneRowPerUser
  <2> SUFFICES ASSUME NEW u \in Users \ doubled
               PROVE  Cardinality(RowsOf(u)) <= 1
    BY DEF OneRowPerUser
  <2>1. CASE RowsOf(u) = {}
    BY <2>1, FS_EmptySet
  <2>2. CASE RowsOf(u) # {}
    <3>1. PICK r \in RowsOf(u) : RowsOf(u) = {r}
      BY <1>1, <2>2 DEF MembershipInv, AtMostOneRow
    <3> QED
      BY <3>1, FS_Singleton
  <2> QED
    BY <2>1, <2>2
<1> QED
  BY <1>1, MembershipInvHolds, PTL

------------------------------------------------------------------------------
(***************************************************************************)
(* Payments and their webhooks.                                            *)
(***************************************************************************)

PaymentRow ==
  [user : Users, type : {"charge", "join"}, amount : ChargeAmounts \cup {0},
   status : Statuses, expired : BOOLEAN]

\* Places of the code where a worker handles a webhook.
Places == Handling \cup Joining \cup {"joinFailed"}

\* What a worker knows of its payment.
OrderFits(w) ==
  /\ pc[w] \in Places =>
       /\ order[w].id \in Ids
       /\ order[w].user = payments[order[w].id].user
       /\ order[w].type = payments[order[w].id].type
  /\ pc[w] = "expire" => order[w].id \in Ids
  /\ pc[w] \in {"expire", "invoice"} => order[w].user \in Users /\ order[w].type \in {"charge", "join"}
  /\ pc[w] = "status" => order[w].status \in Statuses /\ previous[w] \in {"PENDING", "COMPLETED"}
  /\ pc[w] \in {"profile", "charge", "reject"} => order[w].type = "charge"
  /\ pc[w] \in Joining \cup {"joinFailed"} => order[w].type = "join"
  /\ pc[w] \in Joining => caller[w] = order[w].user

\* A charge that is being handled was made if it was found COMPLETED.
ChargeUnderWay(w) ==
  LET i == order[w].id IN
  pc[w] \in Places /\ i \notin upset /\ order[w].type = "charge" =>
    /\ pc[w] = "status" => payments[i].status = previous[w]
    /\ pc[w] \in {"check", "profile", "charge", "reject"} => payments[i].status = "COMPLETED"
    /\ pc[w] \in {"status", "check"} => credited[i] = IF previous[w] = "COMPLETED" THEN 1 ELSE 0
    /\ pc[w] \in {"profile", "charge", "reject"} => credited[i] = 0

\* While a join is made, every earlier one of the payment has been refunded.
JoinUnderWay(w) ==
  pc[w] \in Joining /\ order[w].id \notin upset => credited[order[w].id] <= refunds[order[w].user]

WorkerFits(w) == OrderFits(w) /\ ChargeUnderWay(w) /\ JoinUnderWay(w)

\* Webhooks that came one at a time have one handler.
OneHandler ==
  \A v, w \in Workers :
    pc[v] \in Places /\ pc[w] \in Places /\ order[v].id = order[w].id /\ order[v].id \notin upset
      => v = w

\* What the two properties say of one payment; and its joins are joins of its user.
ChargeSettled(i) ==
  i \notin upset /\ payments[i].type = "charge" /\ HandlersOf(i) = {} =>
    /\ payments[i].status = "COMPLETED" => credited[i] = 1
    /\ payments[i].status \in {"PENDING", "FAILED"} => credited[i] = 0

JoinSettled(i) ==
  payments[i].type = "join" =>
    /\ credited[i] <= joins[payments[i].user]
    /\ i \notin upset => credited[i] <= 1 + refunds[payments[i].user]

PaymentFits(i) == ChargeSettled(i) /\ JoinSettled(i)

PaymentsInv ==
  /\ MembershipInv
  /\ PaymentsTypeOK
  /\ \A w \in Workers : WorkerFits(w)
  /\ OneHandler
  /\ \A i \in Ids : PaymentFits(i)
  /\ \A i \in 1..MaxPayments : i \notin Ids => credited[i] = 0

LEMMA PropertiesFollow ==
  ASSUME PaymentsInv
  PROVE  ChargesAreProcessedOnce /\ RejoinOnlyAfterRefund
BY DEF PaymentsInv, PaymentFits, ChargeSettled, JoinSettled, ChargesAreProcessedOnce,
       RejoinOnlyAfterRefund, Settled

LEMMA Bounds == MaxPayments \in Nat /\ MaxProfile \in Nat /\ ChargeAmounts \subseteq Nat
BY PaymentAssumption, SMT

\* The rows, one by one.
LEMMA RowFacts ==
  ASSUME PaymentsTypeOK
  PROVE  /\ Len(payments) \in Nat /\ Ids = 1..Len(payments) /\ Ids \subseteq 1..MaxPayments
         /\ \A i \in Ids : /\ payments[i] \in PaymentRow
                           /\ payments[i].user \in Users
                           /\ payments[i].type \in {"charge", "join"}
                           /\ payments[i].status \in Statuses
                           /\ credited[i] \in Nat
         /\ \A w \in Workers : order[w] \in Order
<1>1. payments \in Seq(PaymentRow) /\ Len(payments) <= MaxPayments
  BY DEF PaymentsTypeOK, PaymentRow
<1>2. Len(payments) \in Nat /\ Ids = 1..Len(payments)
  BY <1>1, LenProperties DEF Ids
<1>3. Ids \subseteq 1..MaxPayments
  BY <1>1, <1>2, Bounds
<1>4. \A i \in Ids : payments[i] \in PaymentRow
  BY <1>1, <1>2, ElementOfSeq
<1>5. \A i \in Ids : credited[i] \in Nat
  BY <1>3 DEF PaymentsTypeOK
<1> QED
  BY <1>2, <1>3, <1>4, <1>5 DEF PaymentRow, PaymentsTypeOK

LEMMA InitPaymentsInv == PaymentsInit => PaymentsInv
<1> SUFFICES ASSUME PaymentsInit PROVE PaymentsInv
  OBVIOUS
<1>1. MembershipInv
  BY InitInv DEF PaymentsInit
<1>2. payments = <<>> /\ Ids = {}
  BY DEF PaymentsInit, Ids
<1>3. PaymentsTypeOK
  <2>1. NoOrder \in Order
    BY Bounds DEF NoOrder, Order
  <2>2. Len(payments) <= MaxPayments
    BY <1>2, Bounds
  <2>3. 0 \in 0..MaxProfile
    BY Bounds
  <2>4. payments \in Seq(PaymentRow)
    BY <1>2
  <2>5. balance \in [Users -> 0..MaxProfile] /\ held \in [Workers -> 0..MaxProfile]
    BY <2>3 DEF PaymentsInit
  <2> QED
    BY <2>1, <2>2, <2>4, <2>5 DEF PaymentsInit, PaymentsTypeOK, PaymentRow
<1>4. \A w \in Workers : pc[w] = "idle"
  BY DEF PaymentsInit, MembershipInit
<1>5. (\A w \in Workers : WorkerFits(w)) /\ OneHandler
  BY <1>4 DEF WorkerFits, OrderFits, ChargeUnderWay, JoinUnderWay, OneHandler, Places, Handling, Joining
<1>6. \A i \in 1..MaxPayments : credited[i] = 0
  BY DEF PaymentsInit
<1> QED
  BY <1>1, <1>2, <1>3, <1>5, <1>6 DEF PaymentsInv

------------------------------------------------------------------------------
\* Membership in its steps and in those of its own.

\* A worker that is in no transaction goes on to another place.
LEMMA MoveOutside ==
  ASSUME MembershipInv, NEW w \in Workers, NEW label,
         pc[w] \notin Working, label \notin Working,
         Goto(w, label),
         UNCHANGED membershipState
  PROVE  MembershipInv'
<1> USE DEF Goto, membershipState, data, locks, local, history
<1>1. MembersFit'
  BY DEF MembershipInv, MembersFit
<1>2. CallsFit'
  BY DEF MembershipInv, MembersFit, WorkersFit, CallsFit, Working
<1>3. HoldersOwnTheirRows'
  BY DEF MembershipInv, MembersFit, WorkersFit, HoldersOwnTheirRows, OwnsRow, Working
<1>4. NewRowsAreDistinct'
  BY DEF MembershipInv, MembersFit, WorkersFit, NewRowsAreDistinct, Inserts, Working
<1>5. InsertsAreAlone'
  BY TablesKept DEF MembershipInv, MembersFit, WorkersFit, InsertsAreAlone, Inserts, Working
<1> QED
  BY <1>1, <1>2, <1>3, <1>4, <1>5, TablesKept DEF MembershipInv, WorkersFit

LEMMA CrashInv ==
  ASSUME MembershipInv, NEW w \in Workers, Crash(w)
  PROVE  MembershipInv'
<1>1. "crashed" \notin Working /\ picked[w] \in Accounts \cup {NoAccount}
  BY DEF Working, MembershipInv, MembersFit
<1>2. picked' = [picked EXCEPT ![w] = picked[w]]
  BY DEF Crash, MembershipInv, MembersFit
<1> QED
  BY <1>1, <1>2, GiveUpInv DEF Crash, Goto

LEMMA JoinInv ==
  ASSUME MembershipInv, NEW w \in Workers, Join(w)
  PROVE  MembershipInv'
BY ReadMarathonInv, FindParticipantInv, CommitJoinInv, FindAvailableInv, AssignAccountInv DEF Join

LEMMA QueryFailsInv ==
  ASSUME MembershipInv, NEW w \in Workers, QueryFails(w)
  PROVE  MembershipInv'
<1>1. PICK label \in Over : RollBack(w, label)
  BY DEF QueryFails, Over
<1> QED
  BY <1>1, RollBackInv

LEMMA PaymentsKeepMembershipInv ==
  ASSUME PaymentsInv, [PaymentsNext]_allVars
  PROVE  MembershipInv'
<1> USE DEF PaymentsInv
<1>1. CASE UNCHANGED membershipVars
  <2>1. UNCHANGED <<data, locks, pc, local, history, started>>
    BY <1>1 DEF membershipVars
  <2> USE <2>1 DEF data, locks, local, history
  <2>2. MembersFit'
    BY DEF MembershipInv, MembersFit
  <2>3. WorkersFit'
    BY TablesKept DEF MembershipInv, WorkersFit, CallsFit, HoldersOwnTheirRows, OwnsRow,
       NewRowsAreDistinct, InsertsAreAlone, Inserts
  <2> QED
    BY <2>2, <2>3, TablesKept DEF MembershipInv
<1>2. ASSUME NEW w \in Workers, NEW u \in Users, NEW type, NEW amount, CreatePayment(w, u, type, amount)
      PROVE  MembershipInv'
  <2>1. PICK label \in {"failed", "invoice", "expire", "done"} : Goto(w, label)
    BY <1>2 DEF CreatePayment, End
  <2> QED
    BY <1>2, <2>1, MoveOutside DEF CreatePayment, Working
<1>3. ASSUME NEW w \in Workers, NEW i, NEW status, ReceiveWebhook(w, i, status)
      PROVE  MembershipInv'
  <2>1. PICK label \in {"done", "status"} : Goto(w, label)
    BY <1>3 DEF ReceiveWebhook, End
  <2> QED
    BY <1>3, <2>1, MoveOutside DEF ReceiveWebhook, Working
<1>4. ASSUME NEW w \in Workers,
             CancelExpired(w) \/ SavePayment(w) \/ InvoiceRefused(w) \/ SaveStatus(w) \/ ReadProfile(w)
               \/ ChargeProfile(w) \/ RejectPayment(w)
      PROVE  MembershipInv'
  <2>1. PICK label \in {"invoice", "done", "failed", "check", "charge", "reject"} : Goto(w, label)
    BY <1>4 DEF CancelExpired, SavePayment, InvoiceRefused, SaveStatus, ReadProfile, ChargeProfile,
       RejectPayment, End
  <2>2. UNCHANGED membershipState /\ pc[w] \notin Working
    BY <1>4 DEF CancelExpired, SavePayment, InvoiceRefused, SaveStatus, ReadProfile, ChargeProfile,
       RejectPayment, Working
  <2> QED
    BY <2>1, <2>2, MoveOutside DEF Working
<1>5. ASSUME NEW w \in Workers, CheckProcessed(w)
      PROVE  MembershipInv'
  <2>1. pc[w] = "check" /\ order[w].user \in Users
    BY <1>5, RowFacts DEF CheckProcessed, WorkerFits, OrderFits, Places, Handling
  <2>2. CASE /\ caller' = [caller EXCEPT ![w] = order[w].user]
             /\ Goto(w, "join")
             /\ UNCHANGED <<data, started, locks, found, seen, picked, history>>
    BY <2>1, <2>2, EnterJoinInv
  <2>3. CASE UNCHANGED membershipState /\ \E label \in {"done", "profile"} : Goto(w, label)
    BY <2>1, <2>3, MoveOutside DEF Working
  <2> QED
    BY <1>5, <2>2, <2>3 DEF CheckProcessed, End
<1>6. ASSUME NEW w \in Workers, ProcessJoin(w) \/ CommitCancel(w)
      PROVE  MembershipInv'
  BY <1>6, JoinInv, CommitCancelInv DEF ProcessJoin
<1>7. ASSUME NEW w \in Workers, NEW u \in Users, Cancel(w, u)
      PROVE  MembershipInv'
  BY <1>7, CancelParticipationInv DEF Cancel
<1>8. ASSUME NEW w \in Workers, ProcessingFails(w)
      PROVE  MembershipInv'
  <2>1. CASE QueryFails(w)
    BY <2>1, QueryFailsInv
  <2>2. CASE pc[w] \in {"profile", "charge"} /\ Goto(w, "reject") /\ UNCHANGED membershipState
    BY <2>2, MoveOutside DEF Working
  <2> QED
    BY <1>8, <2>1, <2>2 DEF ProcessingFails
<1>9. CASE \E i \in Ids : Expire(i) \/ \E status \in Statuses : ProviderSends(i, status)
  BY <1>1, <1>9 DEF Expire, ProviderSends
<1>10. CASE UNCHANGED allVars
  BY <1>1, <1>10 DEF allVars
<1> QED
  BY <1>2, <1>3, <1>4, <1>5, <1>6, <1>7, <1>8, <1>9, <1>10, CrashInv DEF PaymentsNext, Serve

------------------------------------------------------------------------------
\* One step is about one worker and one payment: whoever else handles that payment makes
\* it upset, so nobody else has to look at what has become of it.
LEMMA OthersKept ==
  ASSUME PaymentsInv, NEW w \in Workers, NEW k,
         \A v \in Workers \ {w} : /\ pc'[v] = pc[v] /\ order'[v] = order[v]
                                  /\ previous'[v] = previous[v] /\ caller'[v] = caller[v],
         Ids \subseteq Ids', Ids' \subseteq Ids \cup {k}, Ids' \subseteq 1..MaxPayments,
         \A i \in Ids : /\ payments'[i].user = payments[i].user
                        /\ payments'[i].type = payments[i].type
                        /\ i # k => payments'[i].status = payments[i].status,
         \A i \in 1..MaxPayments : i # k => credited'[i] = credited[i],
         \A u \in Users : joins'[u] >= joins[u] /\ refunds'[u] >= refunds[u],
         joins' \in [Users -> Nat], refunds' \in [Users -> Nat],
         upset \subseteq upset',
         \A v \in Workers \ {w} : pc[v] \in Places /\ order[v].id = k => k \in upset',
         pc[w] \in Places => order[w].id = k,
         pc'[w] \in Places => order'[w].id = k,
         WorkerFits(w)',
         k \in Ids' => PaymentFits(k)',
         k \in 1..MaxPayments \ Ids' => credited'[k] = 0
  PROVE  /\ (\A v \in Workers : WorkerFits(v))'
         /\ OneHandler'
         /\ (\A i \in Ids : PaymentFits(i))'
         /\ (\A i \in 1..MaxPayments : i \notin Ids => credited[i] = 0)'
<1>0. PaymentsTypeOK /\ MembersFit
  BY DEF PaymentsInv, MembershipInv
<1>1. ASSUME NEW v \in Workers, v # w
      PROVE  WorkerFits(v)'
  <2>0. WorkerFits(v)
    BY DEF PaymentsInv
  <2>1. pc'[v] = pc[v] /\ order'[v] = order[v] /\ previous'[v] = previous[v] /\ caller'[v] = caller[v]
    BY <1>1
  <2>2. OrderFits(v)'
    BY <2>0, <2>1 DEF WorkerFits, OrderFits
  <2>3. ASSUME pc[v] \in Places, order[v].id \notin upset'
        PROVE  /\ order[v].id \in Ids /\ order[v].id # k /\ order[v].id \notin upset
               /\ credited'[order[v].id] = credited[order[v].id]
               /\ payments'[order[v].id].status = payments[order[v].id].status
    <3>1. order[v].id \in Ids /\ order[v].id # k /\ order[v].id \notin upset
      BY <1>1, <2>0, <2>3 DEF WorkerFits, OrderFits
    <3>2. order[v].id \in 1..MaxPayments
      BY <1>0, <3>1, RowFacts
    <3> QED
      BY <3>1, <3>2
  <2>4. ChargeUnderWay(v)'
    BY <2>0, <2>1, <2>3 DEF WorkerFits, ChargeUnderWay
  <2>5. JoinUnderWay(v)'
    <3> SUFFICES ASSUME pc[v] \in Joining, order[v].id \notin upset'
                 PROVE  credited'[order[v].id] <= refunds'[order[v].user]
      BY <2>1 DEF JoinUnderWay
    <3>1. pc[v] \in Places
      BY DEF Places
    <3>2. /\ order[v].id \in Ids /\ order[v].user \in Users
          /\ credited'[order[v].id] = credited[order[v].id]
          /\ credited[order[v].id] <= refunds[order[v].user]
      BY <1>0, <2>0, <2>3, <3>1, RowFacts DEF WorkerFits, OrderFits, JoinUnderWay
    <3>3. credited[order[v].id] \in Nat /\ refunds[order[v].user] \in Nat /\ refunds'[order[v].user] \in Nat
      BY <1>0, <3>2, RowFacts DEF MembersFit
    <3>4. refunds'[order[v].user] >= refunds[order[v].user]
      BY <3>2
    <3> QED
      BY <3>2, <3>3, <3>4
  <2> QED
    BY <2>2, <2>4, <2>5 DEF WorkerFits
<1>2. OneHandler'
  <2> SUFFICES ASSUME NEW v \in Workers, NEW x \in Workers, v # x,
                      pc'[v] \in Places, pc'[x] \in Places, order'[v].id = order'[x].id
               PROVE  order'[v].id \in upset'
    BY DEF OneHandler
  <2>1. CASE v = w
    BY <2>1
  <2>2. CASE x = w
    BY <2>2
  <2>3. CASE v # w /\ x # w
    BY <2>3 DEF PaymentsInv, OneHandler
  <2> QED
    BY <2>1, <2>2, <2>3
<1>3. ASSUME NEW i \in Ids', i # k
      PROVE  PaymentFits(i)'
  <2>1. i \in Ids /\ i \in 1..MaxPayments /\ PaymentFits(i)
    BY <1>0, <1>3, RowFacts DEF PaymentsInv
  <2>2. /\ payments'[i].user = payments[i].user /\ payments'[i].type = payments[i].type
        /\ payments'[i].status = payments[i].status /\ credited'[i] = credited[i]
    BY <1>3, <2>1
  <2>3. HandlersOf(i)' = HandlersOf(i)
    BY <1>3 DEF HandlersOf, Places
  <2>4. ChargeSettled(i)'
    BY <2>1, <2>2, <2>3 DEF PaymentFits, ChargeSettled
  <2>5. JoinSettled(i)'
    <3>1. /\ payments[i].user \in Users
          /\ credited[i] \in Nat /\ refunds[payments[i].user] \in Nat /\ joins[payments[i].user] \in Nat
          /\ refunds'[payments[i].user] \in Nat /\ joins'[payments[i].user] \in Nat
      BY <1>0, <2>1, RowFacts DEF MembersFit
    <3>2. /\ refunds'[payments[i].user] >= refunds[payments[i].user]
          /\ joins'[payments[i].user] >= joins[payments[i].user]
      BY <3>1
    <3>3. i \notin upset' => i \notin upset
      OBVIOUS
    <3> QED
      BY <2>1, <2>2, <3>1, <3>2, <3>3 DEF PaymentFits, JoinSettled
  <2> QED
    BY <2>4, <2>5 DEF PaymentFits
<1>4. ASSUME NEW i \in 1..MaxPayments, i \notin Ids'
      PROVE  credited'[i] = 0
  BY <1>4 DEF PaymentsInv
<1> QED
  BY <1>1, <1>2, <1>3, <1>4

\* A step that changes nothing a handler looks at.
LEMMA NothingKnown ==
  ASSUME PaymentsInv,
         UNCHANGED <<pc, order, previous, caller, credited, joins, refunds, upset>>,
         Ids' = Ids,
         \A i \in Ids : /\ payments'[i].user = payments[i].user
                        /\ payments'[i].type = payments[i].type
                        /\ payments'[i].status = payments[i].status
  PROVE  /\ (\A v \in Workers : WorkerFits(v))'
         /\ OneHandler'
         /\ (\A i \in Ids : PaymentFits(i))'
         /\ (\A i \in 1..MaxPayments : i \notin Ids => credited[i] = 0)'
<1>1. ASSUME NEW v \in Workers
      PROVE  WorkerFits(v)'
  <2>1. WorkerFits(v)
    BY DEF PaymentsInv
  <2>2. pc[v] \in Places => order[v].id \in Ids
    BY <2>1 DEF WorkerFits, OrderFits
  <2> QED
    BY <2>1, <2>2 DEF WorkerFits, OrderFits, ChargeUnderWay, JoinUnderWay
<1>2. OneHandler'
  BY DEF PaymentsInv, OneHandler
<1>3. ASSUME NEW i \in Ids
      PROVE  PaymentFits(i)'
  BY DEF PaymentsInv, PaymentFits, ChargeSettled, JoinSettled, HandlersOf
<1> QED
  BY <1>1, <1>2, <1>3 DEF PaymentsInv

\* The newest of some payments is one of them.
LEMMA Newest ==
  ASSUME NEW n \in Nat, NEW S, S \subseteq 1..n, S # {}
  PROVE  Max(S) \in S
<1> DEFINE Bounding == {m \in Nat : \A x \in S : x <= m}
           Less == OpToRel(<, Nat)
<1>1. n \in Bounding
  OBVIOUS
<1>2. PICK m \in Bounding : \A y \in Bounding : <<y, m>> \notin Less
  <2>1. IsWellFoundedOn(Less, Nat)
    BY NatLessThanWellFounded, Zenon
  <2>2. Bounding \subseteq Nat /\ Bounding # {}
    BY <1>1
  <2> HIDE DEF Bounding, Less
  <2> QED
    BY <2>1, <2>2, WFMin
<1>3. \A y \in Bounding : ~(y < m)
  BY <1>2 DEF OpToRel
<1>4. m \in S
  <2> SUFFICES ASSUME m \notin S PROVE FALSE
    OBVIOUS
  <2>1. PICK x \in S : x \in 1..n /\ x <= m
    OBVIOUS
  <2>2. m - 1 \in Nat
    BY <2>1
  <2>3. \A y \in S : y <= m - 1
    <3> SUFFICES ASSUME NEW y \in S PROVE y <= m - 1
      OBVIOUS
    <3>1. y \in Int /\ y <= m /\ y # m /\ m \in Int
      OBVIOUS
    <3> QED
      BY <3>1
  <2> QED
    BY <1>3, <2>2, <2>3
<1>5. \A y \in S : m >= y
  OBVIOUS
<1>6. \E x \in S : \A y \in S : x >= y
  BY <1>4, <1>5
<1> HIDE DEF Bounding, Less
<1> QED
  BY <1>6 DEF Max

------------------------------------------------------------------------------
\* Types.

\* Saving a status changes nothing else of any payment.
LEMMA SavedStatus ==
  ASSUME PaymentsTypeOK, NEW i \in Ids, NEW status \in Statuses, SetStatus(i, status)
  PROVE  /\ payments' \in Seq(PaymentRow) /\ Len(payments') = Len(payments)
         /\ Ids' = Ids
         /\ \A j \in Ids : /\ payments'[j].user = payments[j].user
                           /\ payments'[j].type = payments[j].type
                           /\ payments'[j].status = IF j = i THEN status ELSE payments[j].status
<1>1. payments \in Seq(PaymentRow)
  BY DEF PaymentsTypeOK, PaymentRow
<1>2. i \in 1..Len(payments) /\ payments[i] \in PaymentRow
  BY RowFacts
<1>3. PICK row : row = [payments[i] EXCEPT !.status = status]
  OBVIOUS
<1>4. /\ row \in PaymentRow
      /\ row.user = payments[i].user /\ row.type = payments[i].type /\ row.status = status
  BY <1>2, <1>3 DEF PaymentRow
<1>5. payments' = [payments EXCEPT ![i] = row]
  BY <1>3 DEF SetStatus
<1>6. /\ payments' \in Seq(PaymentRow) /\ Len(payments') = Len(payments)
      /\ \A j \in 1..Len(payments) : payments'[j] = IF j = i THEN row ELSE payments[j]
  BY <1>1, <1>2, <1>4, <1>5, ExceptSeq
<1>7. Ids = 1..Len(payments) /\ Ids' = 1..Len(payments')
  BY <1>1, <1>6, LenProperties DEF Ids
<1> QED
  BY <1>4, <1>6, <1>7

\* The call is over.
LEMMA Ended ==
  ASSUME PaymentsTypeOK, NEW w \in Workers, NEW label, End(w, label)
  PROVE  /\ order' \in [Workers -> Order]
         /\ previous' \in [Workers -> Statuses \cup {"none"}]
         /\ held' \in [Workers -> 0..MaxProfile]
<1>1. NoOrder \in Order /\ 0 \in 0..MaxProfile
  BY Bounds DEF NoOrder, Order
<1> QED
  BY <1>1 DEF End, PaymentsTypeOK

LEMMA NewestPending ==
  ASSUME PaymentsTypeOK, NEW u, NEW type, PendingOf(u, type) # {}
  PROVE  Max(PendingOf(u, type)) \in Ids
<1>1. Len(payments) \in Nat /\ Ids = 1..Len(payments)
  BY RowFacts
<1>2. PendingOf(u, type) \subseteq Ids
  BY DEF PendingOf
<1>3. Max(PendingOf(u, type)) \in PendingOf(u, type)
  BY <1>1, <1>2, Newest
<1> QED
  BY <1>2, <1>3

LEMMA CreatePaymentFits ==
  ASSUME PaymentsTypeOK, NEW w \in Workers, NEW u \in Users, NEW type \in {"charge", "join"},
         NEW amount \in ChargeAmounts \cup {0}, CreatePayment(w, u, type, amount)
  PROVE  PaymentsTypeOK'
<1>1. CASE \E label : End(w, label)
  BY <1>1, Ended DEF PaymentsTypeOK, CreatePayment
<1>2. ASSUME NEW id \in 0..MaxPayments, UNCHANGED <<previous, held>>,
             order' = [order EXCEPT ![w] =
                         [id |-> id, user |-> u, type |-> type, amount |-> amount, status |-> "none"]]
      PROVE  PaymentsTypeOK'
  <2>1. [id |-> id, user |-> u, type |-> type, amount |-> amount, status |-> "none"] \in Order
    BY DEF Order
  <2>2. order' \in [Workers -> Order]
    BY <1>2, <2>1 DEF PaymentsTypeOK
  <2> QED
    BY <1>2, <2>2 DEF PaymentsTypeOK, CreatePayment
<1>3. 0 \in 0..MaxPayments
  BY Bounds
<1>4. PendingOf(u, type) # {} => Max(PendingOf(u, type)) \in 0..MaxPayments
  BY NewestPending, RowFacts, Bounds
<1> QED
  BY <1>1, <1>2, <1>3, <1>4 DEF CreatePayment

LEMMA CancelExpiredFits ==
  ASSUME PaymentsTypeOK, NEW w \in Workers, OrderFits(w), CancelExpired(w)
  PROVE  PaymentsTypeOK'
<1>0. PICK i \in Ids : i = order[w].id
  BY DEF CancelExpired, OrderFits
<1>1. /\ payments' \in Seq(PaymentRow) /\ Len(payments') = Len(payments)
  BY <1>0, SavedStatus DEF CancelExpired, Statuses
<1>2. order' \in [Workers -> Order]
  <2>1. PICK o : o = [order[w] EXCEPT !.id = 0]
    OBVIOUS
  <2>2. order[w] \in Order /\ 0 \in 0..MaxPayments
    BY RowFacts, Bounds
  <2>3. o \in Order
    BY <2>1, <2>2 DEF Order
  <2>4. order' = [order EXCEPT ![w] = o]
    BY <2>1 DEF CancelExpired
  <2> QED
    BY <2>3, <2>4 DEF PaymentsTypeOK
<1>3. upset' \subseteq 1..MaxPayments
  BY <1>0, RowFacts DEF CancelExpired, PaymentsTypeOK
<1> QED
  BY <1>1, <1>2, <1>3 DEF CancelExpired, PaymentsTypeOK, PaymentRow

LEMMA SavePaymentFits ==
  ASSUME PaymentsTypeOK, NEW w \in Workers, OrderFits(w), SavePayment(w)
  PROVE  /\ PaymentsTypeOK'
         /\ Ids' = Ids \cup {Len(payments) + 1} /\ Len(payments) + 1 \in 1..MaxPayments
         /\ \A i \in Ids : payments'[i] = payments[i]
         /\ payments'[Len(payments) + 1].status = "PENDING"
         /\ payments'[Len(payments) + 1].user \in Users
<1>1. payments \in Seq(PaymentRow) /\ Len(payments) \in Nat /\ Ids = 1..Len(payments)
  BY RowFacts DEF PaymentsTypeOK, PaymentRow
<1>2. PICK row : row = Payment(order[w])
  OBVIOUS
<1>3. row \in PaymentRow /\ row.status = "PENDING"
  <2>1. order[w] \in Order /\ order[w].user \in Users /\ order[w].type \in {"charge", "join"}
    BY RowFacts DEF SavePayment, OrderFits
  <2> QED
    BY <1>2, <2>1 DEF Order, Payment, PaymentRow, Statuses
<1>4. payments' = Append(payments, row) /\ Len(payments) < MaxPayments
  BY <1>2 DEF SavePayment
<1>5. /\ payments' \in Seq(PaymentRow) /\ Len(payments') = Len(payments) + 1
      /\ \A i \in 1..Len(payments) : payments'[i] = payments[i]
      /\ payments'[Len(payments) + 1] = row
  BY <1>1, <1>3, <1>4, AppendProperties
<1>6. Ids' = 1..(Len(payments) + 1)
  BY <1>5, LenProperties DEF Ids
<1>7. Len(payments) + 1 \in 1..MaxPayments
  BY <1>1, <1>4, Bounds
<1>8. PaymentsTypeOK'
  BY <1>4, <1>5, <1>7, Ended DEF SavePayment, PaymentsTypeOK, PaymentRow
<1> QED
  BY <1>1, <1>3, <1>5, <1>6, <1>7, <1>8 DEF PaymentRow

\* Whatever is appended to the digits of a balance, it is a number of at least 0.
LEMMA AppendedIsNat ==
  ASSUME NEW b \in Nat, NEW amount \in ChargeAmounts \cup {0}
  PROVE  Appended(b, amount) \in Nat
<1>1. PICK dollars : dollars = amount \div 100
  OBVIOUS
<1>2. amount \in Nat /\ dollars \in Nat /\ dollars <= 10000
  BY <1>1, PaymentAssumption, SMT
<1>3. \E p \in {10, 100, 1000, 10000, 100000} : dollars < p /\ (p = 10 \/ dollars >= p \div 10)
  <2>1. CASE dollars < 10
    BY <2>1, SMT
  <2>2. CASE 10 <= dollars /\ dollars < 100
    BY <1>2, <2>2, SMT
  <2>3. CASE 100 <= dollars /\ dollars < 1000
    BY <1>2, <2>3, SMT
  <2>4. CASE 1000 <= dollars /\ dollars < 10000
    BY <1>2, <2>4, SMT
  <2>5. CASE 10000 <= dollars
    BY <1>2, <2>5, SMT
  <2> QED
    BY <1>2, <2>1, <2>2, <2>3, <2>4, <2>5, SMT
<1>4. Shift(dollars) \in Nat
  <2>1. Shift(dollars) \in {10, 100, 1000, 10000, 100000}
    BY <1>3, SMT DEF Shift
  <2> QED
    BY <2>1, SMT
<1>5. Appended(b, amount) = b * Shift(dollars) + amount
  BY <1>1, SMT DEF Appended
<1> HIDE DEF Shift, Appended
<1> QED
  BY <1>2, <1>4, <1>5, SMT

LEMMA CountedOnce ==
  ASSUME PaymentsTypeOK, NEW i \in Ids, credited' = [credited EXCEPT ![i] = @ + 1]
  PROVE  credited' \in [1..MaxPayments -> Nat] /\ credited'[i] = credited[i] + 1
<1>1. i \in 1..MaxPayments /\ credited[i] \in Nat
  BY RowFacts
<1>2. PICK n : n = credited[i] + 1
  OBVIOUS
<1>3. n \in Nat /\ credited' = [credited EXCEPT ![i] = n]
  BY <1>1, <1>2
<1>4. credited \in [1..MaxPayments -> Nat]
  BY DEF PaymentsTypeOK
<1> QED
  BY <1>1, <1>2, <1>3, <1>4

LEMMA ChargeProfileFits ==
  ASSUME PaymentsTypeOK, NEW w \in Workers, OrderFits(w), ChargeProfile(w)
  PROVE  PaymentsTypeOK'
<1>0. PICK i \in Ids : i = order[w].id
  BY DEF ChargeProfile, OrderFits, Places, Handling
<1>1. CASE ~Chargeable(held[w], order[w].amount)
  BY <1>1 DEF ChargeProfile, PaymentsTypeOK, paymentLocal
<1>2. CASE Chargeable(held[w], order[w].amount)
  <2>1. /\ balance' = [balance EXCEPT ![order[w].user] = Appended(held[w], order[w].amount)]
        /\ credited' = [credited EXCEPT ![i] = @ + 1]
        /\ End(w, "done")
        /\ UNCHANGED <<payments, sent, upset>>
    BY <1>0, <1>2 DEF ChargeProfile
  <2>2. PICK b : b = Appended(held[w], order[w].amount)
    OBVIOUS
  <2>3. b \in 0..MaxProfile
    <3>1. order[w].amount \in ChargeAmounts \cup {0} /\ held[w] \in Nat
      BY RowFacts, Bounds DEF Order, PaymentsTypeOK
    <3>2. Appended(held[w], order[w].amount) \in Nat
      BY <3>1, AppendedIsNat
    <3>3. Appended(held[w], order[w].amount) <= MaxProfile
      BY <1>2, SMT DEF Chargeable
    <3> QED
      BY <2>2, <3>2, <3>3, Bounds
  <2>4. balance' \in [Users -> 0..MaxProfile]
    BY <2>1, <2>2, <2>3 DEF PaymentsTypeOK
  <2>5. credited' \in [1..MaxPayments -> Nat]
    BY <2>1, CountedOnce
  <2> QED
    BY <2>1, <2>4, <2>5, Ended DEF PaymentsTypeOK
<1> QED
  BY <1>1, <1>2

LEMMA ReceiveWebhookFits ==
  ASSUME PaymentsTypeOK, NEW w \in Workers, NEW i \in Ids, NEW status \in Statuses,
         ReceiveWebhook(w, i, status)
  PROVE  PaymentsTypeOK'
<1>1. i \in 1..MaxPayments /\ payments[i] \in PaymentRow
  BY RowFacts
<1>2. upset' \subseteq 1..MaxPayments
  BY <1>1 DEF ReceiveWebhook, PaymentsTypeOK
<1>3. CASE End(w, "done")
  BY <1>2, <1>3, Ended DEF ReceiveWebhook, PaymentsTypeOK
<1>4. CASE ~End(w, "done")
  <2>1. PICK o : o = [id |-> i, user |-> payments[i].user, type |-> payments[i].type,
                      amount |-> payments[i].amount, status |-> status]
    OBVIOUS
  <2>2. o \in Order
    BY <1>1, <2>1, Bounds DEF Order, PaymentRow
  <2>3. /\ order' = [order EXCEPT ![w] = o]
        /\ previous' = [previous EXCEPT ![w] = payments[i].status]
        /\ UNCHANGED <<held, payments, sent, balance, credited>>
    BY <1>4, <2>1 DEF ReceiveWebhook
  <2>4. order' \in [Workers -> Order] /\ previous' \in [Workers -> Statuses \cup {"none"}]
    BY <1>1, <2>2, <2>3 DEF PaymentsTypeOK, PaymentRow
  <2> QED
    BY <1>2, <2>3, <2>4 DEF PaymentsTypeOK
<1> QED
  BY <1>3, <1>4

LEMMA SaveStatusFits ==
  ASSUME PaymentsTypeOK, NEW w \in Workers, OrderFits(w), SaveStatus(w)
  PROVE  PaymentsTypeOK'
<1>0. PICK i \in Ids : i = order[w].id /\ order[w].status \in Statuses
  BY DEF SaveStatus, OrderFits, Places, Handling
<1>1. /\ payments' \in Seq(PaymentRow) /\ Len(payments') = Len(payments)
  BY <1>0, SavedStatus DEF SaveStatus
<1>2. upset' \subseteq 1..MaxPayments
  BY <1>0, RowFacts DEF SaveStatus, PaymentsTypeOK
<1>3. /\ order' \in [Workers -> Order]
      /\ previous' \in [Workers -> Statuses \cup {"none"}]
      /\ held' \in [Workers -> 0..MaxProfile]
  BY Ended DEF SaveStatus, paymentLocal, PaymentsTypeOK
<1> QED
  BY <1>1, <1>2, <1>3 DEF SaveStatus, PaymentsTypeOK, PaymentRow

LEMMA RejectPaymentFits ==
  ASSUME PaymentsTypeOK, NEW w \in Workers, OrderFits(w), RejectPayment(w)
  PROVE  PaymentsTypeOK'
<1>0. PICK i \in Ids : i = order[w].id
  BY DEF RejectPayment, OrderFits, Places, Handling
<1>1. /\ payments' \in Seq(PaymentRow) /\ Len(payments') = Len(payments)
  BY <1>0, SavedStatus DEF RejectPayment, Statuses
<1> QED
  BY <1>1, Ended DEF RejectPayment, PaymentsTypeOK, PaymentRow

LEMMA ExpireFits ==
  ASSUME PaymentsTypeOK, NEW i \in Ids, Expire(i)
  PROVE  /\ PaymentsTypeOK'
         /\ Ids' = Ids
         /\ \A j \in Ids : /\ payments'[j].user = payments[j].user
                           /\ payments'[j].type = payments[j].type
                           /\ payments'[j].status = payments[j].status
<1>1. payments \in Seq(PaymentRow) /\ i \in 1..Len(payments) /\ payments[i] \in PaymentRow
  BY RowFacts DEF PaymentsTypeOK, PaymentRow
<1>2. PICK row : row = [payments[i] EXCEPT !.expired = TRUE]
  OBVIOUS
<1>3. /\ row \in PaymentRow
      /\ row.user = payments[i].user /\ row.type = payments[i].type /\ row.status = payments[i].status
  BY <1>1, <1>2 DEF PaymentRow
<1>4. payments' = [payments EXCEPT ![i] = row]
  BY <1>2 DEF Expire
<1>5. /\ payments' \in Seq(PaymentRow) /\ Len(payments') = Len(payments)
      /\ \A j \in 1..Len(payments) : payments'[j] = IF j = i THEN row ELSE payments[j]
  BY <1>1, <1>3, <1>4, ExceptSeq
<1>6. Ids = 1..Len(payments) /\ Ids' = 1..Len(payments')
  BY <1>1, <1>5, LenProperties DEF Ids
<1>7. PaymentsTypeOK'
  BY <1>5 DEF Expire, paymentLocal, PaymentsTypeOK, PaymentRow
<1> QED
  BY <1>3, <1>5, <1>6, <1>7

LEMMA CrashFits ==
  ASSUME PaymentsTypeOK, NEW w \in Workers, OrderFits(w), Crash(w)
  PROVE  PaymentsTypeOK'
<1>1. End(w, "crashed")
  BY DEF Crash, End
<1>2. upset' \subseteq 1..MaxPayments
  BY RowFacts DEF Crash, OrderFits, Places, PaymentsTypeOK
<1> QED
  BY <1>1, <1>2, Ended DEF Crash, PaymentsTypeOK

LEMMA ProcessJoinFits ==
  ASSUME PaymentsTypeOK, NEW w \in Workers, OrderFits(w), ProcessJoin(w)
  PROVE  PaymentsTypeOK'
<1>1. credited' \in [1..MaxPayments -> Nat]
  <2>1. CASE pc[w] = "book"
    <3>1. PICK i \in Ids : i = order[w].id
      BY <2>1 DEF OrderFits, Places, Joining
    <3> QED
      BY <2>1, <3>1, CountedOnce DEF ProcessJoin
  <2>2. CASE pc[w] # "book"
    BY <2>2 DEF ProcessJoin, PaymentsTypeOK
  <2> QED
    BY <2>1, <2>2
<1> QED
  BY <1>1 DEF ProcessJoin, paymentLocal, PaymentsTypeOK

LEMMA PaymentsTypeStep ==
  ASSUME PaymentsInv, [PaymentsNext]_allVars
  PROVE  PaymentsTypeOK'
<1>0. PaymentsTypeOK /\ \A w \in Workers : OrderFits(w)
  BY DEF PaymentsInv, WorkerFits
<1>1. ASSUME NEW w \in Workers, NEW u \in Users,
             \/ \E amount \in ChargeAmounts : CreatePayment(w, u, "charge", amount)
             \/ CreatePayment(w, u, "join", 0)
             \/ Cancel(w, u)
      PROVE  PaymentsTypeOK'
  BY <1>0, <1>1, CreatePaymentFits DEF Cancel, paymentVars, paymentLocal, PaymentsTypeOK
<1>2. ASSUME NEW w \in Workers,
             InvoiceRefused(w) \/ CheckProcessed(w)
               \/ (CommitCancel(w) /\ UNCHANGED paymentVars) \/ ProcessingFails(w)
      PROVE  PaymentsTypeOK'
  <2>1. UNCHANGED <<payments, sent, balance, credited, upset>>
    BY <1>2 DEF InvoiceRefused, CheckProcessed, ProcessingFails, paymentVars
  <2>2. UNCHANGED paymentLocal \/ \E label : End(w, label)
    BY <1>2 DEF InvoiceRefused, CheckProcessed, ProcessingFails, paymentVars
  <2>3. /\ order' \in [Workers -> Order]
        /\ previous' \in [Workers -> Statuses \cup {"none"}]
        /\ held' \in [Workers -> 0..MaxProfile]
    BY <1>0, <2>2, Ended DEF paymentLocal, PaymentsTypeOK
  <2> QED
    BY <1>0, <2>1, <2>3 DEF PaymentsTypeOK
<1>3. ASSUME NEW w \in Workers, ReadProfile(w)
      PROVE  PaymentsTypeOK'
  <2>1. order[w].user \in Users
    BY <1>0, <1>3, RowFacts DEF ReadProfile, OrderFits, Places, Handling
  <2>2. held' \in [Workers -> 0..MaxProfile]
    BY <1>0, <1>3, <2>1 DEF ReadProfile, PaymentsTypeOK
  <2> QED
    BY <1>0, <1>3, <2>2 DEF ReadProfile, PaymentsTypeOK
<1>4. ASSUME NEW w \in Workers, CancelExpired(w) \/ SavePayment(w) \/ SaveStatus(w)
      PROVE  PaymentsTypeOK'
  BY <1>0, <1>4, CancelExpiredFits, SavePaymentFits, SaveStatusFits
<1>5. ASSUME NEW w \in Workers, ChargeProfile(w) \/ ProcessJoin(w) \/ RejectPayment(w) \/ Crash(w)
      PROVE  PaymentsTypeOK'
  BY <1>0, <1>5, ChargeProfileFits, ProcessJoinFits, RejectPaymentFits, CrashFits
<1>6. ASSUME NEW w \in Workers, NEW i \in Ids, NEW status \in Statuses, ReceiveWebhook(w, i, status)
      PROVE  PaymentsTypeOK'
  BY <1>0, <1>6, ReceiveWebhookFits
<1>7. ASSUME NEW i \in Ids, NEW status \in Statuses, Expire(i) \/ ProviderSends(i, status)
      PROVE  PaymentsTypeOK'
  <2>1. CASE Expire(i)
    BY <1>0, <2>1, ExpireFits
  <2>2. CASE ProviderSends(i, status)
    <3>1. sent' \in [1..MaxPayments -> SUBSET Statuses]
      BY <1>0, <2>2 DEF ProviderSends, PaymentsTypeOK
    <3> QED
      BY <1>0, <2>2, <3>1 DEF ProviderSends, paymentLocal, PaymentsTypeOK
  <2> QED
    BY <1>7, <2>1, <2>2
<1>8. CASE UNCHANGED allVars
  BY <1>0, <1>8 DEF allVars, PaymentsTypeOK
<1>9. Statuses # {}
  BY DEF Statuses
<1> QED
  BY <1>1, <1>2, <1>3, <1>4, <1>5, <1>6, <1>7, <1>8, <1>9 DEF PaymentsNext, Serve

------------------------------------------------------------------------------
\* What the handlers know.

PaymentsKnown ==
  /\ \A w \in Workers : WorkerFits(w)
  /\ OneHandler
  /\ \A i \in Ids : PaymentFits(i)
  /\ \A i \in 1..MaxPayments : i \notin Ids => credited[i] = 0

\* A step of worker w.
StepOf(w) ==
  \A v \in Workers \ {w} : /\ pc'[v] = pc[v] /\ order'[v] = order[v]
                           /\ previous'[v] = previous[v] /\ caller'[v] = caller[v]

Rising == \A u \in Users : joins'[u] >= joins[u] /\ refunds'[u] >= refunds[u]

LEMMA UnchangedRises ==
  ASSUME MembershipInv, UNCHANGED <<joins, refunds>>
  PROVE  Rising
BY DEF MembershipInv, MembersFit, Rising

LEMMA StepsAreLocal ==
  ASSUME PaymentsInv, NEW w \in Workers, NEW label, NEW user,
         Goto(w, label),
         UNCHANGED order \/ \E o : order' = [order EXCEPT ![w] = o],
         UNCHANGED previous \/ \E p : previous' = [previous EXCEPT ![w] = p],
         UNCHANGED caller \/ caller' = [caller EXCEPT ![w] = user]
  PROVE  StepOf(w) /\ pc'[w] = label
<1>1. /\ pc = [v \in Workers |-> pc[v]] /\ DOMAIN order = Workers
      /\ DOMAIN previous = Workers /\ DOMAIN caller = Workers
  BY DEF PaymentsInv, PaymentsTypeOK, MembershipInv, MembersFit
<1> QED
  BY <1>1 DEF Goto, StepOf

\* A worker that handles no webhook before or after.
LEMMA Bystander ==
  ASSUME PaymentsInv, MembershipInv', NEW w \in Workers, StepOf(w), Rising,
         UNCHANGED <<payments, credited, upset>>,
         pc[w] \notin Places, pc'[w] \notin Places, OrderFits(w)'
  PROVE  PaymentsKnown'
<1>1. Ids' = Ids /\ Ids \subseteq 1..MaxPayments /\ 0 \notin Ids
  BY RowFacts DEF PaymentsInv, Ids
<1>2. WorkerFits(w)'
  BY DEF WorkerFits, ChargeUnderWay, JoinUnderWay, Places
<1>3. \A v \in Workers : pc[v] \in Places => order[v].id # 0
  BY <1>1 DEF PaymentsInv, WorkerFits, OrderFits
<1>4. joins' \in [Users -> Nat] /\ refunds' \in [Users -> Nat]
  BY DEF MembershipInv, MembersFit
<1>5. 0 \notin 1..MaxPayments
  BY Bounds
<1> QED
  BY <1>1, <1>2, <1>3, <1>4, <1>5, OthersKept DEF StepOf, Rising, PaymentsKnown

\* The handler of a payment: any other one has made it upset.
LEMMA Handler ==
  ASSUME PaymentsInv, MembershipInv', NEW w \in Workers, NEW k, StepOf(w), Rising,
         pc[w] \in Places, order[w].id = k, pc'[w] \in Places => order'[w].id = k,
         Ids' = Ids,
         \A i \in Ids : /\ payments'[i].user = payments[i].user
                        /\ payments'[i].type = payments[i].type
                        /\ i # k => payments'[i].status = payments[i].status,
         \A i \in 1..MaxPayments : i # k => credited'[i] = credited[i],
         upset \subseteq upset',
         WorkerFits(w)', PaymentFits(k)'
  PROVE  PaymentsKnown'
<1>1. k \in Ids /\ Ids \subseteq 1..MaxPayments
  BY RowFacts DEF PaymentsInv, WorkerFits, OrderFits
<1>2. \A v \in Workers \ {w} : pc[v] \in Places /\ order[v].id = k => k \in upset'
  BY DEF PaymentsInv, OneHandler
<1>3. joins' \in [Users -> Nat] /\ refunds' \in [Users -> Nat]
  BY DEF MembershipInv, MembersFit
<1> QED
  BY <1>1, <1>2, <1>3, OthersKept DEF StepOf, Rising, PaymentsKnown

LEMMA BystandersKnow ==
  ASSUME PaymentsInv, MembershipInv', NEW w \in Workers, NEW label, NEW user,
         Goto(w, label), label \notin Places \cup {"expire", "invoice"}, pc[w] \notin Places,
         UNCHANGED order \/ \E o : order' = [order EXCEPT ![w] = o],
         UNCHANGED previous \/ \E p : previous' = [previous EXCEPT ![w] = p],
         UNCHANGED caller \/ caller' = [caller EXCEPT ![w] = user],
         UNCHANGED <<payments, credited, upset>>, Rising
  PROVE  PaymentsKnown'
<1>1. StepOf(w) /\ pc'[w] = label
  BY StepsAreLocal
<1>2. OrderFits(w)'
  BY <1>1 DEF OrderFits, Places, Handling, Joining
<1> QED
  BY <1>1, <1>2, Bystander

LEMMA CreatePaymentKnows ==
  ASSUME PaymentsInv, MembershipInv', NEW w \in Workers, NEW u \in Users, NEW type \in {"charge", "join"},
         NEW amount, CreatePayment(w, u, type, amount)
  PROVE  PaymentsKnown'
<1>0. /\ pc[w] \notin Places /\ UNCHANGED <<payments, credited, upset, caller, joins, refunds>>
      /\ Rising
  BY UnchangedRises DEF PaymentsInv, CreatePayment, membershipState, data, history, local, Places, Handling, Joining
<1>1. ASSUME NEW label \in {"done", "failed"}, End(w, label)
      PROVE  PaymentsKnown'
  <2>1. label \notin Places \cup {"expire", "invoice"}
    BY DEF Places, Handling, Joining
  <2> QED
    BY <1>0, <1>1, <2>1, BystandersKnow DEF End
<1>2. ASSUME NEW id, NEW label \in {"expire", "invoice"}, Goto(w, label), UNCHANGED previous,
             order' = [order EXCEPT ![w] =
                         [id |-> id, user |-> u, type |-> type, amount |-> amount, status |-> "none"]],
             label = "expire" => id \in Ids
      PROVE  PaymentsKnown'
  <2>1. StepOf(w) /\ pc'[w] = label
    BY <1>0, <1>2, StepsAreLocal
  <2>2. order'[w].id = id /\ order'[w].user = u /\ order'[w].type = type
    BY <1>2 DEF PaymentsInv, PaymentsTypeOK
  <2>3. Ids' = Ids
    BY <1>0 DEF Ids
  <2>4. OrderFits(w)' /\ pc'[w] \notin Places
    BY <1>2, <2>1, <2>2, <2>3 DEF OrderFits, Places, Handling, Joining
  <2> QED
    BY <1>0, <2>1, <2>4, Bystander
<1>3. CASE \E label \in {"done", "failed"} : End(w, label)
  BY <1>1, <1>3
<1>4. CASE /\ Goto(w, "invoice") /\ UNCHANGED previous
           /\ order' = [order EXCEPT ![w] =
                          [id |-> 0, user |-> u, type |-> type, amount |-> amount, status |-> "none"]]
  BY <1>2, <1>4
<1>5. CASE /\ PendingOf(u, type) # {} /\ Goto(w, "expire") /\ UNCHANGED previous
           /\ order' = [order EXCEPT ![w] =
                          [id |-> Max(PendingOf(u, type)), user |-> u, type |-> type, amount |-> amount,
                           status |-> "none"]]
  <2>1. Max(PendingOf(u, type)) \in Ids
    BY <1>5, NewestPending DEF PaymentsInv
  <2> QED
    BY <1>2, <1>5, <2>1
<1> QED
  BY <1>3, <1>4, <1>5 DEF CreatePayment

LEMMA CancelExpiredKnows ==
  ASSUME PaymentsInv, MembershipInv', NEW w \in Workers, CancelExpired(w)
  PROVE  PaymentsKnown'
<1>0. PICK k \in Ids : k = order[w].id
  BY DEF CancelExpired, PaymentsInv, WorkerFits, OrderFits
<1>1. /\ pc[w] = "expire" /\ SetStatus(k, "CANCELLED")
      /\ upset' = IF payments[k].status = "PENDING" /\ HandlersOf(k) = {} THEN upset ELSE upset \cup {k}
      /\ order' = [order EXCEPT ![w].id = 0]
      /\ Goto(w, "invoice")
      /\ UNCHANGED <<previous, credited, caller, joins, refunds>>
  BY <1>0 DEF CancelExpired, membershipState, data, history, local
<1>2. /\ Ids' = Ids
      /\ \A j \in Ids : /\ payments'[j].user = payments[j].user
                        /\ payments'[j].type = payments[j].type
                        /\ payments'[j].status = IF j = k THEN "CANCELLED" ELSE payments[j].status
  BY <1>1, SavedStatus DEF PaymentsInv, Statuses
<1>3. order' = [order EXCEPT ![w] = [order[w] EXCEPT !.id = 0]]
  BY <1>1 DEF PaymentsInv, PaymentsTypeOK
<1>4. StepOf(w) /\ pc'[w] = "invoice"
  BY <1>1, <1>3, StepsAreLocal
<1>5. WorkerFits(w)'
  <2>1. order[w].user \in Users /\ order[w].type \in {"charge", "join"} /\ order[w] \in Order
    BY <1>1, RowFacts DEF PaymentsInv, WorkerFits, OrderFits
  <2>2. order'[w].user = order[w].user /\ order'[w].type = order[w].type
    BY <1>3, <2>1 DEF Order, PaymentsInv, PaymentsTypeOK
  <2> QED
    BY <1>4, <2>1, <2>2 DEF WorkerFits, OrderFits, ChargeUnderWay, JoinUnderWay, Places, Handling, Joining
<1>6. PaymentFits(k)'
  <2>1. PaymentFits(k)
    BY DEF PaymentsInv
  <2>2. /\ payments'[k].status = "CANCELLED" /\ upset \subseteq upset'
        /\ payments'[k].user = payments[k].user /\ payments'[k].type = payments[k].type
    BY <1>1, <1>2
  <2> QED
    BY <1>1, <2>1, <2>2 DEF PaymentFits, ChargeSettled, JoinSettled
<1>7. \A v \in Workers \ {w} : pc[v] \in Places /\ order[v].id = k => k \in upset'
  BY <1>1 DEF HandlersOf, Places
<1>8. Ids \subseteq 1..MaxPayments /\ upset \subseteq upset' /\ Rising
  BY <1>1, RowFacts, UnchangedRises DEF PaymentsInv
<1>9. joins' \in [Users -> Nat] /\ refunds' \in [Users -> Nat]
  BY DEF MembershipInv, MembersFit
<1>10. pc[w] \notin Places /\ pc'[w] \notin Places
  BY <1>1, <1>4 DEF Places, Handling, Joining
<1> QED
  BY <1>1, <1>2, <1>4, <1>5, <1>6, <1>7, <1>8, <1>9, <1>10, OthersKept DEF StepOf, Rising, PaymentsKnown

LEMMA SavePaymentKnows ==
  ASSUME PaymentsInv, PaymentsTypeOK', MembershipInv', NEW w \in Workers, SavePayment(w)
  PROVE  PaymentsKnown'
<1>0. PICK k : k = Len(payments) + 1
  OBVIOUS
<1>1. /\ Ids' = Ids \cup {k} /\ k \in 1..MaxPayments
      /\ \A i \in Ids : payments'[i] = payments[i]
      /\ payments'[k].status = "PENDING" /\ payments'[k].user \in Users
  BY <1>0, SavePaymentFits DEF PaymentsInv, WorkerFits
<1>2. k \notin Ids /\ Ids \subseteq 1..MaxPayments /\ credited[k] = 0
  <2>1. Len(payments) \in Nat /\ Ids = 1..Len(payments) /\ Ids \subseteq 1..MaxPayments
    BY RowFacts DEF PaymentsInv
  <2>2. k \notin Ids
    BY <1>0, <2>1
  <2> QED
    BY <1>1, <2>1, <2>2 DEF PaymentsInv
<1>3. /\ UNCHANGED <<credited, upset, caller, joins, refunds>> /\ Rising
      /\ pc[w] = "invoice" /\ End(w, "done")
  BY UnchangedRises DEF PaymentsInv, SavePayment, membershipState, data, history, local
<1>4. StepOf(w) /\ pc'[w] = "done"
  BY <1>3, StepsAreLocal DEF End
<1>5. WorkerFits(w)' /\ pc[w] \notin Places /\ pc'[w] \notin Places
  BY <1>3, <1>4 DEF WorkerFits, OrderFits, ChargeUnderWay, JoinUnderWay, Places, Handling, Joining
<1>6. joins' \in [Users -> Nat] /\ refunds' \in [Users -> Nat]
  BY DEF MembershipInv, MembersFit
<1>7. PaymentFits(k)'
  <2>1. credited'[k] = 0 /\ joins'[payments'[k].user] \in Nat /\ refunds'[payments'[k].user] \in Nat
    BY <1>1, <1>2, <1>3, <1>6
  <2> QED
    BY <1>1, <2>1 DEF PaymentFits, ChargeSettled, JoinSettled
<1>8. \A v \in Workers : pc[v] \in Places => order[v].id # k
  BY <1>2 DEF PaymentsInv, WorkerFits, OrderFits
<1>9. \A i \in 1..MaxPayments : credited'[i] = credited[i]
  BY <1>3
<1>10. Ids \subseteq Ids' /\ Ids' \subseteq Ids \cup {k} /\ Ids' \subseteq 1..MaxPayments /\ k \in Ids'
  BY <1>1, <1>2
<1> QED
  BY <1>1, <1>3, <1>4, <1>5, <1>6, <1>7, <1>8, <1>9, <1>10, OthersKept DEF StepOf, Rising, PaymentsKnown

LEMMA ReceiveWebhookKnows ==
  ASSUME PaymentsInv, MembershipInv', NEW w \in Workers, NEW i \in Ids, NEW status \in Statuses,
         ReceiveWebhook(w, i, status)
  PROVE  PaymentsKnown'
<1>0. /\ UNCHANGED <<payments, credited, caller, joins, refunds>> /\ Rising
      /\ pc[w] = "idle" /\ pc[w] \notin Places
      /\ upset \subseteq upset'
      /\ i \notin upset' => i \notin upset /\ HandlersOf(i) = {}
  BY UnchangedRises
     DEF PaymentsInv, ReceiveWebhook, membershipState, data, history, local, Places, Handling, Joining
<1>1. Ids' = Ids /\ Ids \subseteq 1..MaxPayments
  BY <1>0, RowFacts DEF PaymentsInv, Ids
<1>2. PaymentFits(i) /\ PaymentFits(i)'
  <2>1. PaymentFits(i)
    BY DEF PaymentsInv
  <2> QED
    BY <1>0, <2>1 DEF PaymentFits, ChargeSettled, JoinSettled
<1>3. \A v \in Workers \ {w} : pc[v] \in Places /\ order[v].id = i => i \in upset'
  BY <1>0 DEF HandlersOf, Places
<1>4. joins' \in [Users -> Nat] /\ refunds' \in [Users -> Nat]
  BY DEF MembershipInv, MembersFit
<1>5. ASSUME StepOf(w), WorkerFits(w)', pc'[w] \in Places => order'[w].id = i
      PROVE  PaymentsKnown'
  BY <1>0, <1>1, <1>2, <1>3, <1>4, <1>5, OthersKept DEF StepOf, Rising, PaymentsKnown
<1>6. CASE End(w, "done")
  <2>1. StepOf(w) /\ pc'[w] = "done"
    BY <1>0, <1>6, StepsAreLocal DEF End
  <2>2. WorkerFits(w)' /\ pc'[w] \notin Places
    BY <2>1 DEF WorkerFits, OrderFits, ChargeUnderWay, JoinUnderWay, Places, Handling, Joining
  <2> QED
    BY <1>5, <2>1, <2>2
<1>7. CASE ~End(w, "done")
  <2>1. /\ payments[i].status \notin Closed
        /\ order' = [order EXCEPT ![w] =
             [id |-> i, user |-> payments[i].user, type |-> payments[i].type,
              amount |-> payments[i].amount, status |-> status]]
        /\ previous' = [previous EXCEPT ![w] = payments[i].status]
        /\ Goto(w, "status")
    BY <1>7 DEF ReceiveWebhook
  <2>2. StepOf(w) /\ pc'[w] = "status"
    BY <1>0, <2>1, StepsAreLocal
  <2>3. /\ order'[w].id = i /\ order'[w].user = payments[i].user /\ order'[w].type = payments[i].type
        /\ order'[w].status = status /\ previous'[w] = payments[i].status
    BY <2>1 DEF PaymentsInv, PaymentsTypeOK
  <2>4. payments[i].status \in {"PENDING", "COMPLETED"}
    BY <2>1, RowFacts DEF PaymentsInv, Closed, Statuses
  <2>5. OrderFits(w)'
    BY <1>0, <1>1, <2>2, <2>3, <2>4 DEF OrderFits, Joining
  <2>6. ChargeUnderWay(w)'
    BY <1>0, <1>2, <2>2, <2>3, <2>4 DEF ChargeUnderWay, PaymentFits, ChargeSettled
  <2>7. JoinUnderWay(w)'
    BY <2>2 DEF JoinUnderWay, Joining
  <2> QED
    BY <1>5, <2>2, <2>3, <2>5, <2>6, <2>7 DEF WorkerFits
<1> QED
  BY <1>6, <1>7

LEMMA SaveStatusKnows ==
  ASSUME PaymentsInv, MembershipInv', NEW w \in Workers, SaveStatus(w)
  PROVE  PaymentsKnown'
<1>0. PICK k \in Ids : k = order[w].id
  BY DEF SaveStatus, PaymentsInv, WorkerFits, OrderFits, Places, Handling
<1>1. /\ pc[w] = "status" /\ pc[w] \in Places /\ SetStatus(k, order[w].status)
      /\ upset' = IF payments[k].status = "COMPLETED" /\ order[w].status # "COMPLETED"
                  THEN upset \cup {k} ELSE upset
      /\ UNCHANGED <<credited, caller, joins, refunds>> /\ Rising
  BY <1>0, UnchangedRises
     DEF PaymentsInv, SaveStatus, membershipState, data, history, local, Places, Handling
<1>2. /\ order[w].status \in Statuses /\ previous[w] \in {"PENDING", "COMPLETED"}
      /\ order[w].user = payments[k].user /\ order[w].type = payments[k].type
      /\ ChargeUnderWay(w) /\ PaymentFits(k)
  BY <1>0, <1>1 DEF PaymentsInv, WorkerFits, OrderFits
<1>3. /\ Ids' = Ids
      /\ \A j \in Ids : /\ payments'[j].user = payments[j].user
                        /\ payments'[j].type = payments[j].type
                        /\ payments'[j].status = IF j = k THEN order[w].status ELSE payments[j].status
  BY <1>1, <1>2, SavedStatus DEF PaymentsInv
<1>4. \A i \in 1..MaxPayments : credited'[i] = credited[i]
  BY <1>1
<1>5. upset \subseteq upset' /\ (k \notin upset' => k \notin upset)
  BY <1>1
<1>6. JoinSettled(k)'
  BY <1>1, <1>2, <1>3, <1>5 DEF PaymentFits, JoinSettled
<1>7. CASE order[w].status = "COMPLETED" /\ Goto(w, "check") /\ UNCHANGED paymentLocal
  <2>1. UNCHANGED <<order, previous>>
    BY <1>7 DEF paymentLocal
  <2>2. StepOf(w) /\ pc'[w] = "check"
    BY <1>1, <1>7, <2>1, StepsAreLocal
  <2>3. OrderFits(w)'
    BY <1>0, <1>2, <1>3, <2>1, <2>2 DEF OrderFits, Joining
  <2>4. ChargeUnderWay(w)'
    BY <1>0, <1>1, <1>2, <1>3, <1>5, <1>7, <2>1, <2>2 DEF ChargeUnderWay
  <2>5. JoinUnderWay(w)'
    BY <2>2 DEF JoinUnderWay, Joining
  <2>6. w \in HandlersOf(k)'
    BY <1>0, <2>1, <2>2 DEF HandlersOf, Handling
  <2>7. PaymentFits(k)'
    BY <1>6, <2>6 DEF PaymentFits, ChargeSettled
  <2> QED
    BY <1>0, <1>1, <1>3, <1>4, <1>5, <2>1, <2>2, <2>3, <2>4, <2>5, <2>7, Handler DEF WorkerFits
<1>8. CASE order[w].status # "COMPLETED" /\ End(w, "done")
  <2>1. StepOf(w) /\ pc'[w] = "done"
    BY <1>1, <1>8, StepsAreLocal DEF End
  <2>2. WorkerFits(w)' /\ pc'[w] \notin Places
    BY <2>1 DEF WorkerFits, OrderFits, ChargeUnderWay, JoinUnderWay, Places, Handling, Joining
  <2>3. ChargeSettled(k)'
    <3> SUFFICES ASSUME k \notin upset', payments'[k].type = "charge"
                 PROVE  payments'[k].status # "COMPLETED" /\ credited'[k] = 0
      BY DEF ChargeSettled
    <3>1. payments[k].status # "COMPLETED" /\ k \notin upset /\ order[w].type = "charge"
      BY <1>1, <1>2, <1>3, <1>8
    <3>2. credited[k] = 0
      BY <1>0, <1>1, <1>2, <3>1 DEF ChargeUnderWay
    <3> QED
      BY <1>0, <1>1, <1>3, <1>8, <3>2
  <2> QED
    BY <1>0, <1>1, <1>3, <1>4, <1>5, <1>6, <2>1, <2>2, <2>3, Handler DEF PaymentFits
<1> QED
  BY <1>7, <1>8 DEF SaveStatus

\* Only a user without an active participant is joined again: each earlier join is refunded.
LEMMA CheckProcessedKnows ==
  ASSUME PaymentsInv, MembershipInv', NEW w \in Workers, CheckProcessed(w)
  PROVE  PaymentsKnown'
<1>0. PICK k \in Ids : k = order[w].id
  BY DEF CheckProcessed, PaymentsInv, WorkerFits, OrderFits, Places, Handling
<1>1. /\ pc[w] = "check" /\ pc[w] \in Places
      /\ UNCHANGED <<payments, credited, upset, joins, refunds>> /\ Rising
  BY UnchangedRises
     DEF PaymentsInv, CheckProcessed, membershipState, data, history, local, Places, Handling
<1>2. /\ order[w].user = payments[k].user /\ order[w].type = payments[k].type
      /\ ChargeUnderWay(w) /\ PaymentFits(k) /\ Ids' = Ids
  BY <1>0, <1>1 DEF PaymentsInv, WorkerFits, OrderFits, Ids
<1>3. JoinSettled(k)'
  BY <1>1, <1>2 DEF PaymentFits, JoinSettled
<1>4. ASSUME StepOf(w), WorkerFits(w)', ChargeSettled(k)', pc'[w] \in Places => order'[w].id = k
      PROVE  PaymentsKnown'
  BY <1>0, <1>1, <1>2, <1>3, <1>4, Handler DEF PaymentFits
<1>5. CASE End(w, "done") /\ UNCHANGED membershipState
           /\ (order[w].type = "join" \/ (order[w].type = "charge" /\ previous[w] = "COMPLETED"))
  <2>1. StepOf(w) /\ pc'[w] = "done"
    BY <1>1, <1>5, StepsAreLocal DEF End, membershipState, local
  <2>2. WorkerFits(w)' /\ pc'[w] \notin Places
    BY <2>1 DEF WorkerFits, OrderFits, ChargeUnderWay, JoinUnderWay, Places, Handling, Joining
  <2>3. ChargeSettled(k)'
    BY <1>0, <1>1, <1>2, <1>5 DEF ChargeSettled, ChargeUnderWay
  <2> QED
    BY <1>4, <2>1, <2>2, <2>3
<1>6. CASE /\ order[w].type = "join" /\ RowsOf(order[w].user) \cap ActiveRows = {}
           /\ caller' = [caller EXCEPT ![w] = order[w].user] /\ Goto(w, "join") /\ UNCHANGED paymentLocal
  <2>1. UNCHANGED <<order, previous>>
    BY <1>6 DEF paymentLocal
  <2>2. StepOf(w) /\ pc'[w] = "join"
    BY <1>6, <2>1, StepsAreLocal
  <2>3. caller'[w] = order[w].user
    BY <1>6 DEF PaymentsInv, MembershipInv, MembersFit
  <2>4. OrderFits(w)'
    BY <1>0, <1>1, <1>2, <1>6, <2>1, <2>2, <2>3 DEF OrderFits
  <2>5. ChargeUnderWay(w)'
    BY <1>6, <2>1 DEF ChargeUnderWay
  <2>6. order[w].user \in Users
    BY <1>2, RowFacts DEF PaymentsInv
  <2>7. joins[order[w].user] = refunds[order[w].user]
    <3>1. joins[order[w].user] = refunds[order[w].user] + Cardinality(RowsOf(order[w].user) \cap ActiveRows)
      BY <2>6 DEF PaymentsInv, MembershipInv, EachJoinIsActiveOrRefunded
    <3>2. refunds[order[w].user] \in Nat /\ Cardinality({}) = 0
      BY <2>6, FS_EmptySet DEF PaymentsInv, MembershipInv, MembersFit
    <3>3. Cardinality(RowsOf(order[w].user) \cap ActiveRows) = 0
      BY <1>6, <3>2
    <3> QED
      BY <3>1, <3>2, <3>3
  <2>8. credited[k] <= refunds[order[w].user]
    BY <1>2, <1>6, <2>7 DEF PaymentFits, JoinSettled
  <2>9. JoinUnderWay(w)'
    BY <1>0, <1>1, <2>1, <2>8 DEF JoinUnderWay
  <2>10. ChargeSettled(k)'
    BY <1>1, <1>2, <1>6 DEF ChargeSettled
  <2> QED
    BY <1>0, <1>4, <2>1, <2>2, <2>4, <2>5, <2>9, <2>10 DEF WorkerFits
<1>7. CASE /\ order[w].type = "charge" /\ previous[w] # "COMPLETED"
           /\ Goto(w, "profile") /\ UNCHANGED membershipState /\ UNCHANGED paymentLocal
  <2>1. UNCHANGED <<order, previous, caller>>
    BY <1>7 DEF paymentLocal, membershipState, local
  <2>2. StepOf(w) /\ pc'[w] = "profile"
    BY <1>7, <2>1, StepsAreLocal
  <2>3. OrderFits(w)'
    BY <1>0, <1>1, <1>2, <1>7, <2>1, <2>2 DEF OrderFits, Joining
  <2>4. ChargeUnderWay(w)'
    BY <1>0, <1>1, <1>2, <1>7, <2>1, <2>2 DEF ChargeUnderWay
  <2>5. JoinUnderWay(w)'
    BY <2>2 DEF JoinUnderWay, Joining
  <2>6. w \in HandlersOf(k)'
    BY <1>0, <2>1, <2>2 DEF HandlersOf, Handling
  <2>7. ChargeSettled(k)'
    BY <2>6 DEF ChargeSettled
  <2> QED
    BY <1>0, <1>4, <2>1, <2>2, <2>3, <2>4, <2>5, <2>7 DEF WorkerFits
<1>8. \/ /\ End(w, "done") /\ UNCHANGED membershipState
         /\ order[w].type = "join" \/ (order[w].type = "charge" /\ previous[w] = "COMPLETED")
      \/ /\ order[w].type = "join" /\ RowsOf(order[w].user) \cap ActiveRows = {}
         /\ caller' = [caller EXCEPT ![w] = order[w].user] /\ Goto(w, "join") /\ UNCHANGED paymentLocal
      \/ /\ order[w].type = "charge" /\ previous[w] # "COMPLETED"
         /\ Goto(w, "profile") /\ UNCHANGED membershipState /\ UNCHANGED paymentLocal
  BY Zenon DEF CheckProcessed
<1> QED
  BY <1>5, <1>6, <1>7, <1>8

\* A handler gives up or is done with its payment: nothing is known of it any more.
LEMMA Leaves ==
  ASSUME NEW w \in Workers, pc'[w] \notin Places \cup {"expire", "invoice"}
  PROVE  WorkerFits(w)'
BY DEF WorkerFits, OrderFits, ChargeUnderWay, JoinUnderWay, Places, Handling, Joining

\* While somebody handles the payment, nothing is said of its charge.
LEMMA StillHandled ==
  ASSUME NEW w \in Workers, NEW k, pc'[w] \in Places, order'[w].id = k
  PROVE  ChargeSettled(k)'
<1>1. w \in HandlersOf(k)'
  BY DEF HandlersOf, Places
<1> QED
  BY <1>1 DEF ChargeSettled

LEMMA ReadProfileKnows ==
  ASSUME PaymentsInv, MembershipInv', NEW w \in Workers, ReadProfile(w)
  PROVE  PaymentsKnown'
<1>0. PICK k \in Ids : k = order[w].id
  BY DEF ReadProfile, PaymentsInv, WorkerFits, OrderFits, Places, Handling
<1>1. /\ pc[w] = "profile" /\ pc[w] \in Places /\ Goto(w, "charge")
      /\ UNCHANGED <<payments, credited, upset, joins, refunds, order, previous, caller>> /\ Rising
  BY UnchangedRises
     DEF PaymentsInv, ReadProfile, membershipState, data, history, local, Places, Handling
<1>2. StepOf(w) /\ pc'[w] = "charge"
  BY <1>1, StepsAreLocal
<1>3. Ids' = Ids /\ WorkerFits(w) /\ PaymentFits(k)
  BY <1>1 DEF PaymentsInv, Ids
<1>4. pc'[w] \in Places /\ pc'[w] \notin Joining
  BY <1>2 DEF Places, Handling, Joining
<1>5. WorkerFits(w)'
  BY <1>0, <1>1, <1>2, <1>3, <1>4 DEF WorkerFits, OrderFits, ChargeUnderWay, JoinUnderWay
<1>6. PaymentFits(k)'
  BY <1>0, <1>1, <1>3, <1>4, StillHandled DEF PaymentFits, JoinSettled
<1> QED
  BY <1>0, <1>1, <1>2, <1>3, <1>5, <1>6, Handler

LEMMA ChargeProfileKnows ==
  ASSUME PaymentsInv, MembershipInv', NEW w \in Workers, ChargeProfile(w)
  PROVE  PaymentsKnown'
<1>0. PICK k \in Ids : k = order[w].id
  BY DEF ChargeProfile, PaymentsInv, WorkerFits, OrderFits, Places, Handling
<1>1. /\ pc[w] = "charge" /\ pc[w] \in Places
      /\ UNCHANGED <<payments, upset, joins, refunds, caller>> /\ Rising
  BY UnchangedRises
     DEF PaymentsInv, ChargeProfile, membershipState, data, history, local, Places, Handling
<1>2. /\ Ids' = Ids /\ WorkerFits(w) /\ PaymentFits(k)
      /\ order[w].user = payments[k].user /\ order[w].type = payments[k].type
      /\ order[w].type = "charge"
  BY <1>0, <1>1 DEF PaymentsInv, WorkerFits, OrderFits, Ids
<1>3. JoinSettled(k)'
  BY <1>1, <1>2 DEF JoinSettled
<1>4. CASE End(w, "done") /\ credited' = [credited EXCEPT ![k] = @ + 1]
  <2>1. StepOf(w) /\ pc'[w] = "done"
    BY <1>1, <1>4, StepsAreLocal DEF End
  <2>2. pc'[w] \notin Places \cup {"expire", "invoice"}
    BY <2>1 DEF Places, Handling, Joining
  <2>3. credited'[k] = credited[k] + 1 /\ \A i \in 1..MaxPayments : i # k => credited'[i] = credited[i]
    BY <1>4, CountedOnce DEF PaymentsInv, PaymentsTypeOK
  <2>4. k \notin upset => payments[k].status = "COMPLETED" /\ credited'[k] = 1
    BY <1>0, <1>1, <1>2, <2>3 DEF WorkerFits, ChargeUnderWay
  <2>5. ChargeSettled(k)'
    BY <1>1, <2>4 DEF ChargeSettled
  <2> QED
    BY <1>0, <1>1, <1>2, <1>3, <2>1, <2>2, <2>3, <2>5, Leaves, Handler DEF PaymentFits
<1>5. CASE Goto(w, "reject") /\ UNCHANGED credited /\ UNCHANGED paymentLocal
  <2>1. UNCHANGED <<order, previous>>
    BY <1>5 DEF paymentLocal
  <2>2. StepOf(w) /\ pc'[w] = "reject"
    BY <1>1, <1>5, <2>1, StepsAreLocal
  <2>3. pc'[w] \in Places /\ pc'[w] \notin Joining
    BY <2>2 DEF Places, Handling, Joining
  <2>4. WorkerFits(w)'
    BY <1>0, <1>1, <1>2, <1>5, <2>1, <2>2, <2>3 DEF WorkerFits, OrderFits, ChargeUnderWay, JoinUnderWay
  <2>5. PaymentFits(k)'
    BY <1>0, <1>3, <2>1, <2>3, StillHandled DEF PaymentFits
  <2> QED
    BY <1>0, <1>1, <1>2, <1>5, <2>1, <2>2, <2>4, <2>5, Handler
<1> QED
  BY <1>0, <1>4, <1>5 DEF ChargeProfile

\* An open join ends, whichever way: it makes one join at most, at its commit.
LEMMA JoinSteps ==
  ASSUME MembershipInv, NEW w \in Workers, Join(w)
  PROVE  /\ UNCHANGED refunds
         /\ pc[w] \in {"join", "enrol", "book", "assign", "attach"}
         /\ pc[w] = "join" => \E label \in {"enrol", "joinFailed"} : Goto(w, label)
         /\ pc[w] = "enrol" => \E label \in {"book", "joinFailed"} : Goto(w, label)
         /\ pc[w] = "book" => /\ Goto(w, "assign")
                              /\ joins' = [joins EXCEPT ![caller[w]] = @ + 1]
         /\ pc[w] \in {"assign", "attach"} => \E label \in {"attach", "done"} : Goto(w, label)
         /\ pc[w] # "book" => UNCHANGED joins
         /\ \/ UNCHANGED caller
            \/ /\ caller' = [caller EXCEPT ![w] = NoUser]
               /\ \E label \in {"joinFailed", "done"} : Goto(w, label)
<1>1. CASE ReadMarathon(w)
  BY <1>1 DEF ReadMarathon, RollBack, Return, data, history
<1>2. CASE FindParticipant(w)
  BY <1>2 DEF FindParticipant, RollBack, Return, data, history
<1>3. CASE CommitJoin(w)
  BY <1>3 DEF CommitJoin, local
<1>4. CASE FindAvailable(w)
  BY <1>4 DEF FindAvailable, Return, data, history
<1>5. CASE AssignAccount(w)
  BY <1>5 DEF AssignAccount, Return, history
<1> QED
  BY <1>1, <1>2, <1>3, <1>4, <1>5 DEF Join

LEMMA ProcessJoinKnows ==
  ASSUME PaymentsInv, MembershipInv', NEW w \in Workers, ProcessJoin(w)
  PROVE  PaymentsKnown'
<1>1. /\ UNCHANGED <<payments, upset, order, previous, refunds>>
      /\ pc[w] \in {"join", "enrol", "book", "assign", "attach"}
      /\ Ids' = Ids /\ WorkerFits(w)
  BY JoinSteps DEF PaymentsInv, ProcessJoin, paymentLocal, Ids
<1>2. CASE pc[w] \in {"assign", "attach"}
  <2>1. PICK label \in {"attach", "done"} : Goto(w, label)
    BY <1>2, JoinSteps DEF PaymentsInv, ProcessJoin
  <2>2. UNCHANGED caller \/ caller' = [caller EXCEPT ![w] = NoUser]
    BY JoinSteps DEF PaymentsInv, ProcessJoin
  <2>3. UNCHANGED <<joins, credited>> /\ Rising
    BY <1>1, <1>2, JoinSteps, UnchangedRises DEF PaymentsInv, ProcessJoin
  <2>4. label \notin Places \cup {"expire", "invoice"} /\ pc[w] \notin Places
    BY <1>2, <2>1 DEF Places, Handling, Joining
  <2> QED
    BY <1>1, <2>1, <2>2, <2>3, <2>4, BystandersKnow
<1>3. ASSUME pc[w] \in Joining
      PROVE  /\ pc[w] \in Places /\ order[w].id \in Ids /\ order[w].type = "join"
             /\ order[w].user = payments[order[w].id].user /\ caller[w] = order[w].user
             /\ payments[order[w].id].type = "join" /\ order[w].user \in Users
  <2>1. pc[w] \in Places
    BY <1>3 DEF Places
  <2> QED
    BY <1>1, <1>3, <2>1, RowFacts DEF PaymentsInv, WorkerFits, OrderFits
<1>4. CASE pc[w] \in {"join", "enrol"}
  <2>0. PICK k \in Ids : k = order[w].id
    BY <1>3, <1>4 DEF Joining
  <2>1. PICK label \in {"enrol", "book", "joinFailed"} : Goto(w, label)
    BY <1>4, JoinSteps DEF PaymentsInv, ProcessJoin
  <2>2. UNCHANGED caller \/ caller' = [caller EXCEPT ![w] = NoUser]
    BY JoinSteps DEF PaymentsInv, ProcessJoin
  <2>3. StepOf(w) /\ pc'[w] = label
    BY <1>1, <2>1, <2>2, StepsAreLocal
  <2>4. label # "joinFailed" => UNCHANGED caller
    <3>1. UNCHANGED caller \/ \E l \in {"joinFailed", "done"} : Goto(w, l)
      BY JoinSteps DEF PaymentsInv, ProcessJoin
    <3>2. \A l : Goto(w, l) => l = label
      BY <2>3 DEF PaymentsInv, MembershipInv, MembersFit, Goto
    <3> QED
      BY <2>1, <3>1, <3>2
  <2>5. UNCHANGED <<joins, credited>> /\ Rising
    BY <1>1, <1>4, JoinSteps, UnchangedRises DEF PaymentsInv, ProcessJoin
  <2>6. pc'[w] \in Places
    BY <2>3 DEF Places, Joining
  <2>7. pc[w] \in Joining
    BY <1>4 DEF Joining
  <2>8. OrderFits(w)'
    BY <1>1, <1>3, <2>3, <2>4, <2>7 DEF OrderFits, Joining
  <2>9. ChargeUnderWay(w)'
    BY <1>1, <1>3, <2>7 DEF ChargeUnderWay
  <2>10. JoinUnderWay(w)'
    BY <1>1, <2>5, <2>7 DEF WorkerFits, JoinUnderWay
  <2>11. PaymentFits(k)'
    BY <1>1, <2>0, <2>5, <2>6, StillHandled DEF PaymentsInv, PaymentFits, JoinSettled
  <2> QED
    BY <1>1, <1>3, <2>0, <2>3, <2>5, <2>7, <2>8, <2>9, <2>10, <2>11, Handler DEF WorkerFits
<1>5. CASE pc[w] = "book"
  <2>0. PICK k \in Ids : k = order[w].id
    BY <1>3, <1>5 DEF Joining
  <2>1. pc[w] \in Joining
    BY <1>5 DEF Joining
  <2>2. /\ Goto(w, "assign") /\ joins' = [joins EXCEPT ![order[w].user] = @ + 1]
        /\ credited' = [credited EXCEPT ![k] = @ + 1]
    BY <1>3, <1>5, <2>0, <2>1, JoinSteps DEF PaymentsInv, ProcessJoin
  <2>3. UNCHANGED caller \/ caller' = [caller EXCEPT ![w] = NoUser]
    BY JoinSteps DEF PaymentsInv, ProcessJoin
  <2>4. StepOf(w) /\ pc'[w] = "assign"
    BY <1>1, <2>2, <2>3, StepsAreLocal
  <2>5. pc'[w] \notin Places \cup {"expire", "invoice"}
    BY <2>4 DEF Places, Handling, Joining
  <2>6. credited'[k] = credited[k] + 1 /\ \A i \in 1..MaxPayments : i # k => credited'[i] = credited[i]
    BY <2>2, CountedOnce DEF PaymentsInv, PaymentsTypeOK
  <2>7. joins \in [Users -> Nat] /\ refunds \in [Users -> Nat] /\ order[w].user \in Users
    BY <1>3, <2>1 DEF PaymentsInv, MembershipInv, MembersFit
  <2>8. \A u \in Users : joins'[u] = IF u = order[w].user THEN joins[u] + 1 ELSE joins[u]
    BY <2>2, <2>7
  <2>9. Rising
    BY <1>1, <2>7, <2>8 DEF Rising
  <2>10. PaymentFits(k)'
    <3>1. payments[k].type = "join" /\ payments[k].user = order[w].user
      BY <1>3, <2>0, <2>1
    <3>2. credited[k] \in Nat /\ credited[k] <= joins[order[w].user]
      BY <3>1, RowFacts DEF PaymentsInv, PaymentFits, JoinSettled
    <3>3. k \notin upset => credited[k] <= refunds[order[w].user]
      BY <1>1, <2>0, <2>1 DEF WorkerFits, JoinUnderWay
    <3>4. refunds[order[w].user] \in Nat /\ joins[order[w].user] \in Nat
      BY <2>7
    <3>5. credited'[k] <= joins'[order[w].user]
      BY <2>6, <2>7, <2>8, <3>2, <3>4
    <3>6. k \notin upset => credited'[k] <= 1 + refunds[order[w].user]
      BY <2>6, <3>2, <3>3, <3>4
    <3> QED
      BY <1>1, <3>1, <3>5, <3>6 DEF PaymentFits, ChargeSettled, JoinSettled
  <2> QED
    BY <1>1, <1>3, <2>0, <2>1, <2>4, <2>5, <2>6, <2>9, <2>10, Leaves, Handler
<1> QED
  BY <1>1, <1>2, <1>4, <1>5

\* The payment is FAILED, and was not credited unless it is upset.
LEMMA RejectPaymentKnows ==
  ASSUME PaymentsInv, MembershipInv', NEW w \in Workers, RejectPayment(w)
  PROVE  PaymentsKnown'
<1>0. PICK k \in Ids : k = order[w].id
  BY DEF RejectPayment, PaymentsInv, WorkerFits, OrderFits, Places, Handling
<1>1. /\ pc[w] \in {"reject", "joinFailed"} /\ pc[w] \in Places /\ SetStatus(k, "FAILED")
      /\ UNCHANGED <<credited, upset, caller, joins, refunds>> /\ Rising /\ End(w, "failed")
  BY <1>0, UnchangedRises
     DEF PaymentsInv, RejectPayment, membershipState, data, history, local, Places, Handling
<1>2. /\ order[w].user = payments[k].user /\ order[w].type = payments[k].type
      /\ WorkerFits(w) /\ PaymentFits(k)
  BY <1>0, <1>1 DEF PaymentsInv, WorkerFits, OrderFits
<1>3. /\ Ids' = Ids
      /\ \A j \in Ids : /\ payments'[j].user = payments[j].user
                        /\ payments'[j].type = payments[j].type
                        /\ payments'[j].status = IF j = k THEN "FAILED" ELSE payments[j].status
  BY <1>1, SavedStatus DEF PaymentsInv, Statuses
<1>4. StepOf(w) /\ pc'[w] = "failed"
  BY <1>1, StepsAreLocal DEF End
<1>5. pc'[w] \notin Places \cup {"expire", "invoice"}
  BY <1>4 DEF Places, Handling, Joining
<1>6. JoinSettled(k)'
  BY <1>1, <1>2, <1>3 DEF PaymentFits, JoinSettled
<1>7. ChargeSettled(k)'
  <2> SUFFICES ASSUME k \notin upset, payments[k].type = "charge"
               PROVE  credited[k] = 0
    BY <1>1, <1>3 DEF ChargeSettled
  <2>1. pc[w] = "reject" /\ order[w].type = "charge"
    BY <1>1, <1>2 DEF WorkerFits, OrderFits
  <2> QED
    BY <1>0, <1>1, <1>2, <2>1 DEF WorkerFits, ChargeUnderWay
<1> QED
  BY <1>0, <1>1, <1>3, <1>4, <1>5, <1>6, <1>7, Leaves, Handler DEF PaymentFits

LEMMA ProcessingFailsKnows ==
  ASSUME PaymentsInv, MembershipInv', NEW w \in Workers, ProcessingFails(w)
  PROVE  PaymentsKnown'
<1>1. /\ UNCHANGED <<payments, credited, upset, order, previous, joins, refunds>> /\ Rising
      /\ Ids' = Ids /\ WorkerFits(w)
  BY UnchangedRises DEF PaymentsInv, ProcessingFails, paymentVars, paymentLocal, membershipState,
     QueryFails, RollBack, data, history, Ids
<1>2. ASSUME NEW label \in {"reject", "joinFailed"}, Goto(w, label), pc[w] \in Places,
             label = "reject" => pc[w] \in {"profile", "charge"},
             label = "joinFailed" => pc[w] \in Joining,
             UNCHANGED caller \/ caller' = [caller EXCEPT ![w] = NoUser]
      PROVE  PaymentsKnown'
  <2>0. PICK k \in Ids : k = order[w].id
    BY <1>1, <1>2 DEF WorkerFits, OrderFits
  <2>1. StepOf(w) /\ pc'[w] = label
    BY <1>1, <1>2, StepsAreLocal
  <2>2. pc'[w] \in Places /\ pc'[w] \notin Joining
    BY <2>1 DEF Places, Handling, Joining
  <2>3. label = "joinFailed" => order[w].type = "join"
    BY <1>1, <1>2 DEF WorkerFits, OrderFits
  <2>4. OrderFits(w)'
    BY <1>1, <1>2, <2>1, <2>2, <2>3 DEF WorkerFits, OrderFits
  <2>5. ChargeUnderWay(w)'
    <3>1. CASE label = "joinFailed"
      BY <1>1, <2>3, <3>1 DEF ChargeUnderWay
    <3>2. CASE label = "reject"
      BY <1>1, <1>2, <2>1, <3>2 DEF WorkerFits, ChargeUnderWay
    <3> QED
      BY <3>1, <3>2
  <2>6. JoinUnderWay(w)'
    BY <2>2 DEF JoinUnderWay
  <2>7. PaymentFits(k)'
    BY <1>1, <2>0, <2>2, StillHandled DEF PaymentsInv, PaymentFits, JoinSettled
  <2> QED
    BY <1>1, <1>2, <2>0, <2>1, <2>4, <2>5, <2>6, <2>7, Handler DEF WorkerFits
<1>3. ASSUME NEW label \in {"done", "failed"}, Goto(w, label), pc[w] \notin Places,
             caller' = [caller EXCEPT ![w] = NoUser]
      PROVE  PaymentsKnown'
  <2>1. label \notin Places \cup {"expire", "invoice"}
    BY DEF Places, Handling, Joining
  <2> QED
    BY <1>1, <1>3, <2>1, BystandersKnow
<1>4. CASE pc[w] \in {"profile", "charge"} /\ Goto(w, "reject") /\ UNCHANGED caller
  <2>1. pc[w] \in Places
    BY <1>4 DEF Places, Handling
  <2> QED
    BY <1>2, <1>4, <2>1
<1>5. CASE pc[w] \in Joining /\ Goto(w, "joinFailed") /\ caller' = [caller EXCEPT ![w] = NoUser]
  <2>1. pc[w] \in Places
    BY <1>5 DEF Places
  <2> QED
    BY <1>2, <1>5, <2>1
<1>6. CASE /\ pc[w] \in {"assign", "attach", "refund"}
           /\ \E label \in {"done", "failed"} : Goto(w, label)
           /\ caller' = [caller EXCEPT ![w] = NoUser]
  <2>1. pc[w] \notin Places
    BY <1>6 DEF Places, Handling, Joining
  <2> QED
    BY <1>3, <1>6, <2>1
<1> QED
  BY <1>4, <1>5, <1>6
     DEF ProcessingFails, QueryFails, RollBack, Return, membershipState, local, Joining

LEMMA CrashKnows ==
  ASSUME PaymentsInv, MembershipInv', NEW w \in Workers, Crash(w)
  PROVE  PaymentsKnown'
<1>0. PICK k \in Ids : k = order[w].id
  BY DEF Crash, PaymentsInv, WorkerFits, OrderFits, Places
<1>1. /\ UNCHANGED <<payments, credited, joins, refunds>> /\ Rising
      /\ Ids' = Ids /\ upset' = upset \cup {k} /\ pc[w] \in Places
  BY <1>0, UnchangedRises DEF PaymentsInv, Crash, data, history, Ids, Places
<1>2. StepOf(w) /\ pc'[w] = "crashed"
  BY StepsAreLocal DEF Crash
<1>3. pc'[w] \notin Places \cup {"expire", "invoice"}
  BY <1>2 DEF Places, Handling, Joining
<1>4. PaymentFits(k)'
  BY <1>1 DEF PaymentsInv, PaymentFits, ChargeSettled, JoinSettled
<1> QED
  BY <1>0, <1>1, <1>2, <1>3, <1>4, Leaves, Handler

LEMMA CancelKnows ==
  ASSUME PaymentsInv, MembershipInv', NEW w \in Workers, UNCHANGED paymentVars,
         CommitCancel(w) \/ \E u \in Users : CancelParticipation(w, u)
  PROVE  PaymentsKnown'
<1>1. UNCHANGED <<payments, credited, upset, order, previous>>
  BY DEF paymentVars, paymentLocal
<1>2. CASE CommitCancel(w)
  <2>1. UNCHANGED joins /\ refunds' = [refunds EXCEPT ![caller[w]] = @ + 1]
    BY <1>2 DEF CommitCancel, history
  <2>2. joins \in [Users -> Nat] /\ refunds \in [Users -> Nat]
    BY DEF PaymentsInv, MembershipInv, MembersFit
  <2>3. Rising
    BY <2>1, <2>2 DEF Rising
  <2>4. "done" \notin Places \cup {"expire", "invoice"} /\ pc[w] \notin Places
    BY <1>2 DEF CommitCancel, Places, Handling, Joining
  <2> QED
    BY <1>1, <1>2, <2>3, <2>4, BystandersKnow DEF CommitCancel, Return
<1>3. ASSUME NEW u \in Users, CancelParticipation(w, u)
      PROVE  PaymentsKnown'
  <2>1. PICK label \in {"refund", "failed"} : Goto(w, label)
    BY <1>3 DEF CancelParticipation, RollBack, Return
  <2>2. \E user : caller' = [caller EXCEPT ![w] = user]
    BY <1>3 DEF CancelParticipation, RollBack, Return
  <2>3. UNCHANGED <<joins, refunds>> /\ Rising
    BY <1>3, UnchangedRises DEF PaymentsInv, CancelParticipation, RollBack, data, history
  <2>4. label \notin Places \cup {"expire", "invoice"} /\ pc[w] \notin Places
    BY <1>3 DEF CancelParticipation, Places, Handling, Joining
  <2> QED
    BY <1>1, <2>1, <2>2, <2>3, <2>4, BystandersKnow
<1> QED
  BY <1>2, <1>3

LEMMA InvoiceRefusedKnows ==
  ASSUME PaymentsInv, MembershipInv', NEW w \in Workers, InvoiceRefused(w)
  PROVE  PaymentsKnown'
<1>1. UNCHANGED <<payments, credited, upset, caller, joins, refunds>> /\ Rising
  BY UnchangedRises DEF PaymentsInv, InvoiceRefused, membershipState, data, history, local
<1>2. "failed" \notin Places \cup {"expire", "invoice"} /\ pc[w] \notin Places
  BY DEF InvoiceRefused, Places, Handling, Joining
<1> QED
  BY <1>1, <1>2, BystandersKnow DEF InvoiceRefused, End
------------------------------------------------------------------------------
LEMMA PaymentsStep ==
  ASSUME PaymentsInv, [PaymentsNext]_allVars
  PROVE  PaymentsInv'
<1>0. MembershipInv' /\ PaymentsTypeOK' /\ PaymentsTypeOK
  BY PaymentsKeepMembershipInv, PaymentsTypeStep DEF PaymentsInv
<1>1. ASSUME NEW w \in Workers, NEW u \in Users,
             \/ \E amount \in ChargeAmounts : CreatePayment(w, u, "charge", amount)
             \/ CreatePayment(w, u, "join", 0)
             \/ Cancel(w, u)
      PROVE  PaymentsKnown'
  BY <1>0, <1>1, CreatePaymentKnows, CancelKnows DEF Cancel
<1>2. ASSUME NEW w \in Workers, Serve(w)
      PROVE  PaymentsKnown'
  BY <1>0, <1>2, CancelExpiredKnows, SavePaymentKnows, InvoiceRefusedKnows, SaveStatusKnows,
     CheckProcessedKnows, ReadProfileKnows, ChargeProfileKnows, ProcessJoinKnows, RejectPaymentKnows,
     CancelKnows DEF Serve
<1>3. ASSUME NEW w \in Workers, ProcessingFails(w) \/ Crash(w)
      PROVE  PaymentsKnown'
  BY <1>0, <1>3, ProcessingFailsKnows, CrashKnows
<1>4. ASSUME NEW w \in Workers, NEW i \in Ids, NEW status \in Statuses, ReceiveWebhook(w, i, status)
      PROVE  PaymentsKnown'
  BY <1>0, <1>4, ReceiveWebhookKnows
<1>5. ASSUME NEW i \in Ids, Expire(i)
      PROVE  PaymentsKnown'
  <2>1. UNCHANGED <<pc, order, previous, caller, credited, joins, refunds, upset>>
    BY <1>5 DEF Expire, membershipVars, paymentLocal, local, history, data
  <2> QED
    BY <1>0, <1>5, <2>1, ExpireFits, NothingKnown DEF PaymentsKnown
<1>6. ASSUME UNCHANGED <<payments, pc, order, previous, caller, credited, joins, refunds, upset>>
      PROVE  PaymentsKnown'
  <2>1. Ids' = Ids
    BY <1>6 DEF Ids
  <2> QED
    BY <1>6, <2>1, NothingKnown DEF PaymentsKnown
<1>7. ASSUME NEW i \in Ids, NEW status \in Statuses, ProviderSends(i, status)
      PROVE  PaymentsKnown'
  BY <1>6, <1>7 DEF ProviderSends, membershipVars, paymentLocal, local, history, data
<1>8. ASSUME UNCHANGED allVars
      PROVE  PaymentsKnown'
  BY <1>6, <1>8 DEF allVars, membershipVars, local, history, data
<1>9. PaymentsKnown'
  BY <1>1, <1>2, <1>3, <1>4, <1>5, <1>7, <1>8 DEF PaymentsNext
<1> QED
  BY <1>0, <1>9 DEF PaymentsInv, PaymentsKnown

LEMMA PaymentsInvHolds == PaymentsSpec => []PaymentsInv
<1>1. PaymentsInv /\ [PaymentsNext]_allVars => PaymentsInv'
  BY PaymentsStep
<1> QED
  BY <1>1, InitPaymentsInv, PTL DEF PaymentsSpec

\* Payments have the program's own statuses and balances that fit their column, whatever
\* handleWebhook and createWalletChargePayment do with what the provider sends.
THEOREM PaymentsAreTyped == PaymentsSpec => []PaymentsTypeOK
<1>1. PaymentsInv => PaymentsTypeOK
  BY DEF PaymentsInv
<1> QED
  BY <1>1, PaymentsInvHolds, PTL

\* handleWebhook charges a profile once for a COMPLETED charge and not at all for one that
\* is PENDING or FAILED, unless deliveries overlapped, came late or were interrupted.
THEOREM PaymentsChargesAreProcessedOnce == PaymentsSpec => []ChargesAreProcessedOnce
<1>1. PaymentsInv => ChargesAreProcessedOnce
  BY PropertiesFollow
<1> QED
  BY <1>1, PaymentsInvHolds, PTL

\* handleWebhook buys a join again only when processMarathonJoin's last one was refunded.
THEOREM PaymentsRejoinOnlyAfterRefund == PaymentsSpec => []RejoinOnlyAfterRefund
<1>1. PaymentsInv => RejoinOnlyAfterRefund
  BY PropertiesFollow
<1> QED
  BY <1>1, PaymentsInvHolds, PTL

\* With webhooks, repeated and interrupted by crashes, in the place of direct calls, every
\* join is still active or refunded and links are mutual.
THEOREM PaymentsKeepMembership == PaymentsSpec => [](EachJoinIsActiveOrRefunded /\ LinksAreMutual)
<1>1. PaymentsInv => EachJoinIsActiveOrRefunded /\ LinksAreMutual
  BY DEF PaymentsInv, MembershipInv
<1> QED
  BY <1>1, PaymentsInvHolds, PTL
==============================================================================
