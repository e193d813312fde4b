----------------------------- MODULE AccountData -----------------------------
(***************************************************************************)
(* The stored data of one trading account: TokyoDataService, which imports *)
(* what TokyoService fetches and what RabbitMQ delivers, and the job that  *)
(* refreshes it when a marathon has finished.                              *)
(*                                                                         *)
(* Upstream changes by trades that close; a snapshot, a report and the     *)
(* histories it hands out are known by the number of trades closed by      *)
(* then.  An import runs its parts one after the other, each in a          *)
(* transaction of its own; the error of one ends the import and is only    *)
(* logged.  Of a snapshot's columns there are the money, which every       *)
(* report has, and the positions, which only their own request has.        *)
(***************************************************************************)
EXTENDS Integers, Sequences, FiniteSets

CONSTANTS
  Importers,   \* imports under way at once
  Trades,      \* the trades upstream in the order they close, with position and ticket, 0 for none
  MaxImports   \* bound on the imports

ASSUME AccountDataAssumption ==
  /\ Trades \in Seq([position : Nat, ticket : Nat])
  /\ MaxImports \in Nat

VARIABLES
  closed,       \* trades closed upstream
  snapshots,    \* rows of tokyo_account_data
  newest,       \* the row saved last
  performance,  \* the row of tokyo_performance, 0 when there is none
  stored,       \* history -> item -> how often it is stored
  imports,      \* importer -> what it does
  taken,        \* imports begun
  delivered,    \* history -> items of the imports that committed it (history variable)
  overlapped    \* parts two imports had in their transactions at once (history variable)

accountRows == <<snapshots, newest, performance, stored>>
accountVars == <<closed, accountRows, imports, taken, delivered, overlapped>>

Columns == {"money", "positions"}
Histories == {"trades", "events"}
Items == DOMAIN Trades

Unoccupied == [parts |-> <<>>]

\* What the requests of TokyoService hand to updateFromTokyoAPI: its parts, in its order.
Kinds == {"account", "positions", "performance", "trades", "events"}
PartsOf(kind) ==
  CASE kind \in {"account", "positions"} -> <<"snapshot">>
    [] kind = "performance" -> <<"snapshot", "performance">>
    [] OTHER -> <<kind>>
ColumnsGiven(kind) == IF kind = "positions" THEN {"positions"} ELSE {"money"}

Import(kind) ==
  [parts |-> PartsOf(kind), given |-> ColumnsGiven(kind), seen |-> closed,
   open |-> FALSE, row |-> 0, read |-> [f \in Columns |-> 0],
   checked |-> 0, pending |-> {}, overtaken |-> FALSE]

AccountDataInit ==
  /\ closed = 0
  /\ snapshots = <<>> /\ newest = 0 /\ performance = 0
  /\ stored = [h \in Histories |-> [i \in Items |-> 0]]
  /\ imports = [w \in Importers |-> Unoccupied]
  /\ taken = 0
  /\ delivered = [h \in Histories |-> 0]
  /\ overlapped = {}

CloseTrade ==
  /\ closed < Len(Trades)
  /\ closed' = closed + 1
  /\ UNCHANGED <<accountRows, imports, taken, delivered, overlapped>>

------------------------------------------------------------------------------
(***************************************************************************)
(* Fetching.  The request starts the import and does not wait for it.      *)
(***************************************************************************)

Fetch(w, kind) ==
  /\ imports[w] = Unoccupied /\ taken < MaxImports
  /\ imports' = [imports EXCEPT ![w] = Import(kind)]
  /\ taken' = taken + 1
  /\ UNCHANGED <<closed, accountRows, delivered, overlapped>>

\* The job fetches, which starts one import, and then imports what it got itself.
FetchAndImport(w, v, kind) ==
  /\ w # v /\ imports[w] = Unoccupied /\ imports[v] = Unoccupied
  /\ taken + 2 <= MaxImports
  /\ imports' = [imports EXCEPT ![w] = Import(kind), ![v] = Import(kind)]
  /\ taken' = taken + 2
  /\ UNCHANGED <<closed, accountRows, delivered, overlapped>>

------------------------------------------------------------------------------
(***************************************************************************)
(* One part of an import.                                                  *)
(***************************************************************************)

At(w, part) == imports[w].parts # <<>> /\ Head(imports[w].parts) = part

Overlapping(w, part) == \E v \in Importers \ {w} : At(v, part) /\ imports[v].open

\* The next part, or none.
After(c) ==
  IF Len(c.parts) = 1 THEN Unoccupied
  ELSE [c EXCEPT !.parts = Tail(@), !.open = FALSE, !.overtaken = FALSE]

\* Commits the part; other imports that have a snapshot to save are overtaken by this one.
Commit(w, part) ==
  /\ imports' = [v \in Importers |->
       IF v = w THEN After(imports[w])
       ELSE IF part = "snapshot" /\ At(v, part) THEN [imports[v] EXCEPT !.overtaken = TRUE]
       ELSE imports[v]]
  /\ overlapped' = IF Overlapping(w, part) THEN overlapped \cup {part} ELSE overlapped

\* The database fails: the transaction is rolled back and the rest of the import skipped.
BreakOff(w) ==
  /\ imports[w].parts # <<>>
  /\ imports' = [imports EXCEPT ![w] = Unoccupied]
  /\ UNCHANGED <<closed, accountRows, taken, delivered, overlapped>>

\* updateAccountData: findOne has no order, so of two rows it may return either.
ReadSnapshot(w) ==
  /\ At(w, "snapshot") /\ ~imports[w].open
  /\ \/ /\ snapshots = <<>>
        /\ imports' = [imports EXCEPT ![w].open = TRUE]
     \/ \E r \in DOMAIN snapshots :
          imports' = [imports EXCEPT ![w].open = TRUE, ![w].row = r, ![w].read = snapshots[r]]
  /\ UNCHANGED <<closed, accountRows, taken, delivered, overlapped>>

\* Faulty variant: what is not given is not kept.
FilledFromImport(c) == [f \in Columns |-> IF f \in c.given THEN c.seen ELSE 0]

\* What is not given is kept as it was read.
Filled(c) == [f \in Columns |-> IF f \in c.given THEN c.seen ELSE c.read[f]]

\* save() writes every column that differs from what the row holds by now.
SaveSnapshot(w) ==
  LET c == imports[w] r == IF c.row = 0 THEN Len(snapshots) + 1 ELSE c.row IN
  /\ At(w, "snapshot") /\ c.open
  /\ snapshots' = IF c.row = 0 THEN Append(snapshots, Filled(c)) ELSE [snapshots EXCEPT ![r] = Filled(c)]
  /\ newest' = r
  /\ Commit(w, "snapshot")
  /\ UNCHANGED <<closed, performance, stored, taken, delivered>>

\* updatePerformance: every column is given, and there is one row per account.
ReadPerformance(w) ==
  /\ At(w, "performance") /\ ~imports[w].open
  /\ imports' = [imports EXCEPT ![w].open = TRUE, ![w].row = IF performance = 0 THEN 0 ELSE 1]
  /\ UNCHANGED <<closed, accountRows, taken, delivered, overlapped>>

SavePerformance(w) ==
  LET c == imports[w] IN
  /\ At(w, "performance") /\ c.open
  /\ IF c.row = 0 /\ performance # 0 THEN imports' = [imports EXCEPT ![w] = Unoccupied] /\ UNCHANGED <<performance, overlapped>>
     ELSE performance' = c.seen + 1 /\ Commit(w, "performance")
  /\ UNCHANGED <<closed, snapshots, newest, stored, taken, delivered>>

\* updateTransactionHistory looks for the position under the trade's position or, without
\* one, its ticket; without both the condition is dropped and any trade will do.  The
\* balance and equity histories look for the event's own ticket and time.
LookedFor(i) == IF Trades[i].position # 0 THEN Trades[i].position ELSE Trades[i].ticket
SameTrade(i, j) == LookedFor(i) # 0 => Trades[j].position = LookedFor(i)

\* Faulty variant: the position of a trade is looked for among the tickets.
FoundByTicket(h, i, rows) ==
  \E j \in rows : IF h = "trades" THEN Trades[i].position = Trades[j].ticket ELSE i = j

Found(h, i, rows) == \E j \in rows : IF h = "trades" THEN SameTrade(i, j) ELSE i = j

\* The committed rows and those of the import's own transaction.
Visible(w, h) == {i \in Items : stored[h][i] > 0} \cup imports[w].pending

CheckItem(w, h) ==
  LET c == imports[w] i == c.checked + 1 IN
  /\ At(w, h) /\ c.checked < c.seen
  /\ imports' = [imports EXCEPT ![w].open = TRUE, ![w].checked = i,
       ![w].pending = IF Found(h, i, Visible(w, h)) THEN @ ELSE @ \cup {i}]
  /\ UNCHANGED <<closed, accountRows, taken, delivered, overlapped>>

CommitItems(w, h) ==
  LET c == imports[w] IN
  /\ At(w, h) /\ c.checked = c.seen
  /\ stored' = [stored EXCEPT ![h] = [i \in Items |-> @[i] + (IF i \in c.pending THEN 1 ELSE 0)]]
  /\ delivered' = [delivered EXCEPT ![h] = IF c.seen > @ THEN c.seen ELSE @]
  /\ Commit(w, h)
  /\ UNCHANGED <<closed, snapshots, newest, performance, taken>>

AccountDataNext ==
  \/ CloseTrade
  \/ \E w \in Importers :
       \/ \E kind \in Kinds : Fetch(w, kind) \/ \E v \in Importers : FetchAndImport(w, v, kind)
       \/ BreakOff(w)
       \/ ReadSnapshot(w) \/ SaveSnapshot(w)
       \/ ReadPerformance(w) \/ SavePerformance(w)
       \/ \E h \in Histories : CheckItem(w, h) \/ CommitItems(w, h)

AccountDataSpec == AccountDataInit /\ [][AccountDataNext]_accountVars

------------------------------------------------------------------------------
(***************************************************************************)
(* Properties.                                                             *)
(***************************************************************************)

Nameless(i) == Trades[i].position = 0 /\ Trades[i].ticket = 0
OnlyTicket(i) == Trades[i].position = 0 /\ Trades[i].ticket # 0

\* Another trade is stored under the number this one is looked for, as when a position
\* is closed in parts.
Shadowed(i) == \E j \in Items \ {i} : stored["trades"][j] > 0 /\ Trades[j].position = LookedFor(i)

\* What an import that ran to its end was handed is stored, and stored once, however
\* often it is handed out: but for trades without any number or with that of another,
\* for tickets, which are looked for among the positions, and for imports that overlapped.
ItemsAreStoredOnce ==
  \A h \in Histories : \A i \in Items :
    /\ i <= delivered[h] => stored[h][i] > 0 \/ (h = "trades" /\ (Nameless(i) \/ Shadowed(i)))
    /\ stored[h][i] > 1 => h \in overlapped \/ (h = "trades" /\ OnlyTicket(i))

\* The newest snapshot of the account.
Newest == IF newest = 0 THEN [f \in Columns |-> 0] ELSE snapshots[newest]

\* What the newest snapshot shows goes back to an older state only when an import saves
\* what another has overtaken, or when two first imports overlapped and left two rows.
SnapshotGoesForward ==
  [][\/ \A f \in Columns : Newest'[f] >= Newest[f]
     \/ \E w \in Importers : SaveSnapshot(w) /\ imports[w].overtaken
     \/ Len(snapshots) > 1 /\ "snapshot" \in overlapped]_accountVars

\* The trade history the service documents has neither position nor ticket.
EveryTradeIsStored == \A i \in Items : i <= delivered["trades"] => stored["trades"][i] > 0

=============================================================================
