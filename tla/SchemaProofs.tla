---------------------------- MODULE SchemaProofs ----------------------------
(***************************************************************************)
(* Theorems of Schema for any releases, inherited tables and reverts.      *)
(*                                                                         *)
(* That a start keeps the data needs little: what ran before it is a part  *)
(* of its release, users have UUIDs from the third migration on, and what  *)
(* a list of statements does to the data follows from what each of them    *)
(* does.                                                                   *)
(*                                                                         *)
(* That a start arrives needs to know what each of the 27 migrations is    *)
(* for, and after any reverts.  The inductive invariant, ArriveInv, says   *)
(* that the tables and columns the executed migrations are for are there   *)
(* (Built) and that nothing keeps a pending one from succeeding, if the    *)
(* database was one they were written for (Ready).                         *)
(***************************************************************************)
EXTENDS Schema, RecordsProofs

------------------------------------------------------------------------------
(***************************************************************************)
(* What a statement does to the data.  It keeps what is known as a record  *)
(* and never makes UUIDs integers; of those that go up all but a few add   *)
(* columns only, and these drop none of an entity.                         *)
(***************************************************************************)

Fields == {"ok", "tables", "cols", "idx", "refs", "uuid", "astray", "rows"}
IsSchema(S) == S = [f \in Fields |-> S[f]] /\ S.rows \subseteq S.cols

\* Statements that drop nothing, and those that drop no column of an entity.
Adding == {"create", "add if table", "add missing", "add new", "create if tables", "index",
           "reference", "reference once", "reference if tables", "rekey"}
Gentle(st) ==
  \/ st.do \in Adding
  \/ st \in {DropTable("social_media"), DropTable("meta_trader_accounts"),
             DropIfThere("user_settings", RetiredSettings), Translate, DropOldProfiles}

LEMMA AddedIs ==
  ASSUME NEW S, NEW t, NEW cols, IsSchema(S)
  PROVE  /\ IsSchema(Added(S, t, cols)) /\ Added(S, t, cols).astray \subseteq S.astray
         /\ Added(S, t, cols).ok = S.ok /\ Added(S, t, cols).uuid = S.uuid /\ Added(S, t, cols).rows = S.rows
BY DEF IsSchema, Fields, Added

LEMMA WithoutIs ==
  ASSUME NEW S, NEW t, NEW cols, IsSchema(S)
  PROVE  /\ IsSchema(Without(S, t, cols)) /\ Without(S, t, cols).astray \subseteq S.astray
         /\ Without(S, t, cols).ok = S.ok /\ Without(S, t, cols).uuid = S.uuid
         /\ Without(S, t, cols).rows = S.rows \ ({t} \X cols)
BY DEF IsSchema, Fields, Without

LEMMA RetypedIs ==
  ASSUME NEW S, NEW t, NEW from, NEW to, from # to, IsSchema(S)
  PROVE  /\ IsSchema(Retyped(S, t, from, to)) /\ Retyped(S, t, from, to).astray \subseteq S.astray
         /\ Retyped(S, t, from, to).ok = S.ok /\ Retyped(S, t, from, to).uuid = S.uuid
         /\ S.rows \ {<<t, from>>} \subseteq Retyped(S, t, from, to).rows
<1> DEFINE A == Added(S, t, {to})
           W == Without(A, t, {from})
<1>1. IsSchema(A) /\ A.astray \subseteq S.astray /\ A.ok = S.ok /\ A.uuid = S.uuid /\ A.rows = S.rows
  BY AddedIs
<1> HIDE DEF A
<1>2. IsSchema(W) /\ W.astray \subseteq A.astray /\ W.ok = A.ok /\ W.uuid = A.uuid /\ W.rows = A.rows \ ({t} \X {from})
  BY <1>1, WithoutIs DEF W
<1>3. Retyped(S, t, from, to) = [W EXCEPT !.rows = IF <<t, from>> \in S.rows THEN @ \cup {<<t, to>>} ELSE @]
  BY DEF Retyped, A
<1>4. <<t, to>> \in W.cols
  <2>1. A.cols = S.cols \cup ({t} \X {to})
    BY DEF A, Added, IsSchema, Fields
  <2>2. W.cols = A.cols \ ({t} \X {from})
    BY <1>1 DEF W, Without, IsSchema, Fields
  <2> QED
    BY <2>1, <2>2
<1> HIDE DEF W
<1> DEFINE R == Retyped(S, t, from, to)
<1>5. R = [f \in Fields |-> R[f]] /\ R.astray = W.astray /\ R.ok = W.ok /\ R.uuid = W.uuid /\ R.cols = W.cols
      /\ R.rows = IF <<t, from>> \in S.rows THEN W.rows \cup {<<t, to>>} ELSE W.rows
  BY <1>2, <1>3 DEF IsSchema, Fields
<1> HIDE DEF R
<1>6. R.rows \subseteq R.cols
  BY <1>2, <1>4, <1>5 DEF IsSchema
<1>7. S.rows \ {<<t, from>>} \subseteq R.rows
  BY <1>1, <1>2, <1>5
<1> QED
  BY <1>1, <1>2, <1>5, <1>6, <1>7 DEF IsSchema, R

LEMMA WithoutTableIs ==
  ASSUME NEW S, NEW t, IsSchema(S)
  PROVE  /\ IsSchema(WithoutTable(S, t)) /\ WithoutTable(S, t).astray \subseteq S.astray
         /\ WithoutTable(S, t).ok = S.ok /\ WithoutTable(S, t).uuid = S.uuid
         /\ WithoutTable(S, t).rows = S.rows \ ({t} \X ColumnsOf(S, t))
<1> DEFINE W == Without(S, t, ColumnsOf(S, t))
<1>1. IsSchema(W) /\ W.astray \subseteq S.astray /\ W.ok = S.ok /\ W.uuid = S.uuid /\ W.rows = S.rows \ ({t} \X ColumnsOf(S, t))
  BY WithoutIs
<1>2. WithoutTable(S, t) = [W EXCEPT !.tables = @ \ {t}, !.astray = @ \ {t},
        !.idx = {i \in @ : i[1] # t}, !.refs = {r \in @ : r.table # t /\ r.to # t}]
  BY DEF WithoutTable
<1> HIDE DEF W
<1> QED
  BY <1>1, <1>2 DEF IsSchema, Fields

\* The columns of the entities that some statement that goes up might drop.
LEMMA EntitiesKeepTheirColumns ==
  ASSUME NEW c \in EntityColumns
  PROVE  /\ c[1] \notin {"social_media", "meta_trader_accounts"}
         /\ c \notin {"user_settings"} \X RetiredSettings
         /\ c # <<"faqs", AsText>>
<1>1. PICK e \in Entities : c \in {e.table} \X e.cols
  BY DEF EntityColumns
<1>2. CASE \E i \in 1..5 : e = TokyoEntity(i)
  <2>1. PICK i \in 1..5 : e = TokyoEntity(i)
    BY <1>2
  <2>2. TokyoTables[i] \notin {"social_media", "meta_trader_accounts", "user_settings", "faqs"}
    BY DEF TokyoTables
  <2>3. e.table = TokyoTables[i]
    BY <2>1 DEF TokyoEntity, Entity
  <2> QED
    BY <1>1, <2>2, <2>3
<1>3. CASE e = UserSettings
  BY <1>1, <1>3 DEF UserSettings, Entity, RetiredSettings, AnnouncementColumns, Rest
<1>4. CASE e = Faq
  BY <1>1, <1>4 DEF Faq, Entity, AsText, AsJson, Rest
<1>5. CASE e \notin {UserSettings, Faq} /\ ~ \E i \in 1..5 : e = TokyoEntity(i)
  <2>1. e.table \notin {"social_media", "meta_trader_accounts", "user_settings", "faqs"}
    BY <1>5 DEF Entities, Entity, User, EmailVerification, PasswordReset, Profile, Wallet,
         VirtualWallet, VirtualWalletTransaction, Withdrawal, Payment, Marathon, MarathonParticipant,
         PasswordRequest, MetaTraderAccount, Session, LoginHistory, Notification, Recipients, ReadBy,
         Department, Ticket, TicketMessage
  <2> QED
    BY <1>1, <2>1
<1> QED
  BY <1>2, <1>3, <1>4, <1>5

\* Ids of users go astray where users are given new ones only.
Strays(S, st, E) == E.astray \subseteq S.astray \/ (st.do = "rekey" /\ E.astray = Stranded(S))

\* What a statement may have made of S.
Does(S, st, E) ==
  /\ IsSchema(E)
  /\ Strays(S, st, E)
  /\ E.ok = S.ok
  /\ S.uuid => E.uuid
  /\ st.do = "rekey" => E.uuid
  /\ st.do \in Adding => E.rows = S.rows
  /\ st.do \in {"drop columns", "drop existing"} => E.rows = S.rows \ ({st.table} \X st.cols)
  /\ st.do = "drop table" => E.rows = S.rows \ ({st.table} \X ColumnsOf(S, st.table))
  /\ st.do = "drop old profiles" /\ S.uuid => E = S
  /\ st.do = "translate" => S.rows \ {<<st.table, AsText>>} \subseteq E.rows

LEMMA EffectsAre ==
  ASSUME NEW S, NEW st, IsSchema(S)
  PROVE  Does(S, st, Effect(S, st))
<1> DEFINE t == st.table
           E == Effect(S, st)
<1> SUFFICES Does(S, st, E)
  OBVIOUS
<1> USE DEF Does, Strays
<1>1. CASE t \notin S.tables /\ (st.do = "create" \/ (st.do = "create if tables" /\ st.to \subseteq S.tables))
  <2> DEFINE A == Added(S, t, st.cols \cup {Rest})
  <2>1. E = [A EXCEPT !.refs = @ \cup {Ref(t, "named", u) : u \in st.to}]
    BY <1>1 DEF Effect
  <2>2. IsSchema(A) /\ A.astray \subseteq S.astray /\ A.ok = S.ok /\ A.uuid = S.uuid /\ A.rows = S.rows
    BY AddedIs
  <2> HIDE DEF A, E
  <2>3. IsSchema(E) /\ E.astray \subseteq S.astray /\ E.ok = S.ok /\ E.uuid = S.uuid /\ E.rows = S.rows
    BY <2>1, <2>2 DEF IsSchema, Fields
  <2> QED
    BY <1>1, <2>3 DEF E
<1>2. CASE st.do = "add if table" /\ t \in S.tables
  <2> DEFINE A == Added(S, t, st.cols)
  <2>1. E = [A EXCEPT !.idx = IF st.cols \subseteq ColumnsOf(S, t) THEN @ ELSE @ \cup ({t} \X st.idx)]
    BY <1>2 DEF Effect
  <2>2. IsSchema(A) /\ A.astray \subseteq S.astray /\ A.ok = S.ok /\ A.uuid = S.uuid /\ A.rows = S.rows
    BY AddedIs
  <2> HIDE DEF A, E
  <2>3. IsSchema(E) /\ E.astray \subseteq S.astray /\ E.ok = S.ok /\ E.uuid = S.uuid /\ E.rows = S.rows
    BY <2>1, <2>2 DEF IsSchema, Fields
  <2> QED
    BY <1>2, <2>3 DEF E
<1>3. CASE st.do \in {"add missing", "add new"}
  <2>1. E = Added(S, t, st.cols)
    BY <1>3 DEF Effect
  <2>2. IsSchema(E) /\ E.astray \subseteq S.astray /\ E.ok = S.ok /\ E.uuid = S.uuid /\ E.rows = S.rows
    BY <2>1, AddedIs
  <2> HIDE DEF E
  <2> QED
    BY <1>3, <2>2 DEF E
<1>4. CASE st.do \in {"drop columns", "drop existing"}
  <2>1. E = Without(S, t, st.cols)
    BY <1>4 DEF Effect
  <2>2. IsSchema(E) /\ E.astray \subseteq S.astray /\ E.ok = S.ok /\ E.uuid = S.uuid /\ E.rows = S.rows \ ({t} \X st.cols)
    BY <2>1, WithoutIs
  <2> HIDE DEF E
  <2> QED
    BY <1>4, <2>2 DEF Adding, E
<1>5. CASE st.do = "drop table"
  <2>1. E = WithoutTable(S, t)
    BY <1>5 DEF Effect
  <2>2. IsSchema(E) /\ E.astray \subseteq S.astray /\ E.ok = S.ok /\ E.uuid = S.uuid /\ E.rows = S.rows \ ({t} \X ColumnsOf(S, t))
    BY <2>1, WithoutTableIs
  <2> HIDE DEF E
  <2> QED
    BY <1>5, <2>2 DEF Adding, E
<1>6. CASE st.do = "drop old profiles"
  <2>1. CASE "users" \in S.tables /\ ~S.uuid
    <3>1. E = WithoutTable(S, t)
      BY <1>6, <2>1 DEF Effect
    <3>2. IsSchema(E) /\ E.astray \subseteq S.astray /\ E.ok = S.ok /\ E.uuid = S.uuid
      BY <3>1, WithoutTableIs
    <3> HIDE DEF E
    <3> QED
      BY <1>6, <2>1, <3>2 DEF Adding, E
  <2>2. CASE ~("users" \in S.tables /\ ~S.uuid)
    <3>1. E = S
      BY <1>6, <2>2 DEF Effect
    <3> QED
      BY <1>6, <3>1 DEF Adding
  <2> QED
    BY <2>1, <2>2
<1>7. CASE st.do = "index"
  <2>1. E = [S EXCEPT !.idx = @ \cup {<<t, st.name>>}]
    BY <1>7 DEF Effect
  <2> HIDE DEF E
  <2>2. IsSchema(E) /\ E.astray \subseteq S.astray /\ E.ok = S.ok /\ E.uuid = S.uuid /\ E.rows = S.rows
    BY <2>1 DEF IsSchema, Fields
  <2> QED
    BY <1>7, <2>2 DEF E
<1>8. CASE st.do = "drop index"
  <2>1. E = [S EXCEPT !.idx = @ \ {<<t, st.name>>}]
    BY <1>8 DEF Effect
  <2> HIDE DEF E
  <2>2. IsSchema(E) /\ E.astray \subseteq S.astray /\ E.ok = S.ok /\ E.uuid = S.uuid /\ E.rows = S.rows
    BY <2>1 DEF IsSchema, Fields
  <2> QED
    BY <1>8, <2>2 DEF E
<1>9. CASE \/ st.do = "reference"
           \/ st.do = "reference once" /\ \A r \in S.refs : r.table # t \/ r.to # st.to
  <2>1. E = [S EXCEPT !.refs = @ \cup {Ref(t, Generated, st.to)}]
    BY <1>9 DEF Effect
  <2> HIDE DEF E
  <2>2. IsSchema(E) /\ E.astray \subseteq S.astray /\ E.ok = S.ok /\ E.uuid = S.uuid /\ E.rows = S.rows
    BY <2>1 DEF IsSchema, Fields
  <2> QED
    BY <1>9, <2>2 DEF E
<1>10. CASE st.do = "reference if tables" /\ {t, st.to} \subseteq S.tables
  <2>1. E = [S EXCEPT !.refs = @ \cup {Ref(t, "named", st.to)}]
    BY <1>10 DEF Effect
  <2> HIDE DEF E
  <2>2. IsSchema(E) /\ E.astray \subseteq S.astray /\ E.ok = S.ok /\ E.uuid = S.uuid /\ E.rows = S.rows
    BY <2>1 DEF IsSchema, Fields
  <2> QED
    BY <1>10, <2>2 DEF E
<1>11. CASE st.do = "translate"
  <2>1. CASE AsText \in ColumnsOf(S, t)
    <3>1. E = Retyped(S, t, AsText, AsBinaryJson)
      BY <1>11, <2>1 DEF Effect
    <3>2. IsSchema(E) /\ E.astray \subseteq S.astray /\ E.ok = S.ok /\ E.uuid = S.uuid /\ S.rows \ {<<t, AsText>>} \subseteq E.rows
      BY <3>1, RetypedIs DEF AsText, AsBinaryJson
    <3> HIDE DEF E
    <3> QED
      BY <1>11, <3>2 DEF Adding
  <2>2. CASE AsText \notin ColumnsOf(S, t)
    <3>1. E = S
      BY <1>11, <2>2 DEF Effect
    <3> QED
      BY <1>11, <3>1 DEF Adding
  <2> QED
    BY <2>1, <2>2
<1>12. CASE st.do = "untranslate"
  <2>1. \/ E = Retyped(S, t, AsBinaryJson, AsText)
        \/ E = Retyped(S, t, AsJson, AsText)
        \/ E = S
    BY <1>12 DEF Effect
  <2>2. IsSchema(E) /\ E.astray \subseteq S.astray /\ E.ok = S.ok /\ E.uuid = S.uuid
    BY <2>1, RetypedIs DEF AsText, AsBinaryJson, AsJson
  <2> HIDE DEF E
  <2> QED
    BY <1>12, <2>2 DEF Adding
<1>13. CASE st.do = "drop reference"
  <2>1. E = [S EXCEPT !.refs = {r \in @ : r.table # t \/ r.name # st.name}]
    BY <1>13 DEF Effect
  <2> HIDE DEF E
  <2>2. IsSchema(E) /\ E.astray \subseteq S.astray /\ E.ok = S.ok /\ E.uuid = S.uuid /\ E.rows = S.rows
    BY <2>1 DEF IsSchema, Fields
  <2> QED
    BY <1>13, <2>2 DEF E
<1>14. CASE st.do = "rekey"
  <2>1. E = [S EXCEPT !.uuid = TRUE, !.astray = Stranded(S), !.refs = {r \in @ : r.to # "users"} \cup {Ref(u, "named", "users") : u \in Related \cap S.tables}]
    BY <1>14 DEF Effect
  <2> HIDE DEF E
  <2>2. IsSchema(E) /\ E.astray = Stranded(S) /\ E.ok = S.ok /\ E.uuid /\ E.rows = S.rows
    BY <2>1 DEF IsSchema, Fields
  <2> QED
    BY <1>14, <2>2 DEF E
<1>15. CASE /\ ~(t \notin S.tables /\ (st.do = "create" \/ (st.do = "create if tables" /\ st.to \subseteq S.tables)))
            /\ ~(st.do = "add if table" /\ t \in S.tables)
            /\ st.do \notin {"add missing", "add new", "drop columns", "drop existing", "drop table",
                 "drop old profiles", "index", "drop index", "reference", "translate", "untranslate",
                 "drop reference", "rekey"}
            /\ ~(st.do = "reference once" /\ \A r \in S.refs : r.table # t \/ r.to # st.to)
            /\ ~(st.do = "reference if tables" /\ {t, st.to} \subseteq S.tables)
  <2>1. E = S
    BY <1>15 DEF Effect
  <2> QED
    BY <1>15, <2>1
<1> HIDE DEF E
<1> QED
  BY <1>1, <1>2, <1>3, <1>4, <1>5, <1>6, <1>7, <1>8, <1>9, <1>10, <1>11, <1>12, <1>13, <1>14, <1>15,
       Zenon DEF E

LEMMA ExecIs ==
  ASSUME NEW S, NEW st, IsSchema(S)
  PROVE  /\ IsSchema(Exec(S, st)) /\ Strays(S, st, Exec(S, st))
         /\ S.uuid => Exec(S, st).uuid
         /\ Exec(S, st).ok => S.ok
         /\ Exec(S, st).ok /\ st.do = "rekey" => Exec(S, st).uuid
<1>1. CASE ~S.ok
  BY <1>1 DEF Exec, Strays
<1>2. CASE S.ok /\ Fails(S, st)
  <2>1. Exec(S, st) = [S EXCEPT !.ok = FALSE]
    BY <1>2 DEF Exec
  <2> QED
    BY <1>2, <2>1 DEF IsSchema, Fields, Strays
<1>3. CASE S.ok /\ ~Fails(S, st)
  <2>1. Exec(S, st) = Effect(S, st)
    BY <1>3 DEF Exec
  <2>2. Does(S, st, Effect(S, st))
    BY EffectsAre
  <2> QED
    BY <1>3, <2>1, <2>2 DEF Does
<1> QED
  BY <1>1, <1>2, <1>3

\* A statement that goes up keeps the data of the entities' columns.
LEMMA GentleKeepsData ==
  ASSUME NEW S, NEW st, IsSchema(S), Gentle(st), st = DropOldProfiles => S.uuid
  PROVE  S.rows \cap EntityColumns \subseteq Exec(S, st).rows
<1>1. CASE ~S.ok
  BY <1>1 DEF Exec
<1>2. CASE S.ok /\ Fails(S, st)
  <2>1. Exec(S, st) = [S EXCEPT !.ok = FALSE]
    BY <1>2 DEF Exec
  <2> QED
    BY <2>1 DEF IsSchema, Fields
<1>3. CASE S.ok /\ ~Fails(S, st)
  <2> DEFINE E == Effect(S, st)
  <2>0. Exec(S, st) = E /\ Does(S, st, E)
    BY <1>3, EffectsAre DEF Exec
  <2> HIDE DEF E
  <2>1. CASE st.do \in Adding
    <3>1. E.rows = S.rows
      BY <2>0, <2>1 DEF Does
    <3> QED
      BY <2>0, <3>1
  <2>2. CASE st \in {DropTable("social_media"), DropTable("meta_trader_accounts")}
    <3>1. st.do = "drop table" /\ st.table \in {"social_media", "meta_trader_accounts"}
      <4>1. CASE st = DropTable("social_media")
        BY <4>1 DEF DropTable
      <4>2. CASE st = DropTable("meta_trader_accounts")
        BY <4>2 DEF DropTable
      <4> QED
        BY <2>2, <4>1, <4>2
    <3>2. E.rows = S.rows \ ({st.table} \X ColumnsOf(S, st.table))
      BY <2>0, <3>1 DEF Does
    <3> QED
      BY <2>0, <3>1, <3>2, EntitiesKeepTheirColumns
  <2>3. CASE st = DropIfThere("user_settings", RetiredSettings)
    <3>1. st.do = "drop columns" /\ st.table = "user_settings" /\ st.cols = RetiredSettings
      BY <2>3 DEF DropIfThere
    <3>2. E.rows = S.rows \ ({"user_settings"} \X RetiredSettings)
      BY <2>0, <3>1 DEF Does
    <3> QED
      BY <2>0, <3>2, EntitiesKeepTheirColumns
  <2>4. CASE st = Translate
    <3>1. st.do = "translate" /\ st.table = "faqs"
      BY <2>4 DEF Translate
    <3>2. S.rows \ {<<"faqs", AsText>>} \subseteq E.rows
      BY <2>0, <3>1 DEF Does
    <3> QED
      BY <2>0, <3>2, EntitiesKeepTheirColumns
  <2>5. CASE st = DropOldProfiles
    <3>1. st.do = "drop old profiles" /\ S.uuid
      BY <2>5 DEF DropOldProfiles
    <3>2. E = S
      BY <2>0, <3>1 DEF Does
    <3> QED
      BY <2>0, <3>2
  <2> QED
    BY <2>1, <2>2, <2>3, <2>4, <2>5 DEF Gentle
<1> QED
  BY <1>1, <1>2, <1>3

------------------------------------------------------------------------------
(***************************************************************************)
(* Execute takes the statements of a sequence from the first to the last.  *)
(***************************************************************************)

\* f[s] is what the statements numbered in s make of S.
ExecutesAll(f, S, statements, I) ==
  f = [s \in SUBSET I |-> IF s = {} THEN S ELSE Exec(f[s \ {Max(s)}], statements[Max(s)])]

LEMMA ExecuteIs ==
  ASSUME NEW S, NEW statements
  PROVE  Execute(S, statements)
           = (CHOOSE f : ExecutesAll(f, S, statements, DOMAIN statements))[DOMAIN statements]
BY DEF Execute, FoldLeft, MapThenFoldSet, ExecutesAll

LEMMA MaxIsIn ==
  ASSUME NEW n \in Nat, NEW s \in SUBSET (1..n), s # {}
  PROVE  Max(s) \in s /\ \A x \in s : x <= Max(s)
<1> DEFINE Above == {n - x : x \in s}
<1>0. \A x \in s : x \in Nat /\ x <= n /\ n - x \in Nat
  OBVIOUS
<1>1. Above \subseteq Nat /\ Above # {}
  BY <1>0
<1>2. PICK m \in Above : \A y \in Above : m <= y
  <2> HIDE DEF Above
  <2> QED
    BY <1>1, LeastExists
<1>3. PICK x \in s : m = n - x
  OBVIOUS
<1>4. \A y \in s : x >= y
  BY <1>0, <1>2, <1>3
<1>5. Max(s) \in s /\ \A y \in s : Max(s) >= y
  BY <1>4, Zenon DEF Max
<1> QED
  BY <1>0, <1>5

\* What lies within a set of numbers has a last one.
Within(I, J) == I \subseteq J /\ IsFiniteSet(I) /\ \A s \in SUBSET I : s # {} => Max(s) \in s
ExecutionsAgree(S, statements, I, J) ==
  \A f, g : ExecutesAll(f, S, statements, I) /\ ExecutesAll(g, S, statements, J) => \A s \in SUBSET I : f[s] = g[s]

LEMMA NumbersAreWithin ==
  ASSUME NEW n \in Nat, NEW I, NEW J, I \subseteq J, J \subseteq 1..n
  PROVE  Within(I, J)
<1>1. IsFiniteSet(1..n)
  BY FS_Interval
<1>2. IsFiniteSet(I)
  BY <1>1, FS_Subset
<1>3. ASSUME NEW s, s \in SUBSET I, s # {}
      PROVE  Max(s) \in s
  <2>1. s \in SUBSET (1..n)
    BY <1>3
  <2> QED
    BY <1>3, <2>1, MaxIsIn
<1> QED
  BY <1>2, <1>3 DEF Within

LEMMA WithinAgree ==
  ASSUME NEW S, NEW statements, NEW I, NEW J, Within(I, J)
  PROVE  ExecutionsAgree(S, statements, I, J)
<1> SUFFICES ASSUME NEW f, NEW g, ExecutesAll(f, S, statements, I), ExecutesAll(g, S, statements, J)
    PROVE  \A s \in SUBSET I : f[s] = g[s]
  BY DEF ExecutionsAgree
<1> DEFINE G == {s \in SUBSET I : f[s] = g[s]}
<1>1. \A s \in SUBSET I : f[s] = IF s = {} THEN S ELSE Exec(f[s \ {Max(s)}], statements[Max(s)])
  BY Zenon DEF ExecutesAll
<1>2. \A s \in SUBSET J : g[s] = IF s = {} THEN S ELSE Exec(g[s \ {Max(s)}], statements[Max(s)])
  BY Zenon DEF ExecutesAll
<1>3. \A s \in SUBSET I : s \in SUBSET J
  BY DEF Within
<1>4. {} \in G
  BY <1>1, <1>2, <1>3
<1>5. ASSUME NEW s \in SUBSET I, s # {}, \A x \in s : s \ {x} \in G
      PROVE  s \in G
  <2>1. f[s \ {Max(s)}] = g[s \ {Max(s)}]
    BY <1>5 DEF Within
  <2> QED
    BY <1>1, <1>2, <1>3, <1>5, <2>1
<1>6. IsFiniteSet(I)
  BY DEF Within
<1> HIDE DEF G
<1>7. \A s \in SUBSET I : s \in G
  BY <1>4, <1>5, <1>6, SubsetInduction
<1> QED
  BY <1>7 DEF G

LEMMA ExecutionsExist ==
  ASSUME NEW S, NEW statements, NEW n \in Nat
  PROVE  \E f : ExecutesAll(f, S, statements, 1..n)
<1> DEFINE Done(f, s) == ExecutesAll(f, S, statements, s)
           I == 1..n
           G == {s \in SUBSET I : \E f : Done(f, s)}
           F(s) == CHOOSE f : Done(f, s)
<1>0. IsFiniteSet(I)
  BY FS_Interval
<1>1. {} \in G
  <2>1. Done([s \in SUBSET {} |-> S], {})
    BY DEF ExecutesAll
  <2> QED
    BY <2>1
<1>2. ASSUME NEW s \in SUBSET I, s # {}, \A x \in s : s \ {x} \in G
      PROVE  s \in G
  <2> DEFINE Rest1(t) == t \ {Max(t)}
             f == [t \in SUBSET s |-> IF t = {} THEN S ELSE Exec(F(Rest1(t))[Rest1(t)], statements[Max(t)])]
  <2>1. ASSUME NEW t \in SUBSET s, t # s
        PROVE  Done(F(t), t)
    <3>1. PICK x \in s : x \notin t
      BY <2>1
    <3>2. PICK g : Done(g, s \ {x})
      BY <1>2
    <3>3. Done([u \in SUBSET t |-> g[u]], t)
      <4> DEFINE h == [u \in SUBSET t |-> g[u]]
      <4>1. \A u \in SUBSET (s \ {x}) : g[u] = IF u = {} THEN S ELSE Exec(g[u \ {Max(u)}], statements[Max(u)])
        BY <3>2, Zenon DEF ExecutesAll
      <4>2. \A u \in SUBSET t : u \in SUBSET (s \ {x})
        BY <3>1
      <4>3. h = [u \in SUBSET t |-> IF u = {} THEN S ELSE Exec(h[u \ {Max(u)}], statements[Max(u)])]
        BY <4>1, <4>2
      <4> HIDE DEF h
      <4>4. Done(h, t)
        BY <4>3, Zenon DEF ExecutesAll
      <4> QED
        BY <4>4 DEF h
    <3> QED
      BY <3>3, Zenon
  <2>2. ASSUME NEW u \in SUBSET s, u # s
        PROVE  F(u)[u] = f[u]
    <3>1. Done(F(u), u)
      BY <2>1, <2>2
    <3> HIDE DEF F
    <3>2. F(u)[u] = IF u = {} THEN S ELSE Exec(F(u)[u \ {Max(u)}], statements[Max(u)])
      BY <3>1, Zenon DEF ExecutesAll
    <3>3. f[u] = IF u = {} THEN S ELSE Exec(F(u \ {Max(u)})[u \ {Max(u)}], statements[Max(u)])
      BY Zenon
    <3> HIDE DEF f
    <3>4. CASE u # {}
      <4>1. PICK w : w = u \ {Max(u)}
        OBVIOUS
      <4>2. w \in SUBSET s /\ w # s /\ w \subseteq u
        BY <3>4, <4>1, MaxIsIn
      <4>3. Done(F(w), w)
        BY <2>1, <4>2
      <4>4. w \subseteq 1..n /\ u \subseteq 1..n
        BY <4>2
      <4>5. ExecutionsAgree(S, statements, w, u)
        <5>1. Within(w, u)
          BY <4>2, <4>4, NumbersAreWithin
        <5> QED
          BY <5>1, WithinAgree
      <4> HIDE DEF F
      <4>6. F(w)[w] = F(u)[w]
        BY <3>1, <4>3, <4>5, Zenon DEF ExecutionsAgree
      <4> QED
        BY <3>2, <3>3, <3>4, <4>1, <4>6
    <3> QED
      BY <3>2, <3>3, <3>4
  <2>3. f = [t \in SUBSET s |-> IF t = {} THEN S ELSE Exec(f[t \ {Max(t)}], statements[Max(t)])]
    <3>1. \A t \in SUBSET s : t # {} => F(Rest1(t))[Rest1(t)] = f[t \ {Max(t)}]
      <4> SUFFICES ASSUME NEW t \in SUBSET s, t # {}
          PROVE  F(Rest1(t))[Rest1(t)] = f[t \ {Max(t)}]
        OBVIOUS
      <4>1. Rest1(t) \in SUBSET s /\ Rest1(t) # s
        BY MaxIsIn
      <4> HIDE DEF F, f
      <4> QED
        BY <2>2, <4>1
    <3> HIDE DEF F, Rest1
    <3> QED
      BY <3>1
  <2>4. Done(f, s)
    BY <2>3, Zenon DEF ExecutesAll
  <2> QED
    BY <2>4
<1> HIDE DEF G, F
<1>3. \A s \in SUBSET I : s \in G
  BY <1>0, <1>1, <1>2, SubsetInduction
<1> QED
  BY <1>3 DEF G

\* The schemas the statements make one after the other.
LEMMA ExecuteInSteps ==
  ASSUME NEW S, NEW statements, NEW n \in Nat, DOMAIN statements = 1..n
  PROVE  \E after : /\ after[0] = S
                    /\ \A k \in 1..n : after[k] = Exec(after[k - 1], statements[k])
                    /\ Execute(S, statements) = after[n]
<1>1. PICK f : ExecutesAll(f, S, statements, 1..n) /\ Execute(S, statements) = f[1..n]
  <2>1. \E f : ExecutesAll(f, S, statements, 1..n)
    BY ExecutionsExist
  <2> QED
    BY <2>1, ExecuteIs, Zenon
<1>2. \A s \in SUBSET (1..n) : f[s] = IF s = {} THEN S ELSE Exec(f[s \ {Max(s)}], statements[Max(s)])
  BY <1>1, Zenon DEF ExecutesAll
<1> DEFINE after == [k \in 0..n |-> f[1..k]]
<1>3. after[0] = S
  <2>1. 1..0 = {} /\ 0 \in 0..n
    OBVIOUS
  <2> QED
    BY <1>2, <2>1
<1>4. ASSUME NEW k \in 1..n PROVE after[k] = Exec(after[k - 1], statements[k])
  <2>1. 1..k \in SUBSET (1..n) /\ 1..k # {} /\ k \in 0..n /\ k - 1 \in 0..n
    OBVIOUS
  <2>2. Max(1..k) = k
    <3>1. Max(1..k) \in 1..k /\ \A x \in 1..k : x <= Max(1..k)
      BY <2>1, MaxIsIn
    <3> QED
      BY <3>1
  <2>3. (1..k) \ {k} = 1..(k - 1)
    OBVIOUS
  <2>4. f[1..k] = Exec(f[1..(k - 1)], statements[k])
    BY <1>2, <2>1, <2>2, <2>3
  <2> QED
    BY <2>1, <2>4
<1>5. after[n] = f[1..n]
  OBVIOUS
<1> HIDE DEF after
<1> QED
  BY <1>1, <1>3, <1>4, <1>5

\* No statement resets a schema or makes UUIDs integers.
LEMMA ExecuteKeepsUuids ==
  ASSUME NEW S, NEW statements, NEW n \in Nat, DOMAIN statements = 1..n, IsSchema(S)
  PROVE  IsSchema(Execute(S, statements)) /\ (S.uuid => Execute(S, statements).uuid)
<1>1. PICK after : /\ after[0] = S
                   /\ \A k \in 1..n : after[k] = Exec(after[k - 1], statements[k])
                   /\ Execute(S, statements) = after[n]
  BY ExecuteInSteps
<1> DEFINE Bad == {k \in 0..n : ~(IsSchema(after[k]) /\ (S.uuid => after[k].uuid))}
<1>2. Bad = {}
  <2> SUFFICES ASSUME Bad # {} PROVE FALSE
    OBVIOUS
  <2>1. PICK k \in Bad : \A j \in Bad : k <= j
    <3>1. Bad \subseteq Nat
      OBVIOUS
    <3> HIDE DEF Bad
    <3> QED
      BY <3>1, LeastExists
  <2>2. k # 0
    BY <1>1
  <2>3. k \in 1..n /\ k - 1 \in 0..n /\ k - 1 \notin Bad
    BY <2>1, <2>2
  <2>4. IsSchema(after[k - 1]) /\ (S.uuid => after[k - 1].uuid)
    BY <2>3
  <2>5. after[k] = Exec(after[k - 1], statements[k])
    BY <1>1, <2>3
  <2>6. PICK X : X = after[k - 1]
    OBVIOUS
  <2>7. IsSchema(Exec(X, statements[k])) /\ (X.uuid => Exec(X, statements[k]).uuid)
    BY <2>4, <2>6, ExecIs
  <2> QED
    BY <2>4, <2>5, <2>6, <2>7
<1>3. n \in 0..n /\ n \notin Bad
  BY <1>2
<1> QED
  BY <1>1, <1>3

------------------------------------------------------------------------------
(***************************************************************************)
(* The statements of the pending migrations, one migration after another.  *)
(***************************************************************************)

Flattens(f, seqs, n) == f = [i \in 1..n |-> IF i = 1 THEN seqs[i] ELSE f[i-1] \o seqs[i]]

LEMMA FlatteningsExist ==
  ASSUME NEW seqs, NEW n \in Nat
  PROVE  \E f : Flattens(f, seqs, n)
<1> DEFINE Bad == {m \in 0..n : ~ \E f : Flattens(f, seqs, m)}
<1>1. Bad = {}
  <2> SUFFICES ASSUME Bad # {} PROVE FALSE
    OBVIOUS
  <2>1. PICK m \in Bad : \A j \in Bad : m <= j
    <3>1. Bad \subseteq Nat
      OBVIOUS
    <3> HIDE DEF Bad
    <3> QED
      BY <3>1, LeastExists
  <2>2. m # 0
    <3>1. Flattens([i \in 1..0 |-> 0], seqs, 0)
      BY DEF Flattens
    <3> QED
      BY <3>1
  <2>3. m - 1 \in 0..n /\ m - 1 \notin Bad /\ m \in 1..n
    BY <2>1, <2>2
  <2>4. PICK f : Flattens(f, seqs, m - 1)
    BY <2>3
  <2>5. \A i \in 1..(m - 1) : f[i] = IF i = 1 THEN seqs[i] ELSE f[i - 1] \o seqs[i]
    BY <2>4, Zenon DEF Flattens
  <2> DEFINE last == IF m = 1 THEN seqs[m] ELSE f[m - 1] \o seqs[m]
             g == [i \in 1..m |-> IF i = m THEN last ELSE f[i]]
  <2>6. ASSUME NEW i \in 1..m
        PROVE  g[i] = IF i = 1 THEN seqs[i] ELSE g[i - 1] \o seqs[i]
    <3>1. CASE i = m
      <4>1. i # 1 => g[i - 1] = f[i - 1]
        BY <2>3, <3>1
      <4> QED
        BY <3>1, <4>1
    <3>2. CASE i # m
      <4>1. i \in 1..(m - 1) /\ g[i] = f[i]
        BY <2>3, <3>2
      <4>2. i # 1 => g[i - 1] = f[i - 1]
        BY <2>3, <4>1
      <4> QED
        BY <2>5, <4>1, <4>2
    <3> QED
      BY <3>1, <3>2
  <2>7. DOMAIN g = 1..m /\ g = [i \in 1..m |-> g[i]]
    OBVIOUS
  <2> HIDE DEF g
  <2>8. g = [i \in 1..m |-> IF i = 1 THEN seqs[i] ELSE g[i - 1] \o seqs[i]]
    BY <2>6, <2>7
  <2>9. Flattens(g, seqs, m)
    BY <2>8, Zenon DEF Flattens
  <2> QED
    BY <2>9
<1>2. n \in 0..n /\ n \notin Bad
  BY <1>1
<1> QED
  BY <1>2

LEMMA FlattenInSteps ==
  ASSUME NEW seqs, NEW n \in Nat, n # 0, Len(seqs) = n
  PROVE  \E upTo : /\ upTo[1] = seqs[1]
                   /\ \A i \in 2..n : upTo[i] = upTo[i - 1] \o seqs[i]
                   /\ FlattenSeq(seqs) = upTo[n]
<1>1. FlattenSeq(seqs) = (CHOOSE f : Flattens(f, seqs, n))[n]
  BY DEF FlattenSeq, Flattens
<1>2. PICK f : Flattens(f, seqs, n) /\ FlattenSeq(seqs) = f[n]
  <2>1. \E f : Flattens(f, seqs, n)
    BY FlatteningsExist
  <2> QED
    BY <1>1, <2>1, Zenon
<1>3. \A i \in 1..n : f[i] = IF i = 1 THEN seqs[i] ELSE f[i - 1] \o seqs[i]
  BY <1>2, Zenon DEF Flattens
<1>4. 1 \in 1..n /\ \A i \in 2..n : i \in 1..n /\ i # 1
  OBVIOUS
<1> QED
  BY <1>2, <1>3, <1>4

\* A sequence of statements that go up, none of which drops the old profiles.
Mild(st) == Gentle(st) /\ st # DropOldProfiles
MildUps(s) == s \in Seq(Range(s)) /\ \A st \in Range(s) : Mild(st)

LEMMA MildFunction ==
  ASSUME NEW n \in Nat, NEW s, s = [i \in 1..n |-> s[i]], \A i \in 1..n : Mild(s[i])
  PROVE  MildUps(s)
<1>1. Range(s) = {s[i] : i \in 1..n}
  BY DEF Range
<1>2. s \in Seq(Range(s))
  BY <1>1, SeqDef
<1> QED
  BY <1>1, <1>2 DEF MildUps

LEMMA MildConcat ==
  ASSUME NEW s, NEW t, MildUps(s), MildUps(t)
  PROVE  MildUps(s \o t)
<1>1. PICK A : A = Range(s) \cup Range(t)
  OBVIOUS
<1>2. s \in Seq(A) /\ t \in Seq(A)
  BY <1>1, SeqMonotonic DEF MildUps
<1>3. Range(s \o t) = A /\ s \o t \in Seq(A)
  BY <1>1, <1>2, RangeConcatenation, ConcatProperties
<1> QED
  BY <1>1, <1>3 DEF MildUps

LEMMA MildTuples ==
  /\ MildUps(<<>>)
  /\ \A a : Mild(a) => MildUps(<<a>>)
  /\ \A a, b : Mild(a) /\ Mild(b) => MildUps(<<a, b>>)
  /\ \A a, b, c : Mild(a) /\ Mild(b) /\ Mild(c) => MildUps(<<a, b, c>>)
<1>1. MildUps(<<>>)
  BY DEF MildUps, Range
<1>2. ASSUME NEW a, Mild(a) PROVE MildUps(<<a>>)
  <2>1. <<a>> = [i \in 1..1 |-> <<a>>[i]] /\ \A i \in 1..1 : <<a>>[i] = a
    OBVIOUS
  <2> QED
    BY <1>2, <2>1, MildFunction
<1>3. ASSUME NEW a, NEW b, Mild(a), Mild(b) PROVE MildUps(<<a, b>>)
  <2>1. <<a, b>> = [i \in 1..2 |-> <<a, b>>[i]] /\ \A i \in 1..2 : <<a, b>>[i] \in {a, b}
    OBVIOUS
  <2> QED
    BY <1>3, <2>1, MildFunction
<1>4. ASSUME NEW a, NEW b, NEW c, Mild(a), Mild(b), Mild(c) PROVE MildUps(<<a, b, c>>)
  <2>1. <<a, b, c>> = [i \in 1..3 |-> <<a, b, c>>[i]] /\ \A i \in 1..3 : <<a, b, c>>[i] \in {a, b, c}
    OBVIOUS
  <2> QED
    BY <1>4, <2>1, MildFunction
<1> QED
  BY <1>1, <1>2, <1>3, <1>4

\* The statements a migration is made of.
LEMMA StatementsAreMild ==
  /\ \A t, cols, to : Mild(Create(t, cols, to))
  /\ \A t, cols, idx : Mild(AddIfTable(t, cols, idx))
  /\ \A t, cols : Mild(AddMissing(t, cols)) /\ Mild(AddNew(t, cols))
  /\ \A t, name : Mild(Index(t, name))
  /\ \A t, to : Mild(Reference(t, to)) /\ Mild(ReferenceOnce(t, to))
                /\ Mild(CreateIfTables(t, to)) /\ Mild(ReferenceIfTables(t, to))
  /\ Mild(DropTable("social_media")) /\ Mild(DropTable("meta_trader_accounts"))
  /\ Mild(DropIfThere("user_settings", RetiredSettings))
  /\ Mild(Translate) /\ Mild(Rekey)
<1>0. DropOldProfiles.do = "drop old profiles"
  BY DEF DropOldProfiles
<1>1. ASSUME NEW st, st.do \in Adding PROVE Mild(st)
  BY <1>0, <1>1 DEF Mild, Gentle, Adding
<1>2. ASSUME NEW st, st.do \in {"drop table", "drop columns", "translate"} PROVE st # DropOldProfiles
  BY <1>0, <1>2
<1>3. /\ \A t, cols, to : Create(t, cols, to).do \in Adding
      /\ \A t, cols, idx : AddIfTable(t, cols, idx).do \in Adding
      /\ \A t, cols : AddMissing(t, cols).do \in Adding /\ AddNew(t, cols).do \in Adding
      /\ \A t, name : Index(t, name).do \in Adding
      /\ \A t, to : Reference(t, to).do \in Adding /\ ReferenceOnce(t, to).do \in Adding
                    /\ CreateIfTables(t, to).do \in Adding /\ ReferenceIfTables(t, to).do \in Adding
      /\ Rekey.do \in Adding
  BY DEF Create, AddIfTable, AddMissing, AddNew, Index, Reference, ReferenceOnce, CreateIfTables,
       ReferenceIfTables, Rekey, Adding
<1>4. /\ DropTable("social_media").do = "drop table" /\ DropTable("meta_trader_accounts").do = "drop table"
      /\ DropIfThere("user_settings", RetiredSettings).do = "drop columns" /\ Translate.do = "translate"
  BY DEF DropTable, DropIfThere, Translate
<1>5. /\ Mild(DropTable("social_media")) /\ Mild(DropTable("meta_trader_accounts"))
      /\ Mild(DropIfThere("user_settings", RetiredSettings)) /\ Mild(Translate)
  <2>1. /\ DropTable("social_media") # DropOldProfiles /\ DropTable("meta_trader_accounts") # DropOldProfiles
        /\ DropIfThere("user_settings", RetiredSettings) # DropOldProfiles /\ Translate # DropOldProfiles
    BY <1>0, <1>4
  <2> QED
    BY <2>1 DEF Mild, Gentle
<1> QED
  BY <1>1, <1>3, <1>5

LEMMA TokyoTablesAreMild == MildUps(CreateTokyoDataTables.up)
<1> USE StatementsAreMild, MildTuples
<1>1. MildUps(MetatraderAccounts)
  <2>1. PICK a, b, c, d : /\ a = Create("metatrader_accounts", {LinkColumn}, {})
                          /\ b = Index("metatrader_accounts", "IDX_metatrader_accounts_userId")
                          /\ c = Index("metatrader_accounts", LinkIndex)
                          /\ d = ReferenceOnce("metatrader_accounts", "users")
    OBVIOUS
  <2>2. Mild(a) /\ Mild(b) /\ Mild(c) /\ Mild(d)
    BY <2>1
  <2>3. /\ <<a, b, c, d>> = [i \in 1..4 |-> <<a, b, c, d>>[i]]
        /\ \A i \in 1..4 : <<a, b, c, d>>[i] \in {a, b, c, d}
    OBVIOUS
  <2>4. MildUps(<<a, b, c, d>>)
    BY <2>2, <2>3, MildFunction
  <2> QED
    BY <2>1, <2>4 DEF MetatraderAccounts
<1>2. /\ MildUps(TokyoAccountData) /\ MildUps(TokyoTransactionHistory) /\ MildUps(TokyoPerformance)
      /\ MildUps(TokyoBalanceHistory) /\ MildUps(TokyoEquityHistory)
  BY DEF TokyoAccountData, TokyoTransactionHistory, TokyoPerformance, TokyoBalanceHistory,
       TokyoEquityHistory
<1>3. MildUps(TokyoReferences)
  <2>1. /\ TokyoReferences = [i \in 1..5 |-> TokyoReferences[i]]
        /\ \A i \in 1..5 : TokyoReferences[i] = Reference(TokyoTables[i], "metatrader_accounts")
    BY DEF TokyoReferences
  <2> QED
    BY <2>1, MildFunction
<1>4. MildUps(CreateTokyoIndexes)
  <2>1. /\ CreateTokyoIndexes = [i \in 1..6 |-> CreateTokyoIndexes[i]]
        /\ \A i \in 1..6 : CreateTokyoIndexes[i] = Index(TokyoTables[TokyoIndexes[i][1]], TokyoIndexes[i][2])
    BY DEF CreateTokyoIndexes
  <2>2. \A i \in 1..6 : Mild(CreateTokyoIndexes[i])
    BY <2>1, Zenon
  <2> QED
    BY <2>1, <2>2, MildFunction
<1>5. CreateTokyoDataTables.up
        = MetatraderAccounts \o TokyoAccountData \o TokyoTransactionHistory \o TokyoPerformance
            \o TokyoBalanceHistory \o TokyoEquityHistory \o TokyoReferences \o CreateTokyoIndexes
  BY DEF CreateTokyoDataTables
<1> QED
  BY <1>1, <1>2, <1>3, <1>4, <1>5, MildConcat, Zenon

LEMMA SettingsTablesAreMild == MildUps(CreateSettingsTables.up)
<1> USE StatementsAreMild, MildTuples
<1> DEFINE tables == <<Create("user_settings", RetiredSettings, {}), Create("sessions", {}, {}), Create("login_history", {}, {})>>
           refs == [i \in 1..3 |-> Reference(SettingsTables[i], "users")]
           idx == [i \in 1..4 |-> Index(SettingsTables[SettingsIndexes[i][1]], SettingsIndexes[i][2])]
<1>1. MildUps(tables)
  OBVIOUS
<1>2. MildUps(refs)
  <2>1. refs = [i \in 1..3 |-> refs[i]] /\ \A i \in 1..3 : refs[i] = Reference(SettingsTables[i], "users")
    OBVIOUS
  <2> HIDE DEF refs
  <2> QED
    BY <2>1, MildFunction
<1>3. MildUps(idx)
  <2>1. /\ idx = [i \in 1..4 |-> idx[i]]
        /\ \A i \in 1..4 : idx[i] = Index(SettingsTables[SettingsIndexes[i][1]], SettingsIndexes[i][2])
    OBVIOUS
  <2> HIDE DEF idx
  <2>2. \A i \in 1..4 : Mild(idx[i])
    BY <2>1, Zenon
  <2> QED
    BY <2>1, <2>2, MildFunction
<1>4. CreateSettingsTables.up = (tables \o refs) \o idx
  BY DEF CreateSettingsTables
<1> HIDE DEF tables, refs, idx
<1>5. MildUps(tables \o refs)
  BY <1>1, <1>2, MildConcat
<1> QED
  BY <1>3, <1>4, <1>5, MildConcat

\* The fourth drops the old profiles, the third makes the keys UUIDs.
LEMMA MigrationsGoUp ==
  /\ \A m \in 1..27 : m # 4 => MildUps(Release[m].up)
  /\ Release[4].up = <<DropOldProfiles>>
  /\ Rekey \in Range(Release[3].up)
<1> USE StatementsAreMild, MildTuples
<1>1. MildUps(Release[1].up)
  BY DEF Release, CreateUserRoleEnum
<1>2. MildUps(Release[2].up)
  BY DEF Release, CreateUsersTable
<1>3. MildUps(Release[3].up) /\ Rekey \in Range(Release[3].up)
  <2>1. Release[3].up = <<Create("profile", {}, {}), Rekey>>
    BY DEF Release, UpdateUserAndProfileToUUID
  <2>2. PICK a : a = Create("profile", {}, {})
    OBVIOUS
  <2>3. DOMAIN <<a, Rekey>> = 1..2 /\ <<a, Rekey>>[2] = Rekey
    OBVIOUS
  <2> QED
    BY <2>1, <2>2, <2>3 DEF Range
<1>4. Release[4].up = <<DropOldProfiles>>
  BY DEF Release, DropUsersAndProfiles
<1>5. MildUps(Release[5].up)
  BY DEF Release, AddSocialMediaToProfile
<1>6. MildUps(Release[6].up)
  BY DEF Release, DropMetaTraderAccounts
<1>7. MildUps(Release[7].up)
  BY DEF Release, AddBalanceToProfile
<1>8. MildUps(Release[8].up)
  BY DEF Release, AddTrackingIdToTickets
<1>9. MildUps(Release[9].up)
  BY DEF Release, AddIsTestToPayment
<1>10. MildUps(Release[10].up)
  BY DEF Release, UpdatePaymentEntityForNowPayments
<1>11. MildUps(Release[11].up)
  BY DEF Release, AddMarathonParticipantIdToMetaTraderAccounts
<1>12. MildUps(Release[12].up)
  BY DEF Release, AddPrizeStrategyToMarathons
<1>13. MildUps(Release[13].up)
  BY DEF Release, CreateVirtualWalletTables
<1>14. MildUps(Release[14].up)
  BY DEF Release, AddStatusToMarathons
<1>15. MildUps(Release[15].up)
  BY DEF Release, CreateWithdrawalsTable
<1>16. MildUps(Release[16].up)
  BY DEF Release, AddIsBannedToUsers
<1>17. MildUps(Release[17].up)
  BY DEF Release, AddIsFrozenToVirtualWallets
<1>18. MildUps(Release[18].up)
  <2>1. Release[18] = CreateTokyoDataTables
    BY DEF Release
  <2> QED
    BY <2>1, TokyoTablesAreMild
<1>19. MildUps(Release[19].up)
  BY DEF Release, UpdateFaqTableForMultilingual
<1>20. MildUps(Release[20].up)
  <2>1. Release[20] = CreateSettingsTables
    BY DEF Release
  <2> QED
    BY <2>1, SettingsTablesAreMild
<1>21. MildUps(Release[21].up)
  BY DEF Release, RemoveSettingsFields
<1>22. MildUps(Release[22].up)
  BY DEF Release, AddLocationToSessions
<1>23. MildUps(Release[23].up)
  BY DEF Release, AddMarathonAnnouncementsSettings
<1>24. MildUps(Release[24].up)
  BY DEF Release, AddBanReasonAndBannedAtToUsers
<1>25. MildUps(Release[25].up)
  BY DEF Release, AddStatusToMarathonParticipants
<1>26. MildUps(Release[26].up)
  BY DEF Release, AddDisqualificationReasonToMarathonParticipants
<1>27. MildUps(Release[27].up)
  BY DEF Release, CreatePasswordRequestsTable
<1>28. \A m \in 1..27 : m \in {1, 2, 3, 4, 5, 6, 7, 8, 9, 10, 11, 12, 13, 14, 15, 16, 17,
                               18, 19, 20, 21, 22, 23, 24, 25, 26, 27}
  OBVIOUS
<1> QED
  BY <1>1, <1>2, <1>3, <1>4, <1>5, <1>6, <1>7, <1>8, <1>9, <1>10, <1>11, <1>12, <1>13, <1>14, <1>15,
       <1>16, <1>17, <1>18, <1>19, <1>20, <1>21, <1>22, <1>23, <1>24, <1>25, <1>26, <1>27, <1>28

\* Keys are made UUIDs before the old profiles would be dropped.
InOrder(s, from, to) ==
  /\ s \in Seq(Range(s))
  /\ \A st \in Range(s) : Gentle(st)
  /\ from < 3 /\ 3 <= to => Rekey \in Range(s)
  /\ from < 3 => \A k \in 1..Len(s) : s[k] = DropOldProfiles => \E j \in 1..(k - 1) : s[j] = Rekey

LEMMA NextInOrder ==
  ASSUME NEW from \in Nat, NEW to \in Nat, from <= to, to < 27, NEW s, InOrder(s, from, to)
  PROVE  InOrder(s \o Release[to + 1].up, from, to + 1)
<1> DEFINE up == Release[to + 1].up
<1>1. to + 1 \in 1..27 /\ up \in Seq(Range(up)) /\ \A st \in Range(up) : Gentle(st)
  <2>1. to + 1 \in 1..27
    OBVIOUS
  <2>2. CASE to + 1 # 4
    BY <2>1, <2>2, MigrationsGoUp DEF MildUps, Mild
  <2>3. CASE to + 1 = 4
    <3>1. up = <<DropOldProfiles>>
      BY <2>3, MigrationsGoUp
    <3>2. up \in Seq({DropOldProfiles})
      BY <3>1
    <3>3. up \in Seq(Range(up)) /\ Range(up) \in SUBSET {DropOldProfiles}
      BY <3>2, SeqOfRange, RangeOfSeq
    <3> QED
      BY <2>1, <3>3 DEF Gentle
  <2> QED
    BY <2>2, <2>3
<1>2. PICK A : A = Range(s) \cup Range(up)
  OBVIOUS
<1>3. s \in Seq(A) /\ up \in Seq(A)
  BY <1>1, <1>2, SeqMonotonic DEF InOrder
<1> DEFINE both == s \o up
<1>4. Range(both) = A /\ both \in Seq(A)
  BY <1>2, <1>3, RangeConcatenation, ConcatProperties
<1>5. /\ Len(s) \in Nat /\ Len(up) \in Nat /\ Len(both) = Len(s) + Len(up)
      /\ \A k \in 1..(Len(s) + Len(up)) : both[k] = IF k <= Len(s) THEN s[k] ELSE up[k - Len(s)]
  BY <1>3, ConcatProperties, LenProperties
<1>6. Range(s) = {s[i] : i \in 1..Len(s)} /\ Range(up) = {up[i] : i \in 1..Len(up)}
  BY <1>3, RangeEquality
<1>7. from < 3 /\ 3 <= to + 1 => Rekey \in A
  <2>1. to = 2 => Rekey \in Range(up)
    BY MigrationsGoUp
  <2> QED
    BY <1>2, <2>1 DEF InOrder
<1>8. ASSUME from < 3, NEW k \in 1..Len(both), both[k] = DropOldProfiles
      PROVE  \E j \in 1..(k - 1) : both[j] = Rekey
  <2>1. CASE k <= Len(s)
    <3>1. PICK j \in 1..(k - 1) : s[j] = Rekey
      BY <1>5, <1>8, <2>1 DEF InOrder
    <3> QED
      BY <1>5, <2>1, <3>1
  <2>2. CASE ~(k <= Len(s))
    <3>1. k - Len(s) \in 1..Len(up) /\ up[k - Len(s)] = DropOldProfiles
      BY <1>5, <1>8, <2>2
    <3>2. DropOldProfiles \in Range(up)
      BY <1>6, <3>1
    <3>3. to + 1 = 4
      BY <1>1, <3>2, MigrationsGoUp DEF MildUps, Mild
    <3>4. Rekey \in Range(s)
      BY <1>8, <3>3 DEF InOrder
    <3>5. PICK j \in 1..Len(s) : s[j] = Rekey
      BY <1>6, <3>4
    <3>6. j \in 1..(k - 1) /\ both[j] = Rekey
      BY <1>5, <2>2, <3>5
    <3> QED
      BY <3>6
  <2> QED
    BY <2>1, <2>2
<1>9. both \in Seq(Range(both)) /\ \A st \in Range(both) : Gentle(st)
  BY <1>1, <1>2, <1>4 DEF InOrder
<1> HIDE DEF up, both
<1>10. InOrder(both, from, to + 1)
  BY <1>4, <1>7, <1>8, <1>9 DEF InOrder
<1> QED
  BY <1>10 DEF both, up

LEMMA UpsAreInOrder ==
  ASSUME NEW from \in 0..27, NEW to \in 0..27, from <= to
  PROVE  InOrder(Ups(from, to), from, to)
<1>0. InOrder(<<>>, from, from)
  BY DEF InOrder, Range
<1> DEFINE n == to - from
           seqs == [i \in 1..n |-> Release[from + i].up]
<1>1. n \in Nat /\ Len(seqs) = n /\ DOMAIN seqs = 1..n
  OBVIOUS
<1>2. CASE n = 0
  <2>1. Ups(from, to) = <<>>
    BY <1>1, <1>2 DEF Ups, FlattenSeq
  <2> QED
    BY <1>0, <1>2, <2>1
<1>3. CASE n # 0
  <2>1. PICK upTo : /\ upTo[1] = seqs[1]
                    /\ \A i \in 2..n : upTo[i] = upTo[i - 1] \o seqs[i]
                    /\ FlattenSeq(seqs) = upTo[n]
    <3> HIDE DEF n, seqs
    <3> QED
      BY <1>1, <1>3, FlattenInSteps
  <2>2. Ups(from, to) = upTo[n]
    BY <2>1 DEF Ups
  <2>3. \A i \in 1..n : seqs[i] = Release[from + i].up
    OBVIOUS
  <2>4. InOrder(upTo[1], from, from + 1)
    <3>1. InOrder(<<>> \o Release[from + 1].up, from, from + 1)
      <4>1. PICK none : none = <<>>
        OBVIOUS
      <4>2. from \in Nat /\ from <= from /\ from < 27
        BY <1>3
      <4>3. InOrder(none, from, from)
        BY <1>0, <4>1
      <4>4. InOrder(none \o Release[from + 1].up, from, from + 1)
        BY <4>2, <4>3, NextInOrder
      <4> QED
        BY <4>1, <4>4
    <3>2. Release[from + 1].up \in Seq(Range(Release[from + 1].up))
      <4>1. CASE from + 1 # 4
        <5>1. from + 1 \in 1..27
          BY <1>3
        <5> QED
          BY <4>1, <5>1, MigrationsGoUp DEF MildUps
      <4>2. CASE from + 1 = 4
        <5>1. Release[from + 1].up = <<DropOldProfiles>>
          BY <4>2, MigrationsGoUp
        <5>2. Release[from + 1].up \in Seq({DropOldProfiles})
          BY <5>1
        <5> QED
          BY <5>2, SeqOfRange
      <4> QED
        BY <4>1, <4>2
    <3>3. upTo[1] = <<>> \o Release[from + 1].up
      BY <1>1, <1>3, <2>1, <2>3, <3>2, ConcatEmptySeq
    <3> QED
      BY <3>1, <3>3
  <2> DEFINE Bad == {i \in 1..n : ~InOrder(upTo[i], from, from + i)}
  <2>5. Bad = {}
    <3> SUFFICES ASSUME Bad # {} PROVE FALSE
      OBVIOUS
    <3>1. PICK i \in Bad : \A j \in Bad : i <= j
      <4>1. Bad \subseteq Nat
        OBVIOUS
      <4> HIDE DEF Bad
      <4> QED
        BY <4>1, LeastExists
    <3>2. i \in 2..n /\ i - 1 \in 1..n /\ i - 1 \notin Bad
      BY <2>4, <3>1
    <3>3. PICK j : j = from + (i - 1)
      OBVIOUS
    <3>4. j \in Nat /\ from <= j /\ j < 27 /\ j + 1 = from + i
      BY <1>1, <3>2, <3>3
    <3>5. PICK s : s = upTo[i - 1]
      OBVIOUS
    <3>6. InOrder(s, from, j)
      BY <3>2, <3>3, <3>5
    <3>7. InOrder(s \o Release[j + 1].up, from, j + 1)
      BY <3>4, <3>6, NextInOrder
    <3>8. upTo[i] = s \o Release[from + i].up
      BY <2>1, <2>3, <3>2, <3>5
    <3> QED
      BY <3>1, <3>4, <3>7, <3>8
  <2>6. n \in 1..n /\ n \notin Bad /\ from + n = to
    BY <1>1, <1>3, <2>5
  <2> QED
    BY <2>2, <2>6
<1> QED
  BY <1>2, <1>3

\* A start keeps the data of the entities' columns, and after the third migration keys are UUIDs.
LEMMA UpsKeepData ==
  ASSUME NEW S, NEW from \in 0..27, NEW to \in 0..27, from <= to,
         IsSchema(S), from >= 3 => S.uuid, Execute(S, Ups(from, to)).ok
  PROVE  /\ S.rows \cap EntityColumns \subseteq Execute(S, Ups(from, to)).rows
         /\ to >= 3 => Execute(S, Ups(from, to)).uuid
<1> DEFINE s == Ups(from, to)
           n == Len(s)
<1>1. InOrder(s, from, to)
  BY UpsAreInOrder
<1> HIDE DEF s
<1>2. n \in Nat /\ DOMAIN s = 1..n /\ Range(s) = {s[k] : k \in 1..n}
  BY <1>1, LenProperties, RangeEquality DEF InOrder
<1>3. PICK after : /\ after[0] = S
                   /\ \A k \in 1..n : after[k] = Exec(after[k - 1], s[k])
                   /\ Execute(S, s) = after[n]
  <2>1. n \in Nat
    BY <1>2
  <2>2. DOMAIN s = 1..n
    BY <1>2
  <2> HIDE DEF n
  <2> QED
    BY <2>1, <2>2, ExecuteInSteps
<1> DEFINE Fine(k) == /\ IsSchema(after[k])
                      /\ after[k].ok => /\ S.rows \cap EntityColumns \subseteq after[k].rows
                                        /\ S.uuid \/ (\E j \in 1..k : s[j] = Rekey) => after[k].uuid
           Bad == {k \in 0..n : ~Fine(k)}
<1>4. Fine(0)
  BY <1>3
<1>5. ASSUME NEW k \in 1..n, Fine(k - 1) PROVE Fine(k)
  <2>1. PICK X, st : X = after[k - 1] /\ st = s[k]
    OBVIOUS
  <2>2. after[k] = Exec(X, st) /\ IsSchema(X) /\ Gentle(st)
    BY <1>1, <1>2, <1>3, <1>5, <2>1 DEF InOrder
  <2>3. /\ IsSchema(Exec(X, st)) /\ (X.uuid => Exec(X, st).uuid) /\ (Exec(X, st).ok => X.ok)
        /\ Exec(X, st).ok /\ st.do = "rekey" => Exec(X, st).uuid
    BY <2>2, ExecIs
  <2> SUFFICES ASSUME after[k].ok
               PROVE  /\ S.rows \cap EntityColumns \subseteq after[k].rows
                      /\ S.uuid \/ (\E j \in 1..k : s[j] = Rekey) => after[k].uuid
    BY <2>2, <2>3
  <2>4. X.ok
    BY <2>2, <2>3
  <2>5. S.rows \cap EntityColumns \subseteq X.rows /\ (S.uuid \/ (\E j \in 1..(k - 1) : s[j] = Rekey) => X.uuid)
    BY <1>5, <2>1, <2>4
  <2>6. st = DropOldProfiles => X.uuid
    <3>1. from < 3 /\ st = DropOldProfiles => \E j \in 1..(k - 1) : s[j] = Rekey
      BY <1>1, <2>1 DEF InOrder
    <3> QED
      BY <2>5, <3>1
  <2>7. X.rows \cap EntityColumns \subseteq Exec(X, st).rows
    BY <2>2, <2>6, GentleKeepsData
  <2>8. S.uuid \/ (\E j \in 1..k : s[j] = Rekey) => Exec(X, st).uuid
    <3>1. CASE st = Rekey
      <4>1. st.do = "rekey"
        BY <3>1 DEF Rekey
      <4> QED
        BY <2>2, <2>3, <4>1
    <3>2. CASE st # Rekey
      <4>1. \A j \in 1..k : s[j] = Rekey => j \in 1..(k - 1)
        BY <2>1, <3>2
      <4> QED
        BY <2>3, <2>5, <4>1
    <3> QED
      BY <3>1, <3>2
  <2> QED
    BY <2>2, <2>5, <2>7, <2>8
<1> HIDE DEF Fine
<1>6. Bad = {}
  <2> SUFFICES ASSUME Bad # {} PROVE FALSE
    OBVIOUS
  <2>1. PICK k \in Bad : \A j \in Bad : k <= j
    <3>1. Bad \subseteq Nat
      BY <1>2
    <3> HIDE DEF Bad
    <3> QED
      BY <3>1, LeastExists
  <2>2. k \in 1..n /\ k - 1 \in 0..n /\ k - 1 \notin Bad
    BY <1>2, <1>4, <2>1
  <2> QED
    BY <1>5, <2>1, <2>2
<1>7. Fine(n)
  BY <1>2, <1>6
<1>8. to >= 3 => S.uuid \/ \E j \in 1..n : s[j] = Rekey
  <2>1. from < 3 /\ to >= 3 => Rekey \in Range(s)
    BY <1>1 DEF InOrder
  <2> QED
    BY <1>2, <2>1
<1> QED
  BY <1>3, <1>7, <1>8 DEF Fine, s

------------------------------------------------------------------------------
\* After the third migration keys are UUIDs, whatever is reverted; what serves requests
\* has all columns of the entities.
SchemaInv ==
  /\ IsSchema(schema)
  /\ executed \in 0 .. 27 /\ release \in 0 .. 27 /\ executed <= release
  /\ executed >= 3 => schema.uuid
  /\ stage = "serving" => EntityColumns \subseteq schema.cols

LEMMA ReleaseHas == Len(Release) = 27
BY DEF Release

\* What is put together of functions on intervals is one.
LEMMA ConcatIsSequence ==
  ASSUME NEW s, NEW t, NEW k \in Nat, NEW n \in Nat, s = [i \in 1..k |-> s[i]], t = [i \in 1..n |-> t[i]]
  PROVE  s \o t = [i \in 1..(k + n) |-> (s \o t)[i]]
<1>1. PICK A : A = Range(s) \cup Range(t)
  OBVIOUS
<1>2. s \in Seq(A) /\ t \in Seq(A) /\ Len(s) = k /\ Len(t) = n
  <2>1. s \in [1..k -> A] /\ t \in [1..n -> A]
    BY <1>1 DEF Range
  <2>2. s \in Seq(A) /\ t \in Seq(A)
    BY <2>1, SeqDef
  <2> QED
    BY <2>1, <2>2, LenProperties
<1>3. s \o t \in Seq(A) /\ Len(s \o t) = k + n
  BY <1>2, ConcatProperties
<1>4. s \o t \in [1..(k + n) -> A]
  BY <1>3, LenProperties
<1> QED
  BY <1>4

LEMMA DownsAreSequences == \A m \in 1..27 : \E n \in Nat : DOMAIN Release[m].down = 1..n
<1>1. DOMAIN Release[1].down = 1..0
  BY DEF Release, CreateUserRoleEnum
<1>2. DOMAIN Release[2].down = 1..1
  BY DEF Release, CreateUsersTable
<1>3. DOMAIN Release[3].down = 1..1
  BY DEF Release, UpdateUserAndProfileToUUID
<1>4. DOMAIN Release[4].down = 1..1
  BY DEF Release, DropUsersAndProfiles
<1>5. DOMAIN Release[5].down = 1..2
  BY DEF Release, AddSocialMediaToProfile
<1>6. DOMAIN Release[6].down = 1..0
  BY DEF Release, DropMetaTraderAccounts
<1>7. DOMAIN Release[7].down = 1..1
  BY DEF Release, AddBalanceToProfile
<1>8. DOMAIN Release[8].down = 1..1
  BY DEF Release, AddTrackingIdToTickets
<1>9. DOMAIN Release[9].down = 1..1
  BY DEF Release, AddIsTestToPayment
<1>10. DOMAIN Release[10].down = 1..2
  BY DEF Release, UpdatePaymentEntityForNowPayments
<1>11. DOMAIN Release[11].down = 1..1
  BY DEF Release, AddMarathonParticipantIdToMetaTraderAccounts
<1>12. DOMAIN Release[12].down = 1..3
  BY DEF Release, AddPrizeStrategyToMarathons
<1>13. DOMAIN Release[13].down = 1..3
  BY DEF Release, CreateVirtualWalletTables
<1>14. DOMAIN Release[14].down = 1..1
  BY DEF Release, AddStatusToMarathons
<1>15. DOMAIN Release[15].down = 1..1
  BY DEF Release, CreateWithdrawalsTable
<1>16. DOMAIN Release[16].down = 1..1
  BY DEF Release, AddIsBannedToUsers
<1>17. DOMAIN Release[17].down = 1..1
  BY DEF Release, AddIsFrozenToVirtualWallets
<1>18. DOMAIN Release[18].down = 1..19
  <2> DEFINE a == [i \in 1..6 |-> DropIndex(TokyoTables[TokyoIndexes[7 - i][1]], TokyoIndexes[7 - i][2])]
             b == <<DropIndex("metatrader_accounts", LinkIndex),
                    DropIndex("metatrader_accounts", "IDX_metatrader_accounts_userId")>>
             c == [i \in 1..5 |-> DropReference(TokyoTables[6 - i], "named")]
             d == [i \in 1..5 |-> DropTable(TokyoTables[6 - i])]
             e == <<DropTable("metatrader_accounts")>>
  <2>1. /\ a = [i \in 1..6 |-> a[i]] /\ b = [i \in 1..2 |-> b[i]] /\ c = [i \in 1..5 |-> c[i]]
        /\ d = [i \in 1..5 |-> d[i]] /\ e = [i \in 1..1 |-> e[i]]
    OBVIOUS
  <2>2. Release[18].down = (((a \o b) \o c) \o d) \o e
    BY DEF Release, CreateTokyoDataTables, DropTokyoTables
  <2> HIDE DEF a, b, c, d, e
  <2>3. PICK ab, abc, abcd, down : /\ ab = a \o b /\ abc = ab \o c /\ abcd = abc \o d
                                   /\ down = abcd \o e
    OBVIOUS
  <2>4. ab = [i \in 1..(6 + 2) |-> ab[i]]
    BY <2>1, <2>3, ConcatIsSequence
  <2>5. abc = [i \in 1..((6 + 2) + 5) |-> abc[i]]
    BY <2>1, <2>3, <2>4, ConcatIsSequence
  <2>6. abcd = [i \in 1..(((6 + 2) + 5) + 5) |-> abcd[i]]
    BY <2>1, <2>3, <2>5, ConcatIsSequence
  <2>7. down = [i \in 1..((((6 + 2) + 5) + 5) + 1) |-> down[i]]
    BY <2>1, <2>3, <2>6, ConcatIsSequence
  <2> QED
    BY <2>2, <2>3, <2>7
<1>19. DOMAIN Release[19].down = 1..1
  BY DEF Release, UpdateFaqTableForMultilingual
<1>20. DOMAIN Release[20].down = 1..10
  <2> DEFINE a == [i \in 1..4 |-> DropIndex(SettingsTables[SettingsIndexes[5 - i][1]], SettingsIndexes[5 - i][2])]
             b == [i \in 1..3 |-> DropReference(SettingsTables[4 - i], "named")]
             c == [i \in 1..3 |-> DropTable(SettingsTables[4 - i])]
  <2>1. a = [i \in 1..4 |-> a[i]] /\ b = [i \in 1..3 |-> b[i]] /\ c = [i \in 1..3 |-> c[i]]
    OBVIOUS
  <2>2. Release[20].down = (a \o b) \o c
    BY DEF Release, CreateSettingsTables
  <2> HIDE DEF a, b, c
  <2>3. PICK ab, down : ab = a \o b /\ down = ab \o c
    OBVIOUS
  <2>4. ab = [i \in 1..(4 + 3) |-> ab[i]]
    BY <2>1, <2>3, ConcatIsSequence
  <2>5. down = [i \in 1..((4 + 3) + 3) |-> down[i]]
    BY <2>1, <2>3, <2>4, ConcatIsSequence
  <2> QED
    BY <2>2, <2>3, <2>5
<1>21. DOMAIN Release[21].down = 1..1
  BY DEF Release, RemoveSettingsFields
<1>22. DOMAIN Release[22].down = 1..1
  BY DEF Release, AddLocationToSessions
<1>23. DOMAIN Release[23].down = 1..1
  BY DEF Release, AddMarathonAnnouncementsSettings
<1>24. DOMAIN Release[24].down = 1..1
  BY DEF Release, AddBanReasonAndBannedAtToUsers
<1>25. DOMAIN Release[25].down = 1..1
  BY DEF Release, AddStatusToMarathonParticipants
<1>26. DOMAIN Release[26].down = 1..1
  BY DEF Release, AddDisqualificationReasonToMarathonParticipants
<1>27. DOMAIN Release[27].down = 1..1
  BY DEF Release, CreatePasswordRequestsTable
<1>28. \A m \in 1..27 : m \in {1, 2, 3, 4, 5, 6, 7, 8, 9, 10, 11, 12, 13, 14, 15, 16, 17,
                               18, 19, 20, 21, 22, 23, 24, 25, 26, 27}
  OBVIOUS
<1> QED
  BY <1>1, <1>2, <1>3, <1>4, <1>5, <1>6, <1>7, <1>8, <1>9, <1>10, <1>11, <1>12, <1>13, <1>14, <1>15,
       <1>16, <1>17, <1>18, <1>19, <1>20, <1>21, <1>22, <1>23, <1>24, <1>25, <1>26, <1>27, <1>28

LEMMA SchemaInvInitially == SchemaInit => SchemaInv
<1> SUFFICES ASSUME NEW L, NEW current, NEW uuid, NEW used, Inheriting(L, current, uuid, used)
             PROVE  SchemaInv
  BY DEF SchemaInit
<1>1. PICK all, refs :
        schema = [Empty EXCEPT !.tables = L, !.cols = all, !.rows = IF used THEN all ELSE {}, !.uuid = uuid, !.refs = refs]
  BY DEF Inheriting, InheritedFrom
<1>2. IsSchema(schema)
  BY <1>1 DEF Empty, IsSchema, Fields
<1> QED
  BY <1>2 DEF Inheriting, SchemaInv

LEMMA SynchronisedIs ==
  ASSUME NEW S, IsSchema(S)
  PROVE  /\ IsSchema(Synchronised(S)) /\ Synchronised(S).uuid = S.uuid
         /\ EntityColumns \subseteq Synchronised(S).cols
         /\ S.rows \cap EntityColumns \subseteq Synchronised(S).rows
<1> DEFINE kept == {c \in S.cols : c[1] \in EntityTables => c \in EntityColumns}
           E == Synchronised(S)
<1>1. PICK tables, refs : E = [S EXCEPT !.tables = tables, !.cols = kept \cup EntityColumns,
                                        !.rows = S.rows \cap kept, !.idx = {}, !.astray = {}, !.refs = refs]
  BY Zenon DEF Synchronised
<1> HIDE DEF E
<1>2. /\ E = [f \in Fields |-> E[f]] /\ E.uuid = S.uuid
      /\ E.cols = kept \cup EntityColumns /\ E.rows = S.rows \cap kept
  <2> HIDE DEF kept
  <2> QED
    BY <1>1 DEF IsSchema, Fields
<1>3. S.rows \cap EntityColumns \subseteq kept
  BY DEF IsSchema
<1> HIDE DEF kept
<1> QED
  BY <1>2, <1>3 DEF IsSchema, E

LEMMA SchemaInvKept == SchemaInv /\ [SchemaNext]_schemaVars => SchemaInv'
<1> SUFFICES ASSUME SchemaInv, [SchemaNext]_schemaVars PROVE SchemaInv'
  OBVIOUS
<1> USE ReleaseHas
<1>1. CASE Deploy
  BY <1>1, ReleasesAssumption DEF Deploy, SchemaInv, IsSchema
<1>2. CASE RunMigrations
  <2> DEFINE S == Execute(schema, Ups(executed, release))
  <2>1. InOrder(Ups(executed, release), executed, release)
    BY UpsAreInOrder DEF SchemaInv
  <2>2. PICK n \in Nat : DOMAIN Ups(executed, release) = 1..n
    BY <2>1, LenProperties DEF InOrder
  <2>3. IsSchema(S)
    BY <2>2, ExecuteKeepsUuids DEF SchemaInv
  <2>4. S.ok /\ release >= 3 => S.uuid
    BY UpsKeepData DEF SchemaInv
  <2> HIDE DEF S
  <2>5. \/ schema' = S /\ S.ok /\ executed' = release
        \/ UNCHANGED <<schema, executed>>
    BY <1>2 DEF RunMigrations, S
  <2>6. release' = release /\ stage' # "serving"
    BY <1>2 DEF RunMigrations
  <2>7. CASE schema' = S /\ S.ok /\ executed' = release
    <3>1. IsSchema(schema)'
      BY <2>3, <2>7
    <3> QED
      BY <2>4, <2>6, <2>7, <3>1 DEF SchemaInv
  <2>8. CASE UNCHANGED <<schema, executed>>
    BY <2>6, <2>8 DEF SchemaInv, IsSchema
  <2> QED
    BY <2>5, <2>7, <2>8
<1>3. CASE Synchronize
  <2>1. /\ IsSchema(Synchronised(schema)) /\ Synchronised(schema).uuid = schema.uuid
        /\ EntityColumns \subseteq Synchronised(schema).cols
    BY SynchronisedIs DEF SchemaInv
  <2> QED
    BY <1>3, <2>1 DEF Synchronize, SchemaInv
<1>4. CASE Operate
  <2>1. /\ schema' = [schema EXCEPT !.rows = @ \cup EntityColumns]
        /\ stage = "serving" /\ UNCHANGED <<executed, release>>
    BY <1>4 DEF Operate
  <2>2. PICK S, E : S = schema /\ E = schema' /\ IsSchema(S)
    BY DEF SchemaInv
  <2>3. E = [f \in Fields |-> E[f]] /\ E.uuid = S.uuid /\ E.cols = S.cols /\ E.rows = S.rows \cup EntityColumns
    BY <2>1, <2>2 DEF IsSchema, Fields
  <2>4. IsSchema(E)
    BY <2>1, <2>2, <2>3 DEF IsSchema, SchemaInv
  <2> QED
    BY <2>1, <2>2, <2>3, <2>4 DEF SchemaInv
<1>5. CASE Stop
  BY <1>5 DEF Stop, SchemaInv, IsSchema
<1>6. CASE Revert
  <2> DEFINE S == Execute(schema, Release[executed].down)
  <2>1. executed \in 1..27
    BY <1>6 DEF Revert, SchemaInv
  <2>2. PICK n \in Nat : DOMAIN Release[executed].down = 1..n
    BY <2>1, DownsAreSequences
  <2>3. IsSchema(S) /\ (schema.uuid => S.uuid)
    BY <2>2, ExecuteKeepsUuids DEF SchemaInv
  <2> HIDE DEF S
  <2>4. \/ schema' = S /\ executed' = executed - 1
        \/ UNCHANGED <<schema, executed>>
    BY <1>6 DEF Revert, S
  <2>5. release' = release /\ stage' = stage /\ stage # "serving"
    BY <1>6 DEF Revert
  <2>6. CASE schema' = S /\ executed' = executed - 1
    <3>1. IsSchema(schema)'
      BY <2>3, <2>6
    <3> QED
      BY <2>1, <2>3, <2>5, <2>6, <3>1 DEF SchemaInv
  <2>7. CASE UNCHANGED <<schema, executed>>
    BY <2>5, <2>7 DEF SchemaInv, IsSchema
  <2> QED
    BY <2>4, <2>6, <2>7
<1>7. CASE UNCHANGED schemaVars
  BY <1>7 DEF schemaVars, SchemaInv, IsSchema
<1> QED
  BY <1>1, <1>2, <1>3, <1>4, <1>5, <1>6, <1>7 DEF SchemaNext

LEMMA SchemaInvAlways == SchemaSpec => []SchemaInv
<1> QED
  BY SchemaInvInitially, SchemaInvKept, PTL DEF SchemaSpec

\* Whatever database a release finds and whatever was reverted, neither the pending
\* migrations nor the synchronisation of a start drop data of a column the entities have.
THEOREM SchemaStartsKeepData == SchemaSpec => StartsKeepData
<1> DEFINE Keeps == RunMigrations \/ Synchronize => schema.rows \cap EntityColumns \subseteq schema'.rows
<1>1. SchemaInv /\ [SchemaNext]_schemaVars => [Keeps]_schemaVars
  <2> SUFFICES ASSUME SchemaInv, RunMigrations \/ Synchronize
               PROVE  schema.rows \cap EntityColumns \subseteq schema'.rows
    OBVIOUS
  <2>1. CASE RunMigrations
    <3>1. Execute(schema, Ups(executed, release)).ok =>
            schema.rows \cap EntityColumns \subseteq Execute(schema, Ups(executed, release)).rows
      BY UpsKeepData DEF SchemaInv
    <3> QED
      BY <2>1, <3>1 DEF RunMigrations
  <2>2. CASE Synchronize
    <3>1. schema.rows \cap EntityColumns \subseteq Synchronised(schema).rows
      BY SynchronisedIs DEF SchemaInv
    <3> QED
      BY <2>2, <3>1 DEF Synchronize
  <2> QED
    BY <2>1, <2>2
<1> QED
  BY <1>1, SchemaInvAlways, PTL DEF SchemaSpec, StartsKeepData

------------------------------------------------------------------------------
(***************************************************************************)
(* What a statement does to tables, columns, indexes and references.       *)
(***************************************************************************)

Making == {"create", "create if tables"}
Widening == {"add if table", "add missing", "add new"}
Narrowing == {"drop columns", "drop existing"}
Rewriting == {"translate", "untranslate"}
Referring == {"reference", "reference once", "reference if tables"}
Dropping(S, st) == st.do = "drop table" \/ (st.do = "drop old profiles" /\ ~S.uuid)

\* A statement that needs tables finds them.
Allowed(S, st) == st.do = "create if tables" => st.to \subseteq S.tables

\* What the foreign keys a statement makes refer to.
Aims(st, u) ==
  \/ st.do \in Making /\ u \in st.to
  \/ st.do \in Referring /\ u = st.to
  \/ st.do = "rekey" /\ u = "users"

\* What the foreign keys a statement makes belong to.
Bears(st, r) ==
  \/ r.table = st.table /\ (st.do \in {"reference", "reference once"} => r.name = Generated)
  \/ st.do = "rekey" /\ r.table \in Related

\* The indexes a statement makes.
Lays(st, i) ==
  \/ st.do = "index" /\ i = <<st.table, st.name>>
  \/ st.do = "add if table" /\ i \in {st.table} \X st.idx

\* Columns, indexes and foreign keys are those of tables that are there.
Housed(S) == \A c \in S.cols : c[1] \in S.tables /\ c = <<c[1], c[2]>>
Anchored(S) == (\A i \in S.idx : i[1] \in S.tables) /\ (\A r \in S.refs : r.table \in S.tables)

\* Questions and answers have one type.
OneType(S, t) == ~(<<t, AsJson>> \in S.cols /\ <<t, AsBinaryJson>> \in S.cols)

MovesTables(S, st, E) ==
  /\ \A t \in E.tables : t \in S.tables \/ (t = st.table /\ st.do \in Making /\ Allowed(S, st))
  /\ \A t \in S.tables : t \in E.tables \/ (t = st.table /\ Dropping(S, st))
  /\ E.ok => /\ st.do = "drop table" => st.table \notin E.tables
             /\ st.do = "create" => st.table \in E.tables
             /\ st.do = "create if tables" /\ st.to \subseteq S.tables => st.table \in E.tables

MovesColumns(S, st, E) ==
  /\ \A c \in E.cols : \/ c \in S.cols
                       \/ /\ st.do \in Making /\ st.table \notin S.tables
                          /\ c \in {st.table} \X (st.cols \cup {Rest})
                       \/ st.do \in Widening /\ c \in {st.table} \X st.cols
                       \/ st.do \in Rewriting /\ c \in {st.table} \X {AsText, AsBinaryJson}
  /\ \A c \in S.cols : \/ c \in E.cols
                       \/ st.do \in Narrowing /\ c \in {st.table} \X st.cols
                       \/ Dropping(S, st) /\ c[1] = st.table /\ st.table \notin E.tables
                       \/ st.do \in Rewriting /\ c \in {st.table} \X {AsText, AsJson, AsBinaryJson}
  /\ st.do \in Making /\ st.table \in E.tables /\ st.table \notin S.tables =>
       {st.table} \X (st.cols \cup {Rest}) \subseteq E.cols
  /\ E.ok => /\ st.do \in Widening /\ st.table \in S.tables => {st.table} \X st.cols \subseteq E.cols
             /\ st.do \in Narrowing => \A c \in {st.table} \X st.cols : c \notin E.cols
             /\ st.do = "translate" => <<st.table, AsJson>> \notin E.cols
             /\ st.do = "untranslate" /\ OneType(S, st.table) => <<st.table, AsJson>> \notin E.cols
  /\ \A c \in E.rows : c \in S.rows \/ (st.do \in Rewriting /\ c[1] = st.table)

MovesLinks(S, st, E) ==
  /\ \A i \in E.idx : \/ i \in S.idx
                      \/ st.do = "index" /\ i = <<st.table, st.name>>
                      \/ st.do = "add if table" /\ i \in {st.table} \X st.idx
                         /\ st.table \in S.tables /\ ~ st.cols \subseteq ColumnsOf(S, st.table)
  /\ \A r \in E.refs : r \in S.refs \/ (Aims(st, r.to) /\ Bears(st, r))
  /\ Anchored(S) /\ (st.do = "reference once" => st.table \in S.tables) => Anchored(E)

Moves(S, st, E) ==
  /\ MovesTables(S, st, E) /\ MovesColumns(S, st, E) /\ MovesLinks(S, st, E)
  /\ Housed(E)
  /\ E.uuid = S.uuid \/ st.do = "rekey"

LEMMA OfItsTable ==
  \A st : \A c \in {st.table} \X st.cols : c[1] = st.table /\ c = <<c[1], c[2]>>
OBVIOUS

\* A schema that differs in what it says of failures only.
LEMMA FailureMovesNothing ==
  ASSUME NEW S, NEW st, NEW E, Housed(S), ~E.ok, E.tables = S.tables, E.cols = S.cols, E.rows = S.rows,
         E.idx = S.idx, E.refs = S.refs, E.uuid = S.uuid
  PROVE  Moves(S, st, E)
<1>1. MovesTables(S, st, E)
  BY DEF MovesTables
<1>2. MovesColumns(S, st, E)
  BY DEF MovesColumns
<1>3. MovesLinks(S, st, E)
  BY DEF MovesLinks, Anchored
<1> QED
  BY <1>1, <1>2, <1>3 DEF Moves, Housed

\* A statement that makes a table, with its columns and foreign keys.
LEMMA MakingMoves ==
  ASSUME NEW S, NEW st, NEW E, Housed(S), st.do \in Making, st.table \notin S.tables,
         Allowed(S, st),
         E.tables = S.tables \cup {st.table}, E.cols = S.cols \cup ({st.table} \X (st.cols \cup {Rest})),
         E.rows = S.rows, E.idx = S.idx, E.uuid = S.uuid,
         E.refs = S.refs \cup {Ref(st.table, "named", u) : u \in st.to}
  PROVE  Moves(S, st, E)
<1>0. /\ st.do \notin Widening /\ st.do \notin Narrowing /\ st.do \notin Rewriting /\ ~Dropping(S, st)
      /\ st.do \notin {"translate", "untranslate", "drop table", "reference once", "reference"}
  BY DEF Making, Widening, Narrowing, Rewriting, Dropping
<1>1. MovesTables(S, st, E)
  BY <1>0 DEF MovesTables
<1>2. MovesColumns(S, st, E)
  BY <1>0 DEF MovesColumns
<1>3. \A r \in E.refs : r \in S.refs \/ (r.to \in st.to /\ r.table = st.table)
  BY DEF Ref
<1>4. MovesLinks(S, st, E)
  BY <1>3, <1>0 DEF MovesLinks, Aims, Anchored, Bears
<1>5. Housed(E)
  BY DEF Housed
<1> QED
  BY <1>1, <1>2, <1>4, <1>5 DEF Moves

\* A statement that adds columns to a table.
LEMMA WideningMoves ==
  ASSUME NEW S, NEW st, NEW E, Housed(S), st.do \in Widening, st.table \in S.tables,
         E.tables = S.tables \cup {st.table}, E.cols = S.cols \cup ({st.table} \X st.cols),
         E.rows = S.rows, E.uuid = S.uuid, E.refs = S.refs,
         \/ E.idx = S.idx
         \/ st.do = "add if table" /\ ~ st.cols \subseteq ColumnsOf(S, st.table) /\ E.idx = S.idx \cup ({st.table} \X st.idx)
  PROVE  Moves(S, st, E)
<1>0. /\ st.do \notin Making /\ st.do \notin Narrowing /\ st.do \notin Rewriting /\ ~Dropping(S, st)
      /\ st.do \notin {"create", "create if tables", "translate", "untranslate", "drop table", "reference once"}
  BY DEF Making, Widening, Narrowing, Rewriting, Dropping
<1>1. MovesTables(S, st, E)
  BY <1>0 DEF MovesTables
<1>2. MovesColumns(S, st, E)
  BY <1>0 DEF MovesColumns
<1>3. MovesLinks(S, st, E)
  <2>1. \A i \in E.idx : \/ i \in S.idx
                         \/ /\ st.do = "add if table" /\ i \in {st.table} \X st.idx
                            /\ ~ st.cols \subseteq ColumnsOf(S, st.table)
    OBVIOUS
  <2>2. Anchored(S) => Anchored(E)
    BY <2>1 DEF Anchored
  <2> QED
    BY <2>1, <2>2 DEF MovesLinks
<1>4. Housed(E)
  <2>1. \A c \in E.cols : c \in S.cols \/ c \in {st.table} \X st.cols
    OBVIOUS
  <2>2. \A c \in {st.table} \X st.cols : c[1] = st.table /\ c = <<c[1], c[2]>>
    BY OfItsTable, Zenon
  <2> QED
    BY <2>1, <2>2 DEF Housed
<1> QED
  BY <1>1, <1>2, <1>3, <1>4 DEF Moves

\* A statement that drops columns, and perhaps indexes with them.
LEMMA NarrowingMoves ==
  ASSUME NEW S, NEW st, NEW E, Housed(S), st.do \in Narrowing,
         E.tables = S.tables, E.cols = S.cols \ ({st.table} \X st.cols),
         E.rows \subseteq S.rows, E.uuid = S.uuid, E.refs = S.refs, E.idx \subseteq S.idx
  PROVE  Moves(S, st, E)
<1>0. /\ st.do \notin Making /\ st.do \notin Widening /\ st.do \notin Rewriting /\ ~Dropping(S, st)
      /\ st.do \notin {"create", "create if tables", "translate", "untranslate", "drop table", "reference once"}
  BY DEF Making, Widening, Narrowing, Rewriting, Dropping
<1>1. MovesTables(S, st, E)
  BY <1>0 DEF MovesTables
<1>2. MovesColumns(S, st, E)
  BY <1>0 DEF MovesColumns
<1>3. MovesLinks(S, st, E)
  BY DEF MovesLinks, Anchored
<1>4. Housed(E)
  BY DEF Housed
<1> QED
  BY <1>1, <1>2, <1>3, <1>4 DEF Moves

\* A statement that drops a table.
LEMMA DroppingMoves ==
  ASSUME NEW S, NEW st, NEW E, Housed(S), Dropping(S, st),
         E.tables = S.tables \ {st.table}, E.cols = {c \in S.cols : c[1] # st.table},
         E.rows \subseteq S.rows, E.uuid = S.uuid, \A i \in E.idx : i \in S.idx /\ i[1] # st.table,
         \A r \in E.refs : r \in S.refs /\ r.table # st.table
  PROVE  Moves(S, st, E)
<1>0. /\ st.do \notin Making /\ st.do \notin Widening /\ st.do \notin Rewriting /\ st.do \notin Narrowing
      /\ st.do \notin {"create", "create if tables", "translate", "untranslate", "reference once"}
  BY DEF Making, Widening, Narrowing, Rewriting, Dropping
<1>1. MovesTables(S, st, E)
  BY <1>0 DEF MovesTables
<1>2. MovesColumns(S, st, E)
  BY <1>0 DEF MovesColumns
<1>3. MovesLinks(S, st, E)
  BY DEF MovesLinks, Anchored
<1>4. Housed(E)
  BY DEF Housed
<1> QED
  BY <1>1, <1>2, <1>3, <1>4 DEF Moves

\* A statement that makes or drops indexes or foreign keys only, or nothing.
LEMMA LinkingMoves ==
  ASSUME NEW S, NEW st, NEW E, Housed(S),
         E.tables = S.tables, E.cols = S.cols, E.rows = S.rows,
         \A i \in E.idx : \/ i \in S.idx
                          \/ st.do = "index" /\ i = <<st.table, st.name>> /\ st.table \in S.tables,
         \A r \in E.refs : \/ r \in S.refs
                           \/ /\ Aims(st, r.to) /\ Bears(st, r)
                              /\ r.table \in S.tables \/ (st.do = "reference once" /\ r.table = st.table),
         E.uuid = S.uuid \/ st.do = "rekey",
         st.do \in Making => st.table \in S.tables \/ (st.do = "create if tables" /\ ~ st.to \subseteq S.tables),
         st.do \in Widening => st.do = "add if table" /\ st.table \notin S.tables,
         st.do \notin Narrowing, st.do # "drop table",
         st.do = "translate" => <<st.table, AsJson>> \notin S.cols,
         st.do = "untranslate" => <<st.table, AsJson>> \notin S.cols
  PROVE  Moves(S, st, E)
<1>1. MovesTables(S, st, E)
  BY DEF MovesTables, Making
<1>2. MovesColumns(S, st, E)
  BY DEF MovesColumns
<1>3. MovesLinks(S, st, E)
  <2>1. ASSUME Anchored(S), st.do = "reference once" => st.table \in S.tables PROVE Anchored(E)
    <3>1. \A i \in E.idx : i[1] \in E.tables
      <4> SUFFICES ASSUME NEW i \in E.idx PROVE i[1] \in S.tables
        OBVIOUS
      <4>1. CASE i \in S.idx
        BY <2>1, <4>1 DEF Anchored
      <4>2. CASE i = <<st.table, st.name>> /\ st.table \in S.tables
        BY <4>2
      <4> QED
        BY <4>1, <4>2
    <3>2. \A r \in E.refs : r.table \in E.tables
      BY <2>1 DEF Anchored
    <3> QED
      BY <3>1, <3>2 DEF Anchored
  <2> QED
    BY <2>1 DEF MovesLinks
<1> QED
  BY <1>1, <1>2, <1>3 DEF Moves, Housed

\* Questions and answers of another type.
LEMMA RewritingMoves ==
  ASSUME NEW S, NEW st, NEW E, NEW from, NEW to, Housed(S), st.do \in Rewriting,
         from \in {AsText, AsBinaryJson, AsJson}, to \in {AsText, AsBinaryJson}, from # to,
         <<st.table, from>> \in S.cols,
         E.tables = S.tables \cup {st.table}, E.cols = (S.cols \cup {<<st.table, to>>}) \ {<<st.table, from>>},
         E.rows \subseteq S.rows \cup {<<st.table, to>>}, E.uuid = S.uuid, E.refs = S.refs, E.idx = S.idx,
         from # AsJson => /\ st.do = "translate" => <<st.table, AsJson>> \notin S.cols
                          /\ st.do = "untranslate" => from = AsBinaryJson
  PROVE  Moves(S, st, E)
<1>0. /\ st.do \notin Making /\ st.do \notin Widening /\ st.do \notin Narrowing /\ ~Dropping(S, st)
      /\ st.do \notin {"create", "create if tables", "drop table", "reference once", "index", "add if table"}
  BY DEF Making, Widening, Narrowing, Rewriting, Dropping
<1>1. st.table \in S.tables
  BY DEF Housed
<1>2. MovesTables(S, st, E)
  BY <1>0, <1>1 DEF MovesTables
<1>3. AsJson # AsText /\ AsJson # AsBinaryJson
  BY DEF AsJson, AsText, AsBinaryJson
<1>4. MovesColumns(S, st, E)
  <2>1. \A c \in E.cols : c \in S.cols \/ c \in {st.table} \X {AsText, AsBinaryJson}
    OBVIOUS
  <2>2. \A c \in S.cols : c \in E.cols \/ c \in {st.table} \X {AsText, AsJson, AsBinaryJson}
    OBVIOUS
  <2>3. \A c \in E.rows : c \in S.rows \/ c[1] = st.table
    OBVIOUS
  <2>4. st.do = "translate" => <<st.table, AsJson>> \notin E.cols
    <3>1. CASE from = AsJson
      BY <3>1, <1>3
    <3>2. CASE from # AsJson
      BY <3>2, <1>3
    <3> QED
      BY <3>1, <3>2
  <2>5. st.do = "untranslate" /\ OneType(S, st.table) => <<st.table, AsJson>> \notin E.cols
    <3>1. CASE from = AsJson
      BY <3>1, <1>3
    <3>2. CASE from # AsJson
      BY <3>2, <1>3 DEF OneType
    <3> QED
      BY <3>1, <3>2
  <2> QED
    BY <1>0, <2>1, <2>2, <2>3, <2>4, <2>5 DEF MovesColumns
<1>5. MovesLinks(S, st, E)
  BY <1>0, <1>1 DEF MovesLinks, Anchored
<1>6. Housed(E)
  BY <1>1 DEF Housed
<1> QED
  BY <1>2, <1>4, <1>5, <1>6 DEF Moves

LEMMA EffectMoves ==
  ASSUME NEW S, NEW st, IsSchema(S), Housed(S), S.ok, ~Fails(S, st)
  PROVE  Moves(S, st, Effect(S, st))
<1> DEFINE t == st.table
           E == Effect(S, st)
<1> SUFFICES Moves(S, st, E)
  OBVIOUS
<1>1. CASE t \notin S.tables /\ (st.do = "create" \/ (st.do = "create if tables" /\ st.to \subseteq S.tables))
  <2> DEFINE A == Added(S, t, st.cols \cup {Rest})
  <2>1. E = [A EXCEPT !.refs = @ \cup {Ref(t, "named", u) : u \in st.to}]
    BY <1>1 DEF Effect
  <2>2. /\ IsSchema(A) /\ A.tables = S.tables \cup {t} /\ A.cols = S.cols \cup ({t} \X (st.cols \cup {Rest}))
        /\ A.rows = S.rows /\ A.idx = S.idx /\ A.uuid = S.uuid /\ A.refs = S.refs
    BY AddedIs DEF Added, IsSchema, Fields
  <2> HIDE DEF A, E
  <2>3. /\ E.tables = A.tables /\ E.cols = A.cols /\ E.rows = A.rows /\ E.idx = A.idx /\ E.uuid = A.uuid
        /\ E.refs = A.refs \cup {Ref(t, "named", u) : u \in st.to}
    BY <2>1, <2>2 DEF IsSchema, Fields
  <2> QED
    BY <1>1, <2>2, <2>3, MakingMoves DEF Making, Allowed
<1>2. CASE st.do = "add if table" /\ t \in S.tables
  <2> DEFINE A == Added(S, t, st.cols)
  <2>1. E = [A EXCEPT !.idx = IF st.cols \subseteq ColumnsOf(S, t) THEN @ ELSE @ \cup ({t} \X st.idx)]
    BY <1>2 DEF Effect
  <2>2. /\ IsSchema(A) /\ A.tables = S.tables \cup {t} /\ A.cols = S.cols \cup ({t} \X st.cols)
        /\ A.rows = S.rows /\ A.idx = S.idx /\ A.uuid = S.uuid /\ A.refs = S.refs
    BY AddedIs DEF Added, IsSchema, Fields
  <2> HIDE DEF A, E
  <2>3. /\ E.tables = A.tables /\ E.cols = A.cols /\ E.rows = A.rows /\ E.refs = A.refs /\ E.uuid = A.uuid
        /\ E.idx = IF st.cols \subseteq ColumnsOf(S, t) THEN A.idx ELSE A.idx \cup ({t} \X st.idx)
    BY <2>1, <2>2 DEF IsSchema, Fields
  <2> QED
    BY <1>2, <2>2, <2>3, WideningMoves DEF Widening
<1>3. CASE st.do \in {"add missing", "add new"}
  <2>1. E = Added(S, t, st.cols)
    BY <1>3 DEF Effect
  <2>2. t \in S.tables
    BY <1>3 DEF Fails
  <2> HIDE DEF E
  <2>3. /\ E.tables = S.tables \cup {t} /\ E.cols = S.cols \cup ({t} \X st.cols)
        /\ E.rows = S.rows /\ E.idx = S.idx /\ E.uuid = S.uuid /\ E.refs = S.refs
    BY <2>1 DEF Added, IsSchema, Fields
  <2> QED
    BY <1>3, <2>2, <2>3, WideningMoves DEF Widening
<1>4. CASE st.do \in {"drop columns", "drop existing"}
  <2>1. E = Without(S, t, st.cols)
    BY <1>4 DEF Effect
  <2> HIDE DEF E
  <2>2. /\ E.tables = S.tables /\ E.cols = S.cols \ ({t} \X st.cols)
        /\ E.rows \subseteq S.rows /\ E.idx \subseteq S.idx /\ E.uuid = S.uuid /\ E.refs = S.refs
    BY <2>1 DEF Without, IsSchema, Fields
  <2> QED
    BY <1>4, <2>2, NarrowingMoves DEF Narrowing
<1>5. CASE Dropping(S, st) /\ E = WithoutTable(S, t)
  <2> DEFINE W == Without(S, t, ColumnsOf(S, t))
  <2>1. E = [W EXCEPT !.tables = @ \ {t}, !.astray = @ \ {t},
          !.idx = {i \in @ : i[1] # t}, !.refs = {r \in @ : r.table # t /\ r.to # t}]
    BY <1>5 DEF WithoutTable
  <2>2. /\ IsSchema(W) /\ W.tables = S.tables /\ W.cols = S.cols \ ({t} \X ColumnsOf(S, t))
        /\ W.rows \subseteq S.rows /\ W.idx \subseteq S.idx /\ W.uuid = S.uuid /\ W.refs = S.refs
    BY WithoutIs DEF Without, IsSchema, Fields
  <2>3. W.cols = {c \in S.cols : c[1] # t}
    <3>1. \A c \in S.cols : c[1] = t => c[2] \in ColumnsOf(S, t)
      BY DEF ColumnsOf
    <3>2. \A c \in S.cols : c = <<c[1], c[2]>>
      BY DEF Housed
    <3>3. \A c \in S.cols : c \in {t} \X ColumnsOf(S, t) <=> c[1] = t
      BY <3>1, <3>2
    <3> QED
      BY <2>2, <3>3
  <2> HIDE DEF W, E
  <2>4. /\ E.tables = W.tables \ {t} /\ E.cols = W.cols /\ E.rows = W.rows /\ E.uuid = W.uuid
        /\ E.idx = {i \in W.idx : i[1] # t} /\ E.refs = {r \in W.refs : r.table # t /\ r.to # t}
    BY <2>1, <2>2 DEF IsSchema, Fields
  <2>5. \A i \in E.idx : i \in S.idx /\ i[1] # t
    BY <2>2, <2>4
  <2>6. \A r \in E.refs : r \in S.refs /\ r.table # t
    BY <2>2, <2>4
  <2>7. E.tables = S.tables \ {t} /\ E.cols = {c \in S.cols : c[1] # t} /\ E.rows \subseteq S.rows /\ E.uuid = S.uuid
    BY <2>2, <2>3, <2>4
  <2> QED
    BY <1>5, <2>5, <2>6, <2>7, DroppingMoves
<1>6. CASE st.do = "drop table" \/ (st.do = "drop old profiles" /\ "users" \in S.tables /\ ~S.uuid)
  <2>1. E = WithoutTable(S, t)
    BY <1>6 DEF Effect
  <2> HIDE DEF E
  <2> QED
    BY <1>5, <1>6, <2>1 DEF Dropping
<1>7. CASE \/ st.do \in {"index", "drop index", "reference", "drop reference", "rekey"}
           \/ st.do = "reference once" /\ \A r \in S.refs : r.table # t \/ r.to # st.to
           \/ st.do = "reference if tables" /\ {t, st.to} \subseteq S.tables
  <2>0. /\ st.do \notin Making /\ st.do \notin Widening /\ st.do \notin Narrowing
        /\ st.do \notin {"drop table", "translate", "untranslate"}
    BY <1>7 DEF Making, Widening, Narrowing
  <2>1. /\ st.do = "index" => E = [S EXCEPT !.idx = @ \cup {<<t, st.name>>}]
        /\ st.do = "drop index" => E = [S EXCEPT !.idx = @ \ {<<t, st.name>>}]
        /\ st.do \in {"reference", "reference once"} => E = [S EXCEPT !.refs = @ \cup {Ref(t, Generated, st.to)}]
        /\ st.do = "reference if tables" => E = [S EXCEPT !.refs = @ \cup {Ref(t, "named", st.to)}]
        /\ st.do = "drop reference" => E = [S EXCEPT !.refs = {r \in @ : r.table # t \/ r.name # st.name}]
        /\ st.do = "rekey" =>
             E = [S EXCEPT !.uuid = TRUE, !.astray = Stranded(S),
                           !.refs = {r \in @ : r.to # "users"} \cup {Ref(u, "named", "users") : u \in Related \cap S.tables}]
    BY <1>7 DEF Effect
  <2>2. st.do \in {"index", "reference"} => t \in S.tables
    BY DEF Fails
  <2> HIDE DEF E
  <2>3. E.tables = S.tables /\ E.cols = S.cols /\ E.rows = S.rows /\ (E.uuid = S.uuid \/ st.do = "rekey")
    BY <1>7, <2>1 DEF IsSchema, Fields
  <2>4. \A i \in E.idx : i \in S.idx \/ (st.do = "index" /\ i = <<t, st.name>> /\ t \in S.tables)
    <3>1. CASE st.do = "index"
      <4>1. E.idx = S.idx \cup {<<t, st.name>>}
        BY <2>1, <3>1 DEF IsSchema, Fields
      <4> QED
        BY <2>2, <3>1, <4>1
    <3>2. CASE st.do # "index"
      <4>1. E.idx \subseteq S.idx
        BY <1>7, <2>1, <3>2 DEF IsSchema, Fields
      <4> QED
        BY <4>1
    <3> QED
      BY <3>1, <3>2
  <2>5. \A r \in E.refs : \/ r \in S.refs
                          \/ /\ Aims(st, r.to) /\ Bears(st, r)
                             /\ r.table \in S.tables \/ (st.do = "reference once" /\ r.table = t)
    <3>1. CASE st.do \in {"index", "drop index", "drop reference"}
      <4>1. CASE st.do = "drop reference"
        <5>1. E = [S EXCEPT !.refs = {r \in @ : r.table # t \/ r.name # st.name}]
          BY <2>1, <4>1
        <5>2. E.refs = {r \in S.refs : r.table # t \/ r.name # st.name}
          BY <5>1 DEF IsSchema, Fields
        <5> QED
          BY <5>2
      <4>2. CASE st.do = "index"
        <5>1. E = [S EXCEPT !.idx = @ \cup {<<t, st.name>>}]
          BY <2>1, <4>2
        <5>2. E.refs = S.refs
          BY <5>1 DEF IsSchema, Fields
        <5> QED
          BY <5>2
      <4>3. CASE st.do = "drop index"
        <5>1. E = [S EXCEPT !.idx = @ \ {<<t, st.name>>}]
          BY <2>1, <4>3
        <5>2. E.refs = S.refs
          BY <5>1 DEF IsSchema, Fields
        <5> QED
          BY <5>2
      <4> QED
        BY <3>1, <4>1, <4>2, <4>3
    <3>2. CASE st.do \in {"reference", "reference once"}
      <4>1. E.refs = S.refs \cup {Ref(t, Generated, st.to)}
        BY <2>1, <3>2 DEF IsSchema, Fields
      <4>2. /\ Ref(t, Generated, st.to).to = st.to /\ Ref(t, Generated, st.to).table = t
            /\ Ref(t, Generated, st.to).name = Generated
        BY DEF Ref
      <4> QED
        BY <2>2, <3>2, <4>1, <4>2 DEF Aims, Referring, Bears
    <3>3. CASE st.do = "reference if tables"
      <4>1. E.refs = S.refs \cup {Ref(t, "named", st.to)} /\ t \in S.tables
        BY <1>7, <2>1, <3>3 DEF IsSchema, Fields
      <4>2. Ref(t, "named", st.to).to = st.to /\ Ref(t, "named", st.to).table = t
        BY DEF Ref
      <4> QED
        BY <3>3, <4>1, <4>2 DEF Aims, Referring, Bears
    <3>4. CASE st.do = "rekey"
      <4>1. E.refs = {r \in S.refs : r.to # "users"} \cup {Ref(u, "named", "users") : u \in Related \cap S.tables}
        BY <2>1, <3>4 DEF IsSchema, Fields
      <4>2. \A u \in Related \cap S.tables : Ref(u, "named", "users").to = "users" /\ Ref(u, "named", "users").table \in Related \cap S.tables
        BY DEF Ref
      <4> QED
        BY <3>4, <4>1, <4>2 DEF Aims, Bears
    <3> QED
      BY <1>7, <3>1, <3>2, <3>3, <3>4
  <2> QED
    BY <2>0, <2>3, <2>4, <2>5, LinkingMoves
<1>8. ASSUME NEW from \in {AsText, AsBinaryJson, AsJson}, NEW to \in {AsText, AsBinaryJson}, from # to,
             st.do \in Rewriting, E = Retyped(S, t, from, to), <<t, from>> \in S.cols,
             from # AsJson => /\ st.do = "translate" => <<t, AsJson>> \notin S.cols
                              /\ st.do = "untranslate" => from = AsBinaryJson
      PROVE  Moves(S, st, E)
  <2> HIDE DEF E
  <2> DEFINE A == Added(S, t, {to})
             W == Without(A, t, {from})
  <2>1. /\ IsSchema(A) /\ A.tables = S.tables \cup {t} /\ A.cols = S.cols \cup ({t} \X {to})
        /\ A.rows = S.rows /\ A.idx = S.idx /\ A.uuid = S.uuid /\ A.refs = S.refs
    BY AddedIs DEF Added, IsSchema, Fields
  <2>2. LinkColumn # from
    BY <1>8 DEF LinkColumn, AsText, AsBinaryJson, AsJson
  <2> HIDE DEF A
  <2>3. /\ IsSchema(W) /\ W.tables = A.tables /\ W.cols = A.cols \ ({t} \X {from})
        /\ W.rows \subseteq A.rows /\ W.idx = A.idx /\ W.uuid = A.uuid /\ W.refs = A.refs
    <3>1. IsSchema(W)
      BY <2>1, WithoutIs
    <3>2. W = [A EXCEPT !.cols = @ \ ({t} \X {from}), !.rows = @ \ ({t} \X {from}), !.idx = @]
      BY <2>2 DEF Without
    <3> HIDE DEF W
    <3> QED
      BY <2>1, <3>1, <3>2 DEF IsSchema, Fields
  <2>4. E = [W EXCEPT !.rows = IF <<t, from>> \in S.rows THEN @ \cup {<<t, to>>} ELSE @]
    BY <1>8 DEF Retyped, A
  <2> HIDE DEF W
  <2>5. /\ E.tables = W.tables /\ E.cols = W.cols /\ E.rows \subseteq W.rows \cup {<<t, to>>}
        /\ E.idx = W.idx /\ E.uuid = W.uuid /\ E.refs = W.refs
    BY <2>3, <2>4 DEF IsSchema, Fields
  <2>6. E.cols = (S.cols \cup {<<t, to>>}) \ {<<t, from>>}
    BY <2>1, <2>3, <2>5
  <2>7. E.tables = S.tables \cup {t} /\ E.rows \subseteq S.rows \cup {<<t, to>>} /\ E.idx = S.idx /\ E.uuid = S.uuid /\ E.refs = S.refs
    BY <2>1, <2>3, <2>5
  <2> QED
    BY <1>8, <2>6, <2>7, RewritingMoves
<1>9. CASE st.do \in {"translate", "untranslate"}
  <2>0. \A x : x \in ColumnsOf(S, t) <=> <<t, x>> \in S.cols
    BY DEF ColumnsOf, Housed
  <2>1. st.do = "translate" => <<t, AsJson>> \notin S.cols
    BY <2>0 DEF Fails
  <2>2. AsText # AsBinaryJson /\ AsText # AsJson
    BY DEF AsText, AsBinaryJson, AsJson
  <2>3. st.do = "translate" \/ st.do = "untranslate"
    BY <1>9
  <2>4. CASE st.do = "translate" /\ AsText \in ColumnsOf(S, t)
    <3>1. E = Retyped(S, t, AsText, AsBinaryJson)
      BY <2>4 DEF Effect
    <3> HIDE DEF E
    <3> QED
      BY <1>8, <1>9, <2>0, <2>1, <2>2, <2>4, <3>1 DEF Rewriting
  <2>5. CASE st.do = "untranslate" /\ (AsBinaryJson \in ColumnsOf(S, t) \/ AsJson \in ColumnsOf(S, t))
    <3>1. \/ AsBinaryJson \in ColumnsOf(S, t) /\ E = Retyped(S, t, AsBinaryJson, AsText)
          \/ AsJson \in ColumnsOf(S, t) /\ E = Retyped(S, t, AsJson, AsText)
      BY <2>5 DEF Effect
    <3> HIDE DEF E
    <3>2. CASE AsBinaryJson \in ColumnsOf(S, t) /\ E = Retyped(S, t, AsBinaryJson, AsText)
      BY <1>8, <1>9, <2>0, <2>2, <2>5, <3>2 DEF Rewriting
    <3>3. CASE AsJson \in ColumnsOf(S, t) /\ E = Retyped(S, t, AsJson, AsText)
      BY <1>8, <1>9, <2>0, <2>2, <2>5, <3>3 DEF Rewriting
    <3> QED
      BY <3>1, <3>2, <3>3
  <2>7. CASE \/ st.do = "translate" /\ AsText \notin ColumnsOf(S, t)
             \/ st.do = "untranslate" /\ AsBinaryJson \notin ColumnsOf(S, t) /\ AsJson \notin ColumnsOf(S, t)
    <3>1. E = S
      BY <2>7 DEF Effect
    <3> HIDE DEF E
    <3>2. st.do \notin Making /\ st.do \notin Widening /\ st.do \notin Narrowing /\ st.do # "drop table"
      BY <2>7 DEF Making, Widening, Narrowing
    <3>3. st.do = "untranslate" => <<t, AsJson>> \notin S.cols
      BY <2>0, <2>7
    <3> QED
      BY <2>1, <3>1, <3>2, <3>3, LinkingMoves
  <2> QED
    BY <2>3, <2>4, <2>5, <2>7
<1>10. CASE /\ ~(t \notin S.tables /\ (st.do = "create" \/ (st.do = "create if tables" /\ st.to \subseteq S.tables)))
            /\ ~(st.do = "add if table" /\ t \in S.tables)
            /\ st.do \notin {"add missing", "add new", "drop columns", "drop existing", "drop table",
                 "index", "drop index", "reference", "translate", "untranslate", "drop reference", "rekey"}
            /\ ~(st.do = "drop old profiles" /\ "users" \in S.tables /\ ~S.uuid)
            /\ ~(st.do = "reference once" /\ \A r \in S.refs : r.table # t \/ r.to # st.to)
            /\ ~(st.do = "reference if tables" /\ {t, st.to} \subseteq S.tables)
  <2>1. E = S
    BY <1>10 DEF Effect
  <2> HIDE DEF E
  <2>2. st.do \in Making => t \in S.tables \/ (st.do = "create if tables" /\ ~ st.to \subseteq S.tables)
    BY <1>10 DEF Making
  <2>3. st.do \in Widening => st.do = "add if table" /\ t \notin S.tables
    BY <1>10 DEF Widening
  <2>4. st.do \notin Narrowing
    BY <1>10 DEF Narrowing
  <2> QED
    BY <1>10, <2>1, <2>2, <2>3, <2>4, LinkingMoves
<1> HIDE DEF E
<1> QED
  BY <1>1, <1>2, <1>3, <1>4, <1>6, <1>7, <1>9, <1>10, Zenon DEF E

\* Whatever a statement is, this is all it does.
LEMMA ExecMoves ==
  ASSUME NEW S, NEW st, IsSchema(S), Housed(S)
  PROVE  Moves(S, st, Exec(S, st))
<1>1. CASE ~S.ok
  <2>1. Exec(S, st) = S
    BY <1>1 DEF Exec
  <2> QED
    BY <1>1, <2>1, FailureMovesNothing
<1>2. CASE S.ok /\ Fails(S, st)
  <2> DEFINE E == Exec(S, st)
  <2>1. E = [S EXCEPT !.ok = FALSE]
    BY <1>2 DEF Exec
  <2> HIDE DEF E
  <2>2. /\ ~E.ok /\ E.tables = S.tables /\ E.cols = S.cols /\ E.rows = S.rows
        /\ E.idx = S.idx /\ E.refs = S.refs /\ E.uuid = S.uuid
    BY <2>1 DEF IsSchema, Fields
  <2>3. Moves(S, st, E)
    BY <2>2, FailureMovesNothing
  <2> QED
    BY <2>3 DEF E
<1>3. CASE S.ok /\ ~Fails(S, st)
  <2>1. Exec(S, st) = Effect(S, st)
    BY <1>3 DEF Exec
  <2> QED
    BY <1>3, <2>1, EffectMoves
<1> QED
  BY <1>1, <1>2, <1>3

------------------------------------------------------------------------------
(***************************************************************************)
(* What a list of statements does.                                         *)
(***************************************************************************)

LEMMA StepsReach ==
  ASSUME NEW n \in Nat, NEW i \in 0..n, NEW G, i \in G, \A k \in (i + 1)..n : k - 1 \in G => k \in G
  PROVE  n \in G
<1> DEFINE Bad == {k \in i..n : k \notin G}
<1>1. Bad = {}
  <2> SUFFICES ASSUME Bad # {} PROVE FALSE
    OBVIOUS
  <2>1. PICK k \in Bad : \A j \in Bad : k <= j
    <3>1. Bad \subseteq Nat
      OBVIOUS
    <3> HIDE DEF Bad
    <3> QED
      BY <3>1, LeastExists
  <2>2. k \in (i + 1)..n /\ k - 1 \in i..n /\ k - 1 \notin Bad
    BY <2>1
  <2> QED
    BY <2>1, <2>2
<1> QED
  BY <1>1

\* after[k] is what the first k statements of s make of S.
Traces(after, S, s, n) ==
  /\ n \in Nat /\ DOMAIN s = 1..n
  /\ after[0] = S /\ after[n] = Execute(S, s)
  /\ \A k \in 0..n : IsSchema(after[k]) /\ Housed(after[k]) /\ (after[n].ok => after[k].ok)
  /\ \A k \in 1..n : /\ after[k] = Exec(after[k - 1], s[k])
                     /\ Moves(after[k - 1], s[k], after[k]) /\ Strays(after[k - 1], s[k], after[k])

LEMMA ExecuteTraces ==
  ASSUME NEW S, IsSchema(S), Housed(S), NEW s, NEW n \in Nat, DOMAIN s = 1..n
  PROVE  \E after : Traces(after, S, s, n)
<1>1. PICK after : /\ after[0] = S
                   /\ \A k \in 1..n : after[k] = Exec(after[k - 1], s[k])
                   /\ Execute(S, s) = after[n]
  BY ExecuteInSteps
<1>2. ASSUME NEW k \in 1..n, IsSchema(after[k - 1]), Housed(after[k - 1])
      PROVE  /\ IsSchema(after[k]) /\ Moves(after[k - 1], s[k], after[k]) /\ Housed(after[k])
             /\ Strays(after[k - 1], s[k], after[k])
             /\ after[k].ok => after[k - 1].ok
  <2>1. PICK X, st : X = after[k - 1] /\ st = s[k]
    OBVIOUS
  <2>2. /\ IsSchema(Exec(X, st)) /\ (Exec(X, st).ok => X.ok)
        /\ Moves(X, st, Exec(X, st)) /\ Strays(X, st, Exec(X, st))
    BY <1>2, <2>1, ExecIs, ExecMoves
  <2>3. after[k] = Exec(X, st)
    BY <1>1, <2>1
  <2> QED
    BY <2>1, <2>2, <2>3 DEF Moves
<1>3. ASSUME NEW k \in 0..n PROVE IsSchema(after[k]) /\ Housed(after[k])
  <2> DEFINE G == {j \in 0..k : IsSchema(after[j]) /\ Housed(after[j])}
  <2>1. 0 \in G
    BY <1>1
  <2>2. \A j \in (0 + 1)..k : j - 1 \in G => j \in G
    BY <1>2
  <2>3. k \in G
    <3>1. k \in Nat /\ 0 \in 0..k
      OBVIOUS
    <3> HIDE DEF G
    <3> QED
      BY <2>1, <2>2, <3>1, StepsReach
  <2> QED
    BY <2>3
<1>4. ASSUME after[n].ok, NEW k \in 0..n PROVE after[k].ok
  <2> DEFINE G == {j \in 0..(n - k) : after[n - j].ok}
  <2>1. 0 \in G
    BY <1>4
  <2>2. ASSUME NEW j \in (0 + 1)..(n - k), j - 1 \in G PROVE j \in G
    <3>1. n - (j - 1) \in 1..n /\ (n - (j - 1)) - 1 = n - j /\ n - j \in 0..n
      OBVIOUS
    <3>2. PICK i \in 1..n : i = n - (j - 1) /\ i - 1 = n - j /\ i - 1 \in 0..n
      BY <3>1
    <3>3. after[i].ok
      BY <2>2, <3>2
    <3>4. after[i - 1].ok
      BY <1>2, <1>3, <3>2, <3>3
    <3> QED
      BY <3>2, <3>4
  <2>3. n - k \in G
    <3>1. n - k \in Nat /\ 0 \in 0..(n - k)
      OBVIOUS
    <3> HIDE DEF G
    <3> QED
      BY <2>1, <2>2, <3>1, StepsReach
  <2>4. n - (n - k) = k
    OBVIOUS
  <2> QED
    BY <2>3, <2>4
<1>5. \A k \in 1..n : k - 1 \in 0..n
  OBVIOUS
<1>6. Traces(after, S, s, n)
  BY <1>1, <1>2, <1>3, <1>4, <1>5 DEF Traces
<1> QED
  BY <1>6

\* Statements that do not drop a table, that keep a column with its table, that do not add it.
Leaves(st, t) == st.table = t => st.do \notin {"drop table", "drop old profiles"}
Spares(st, c) ==
  /\ st.do \in Making /\ st.table = c[1] => c[2] \in st.cols \cup {Rest}
  /\ st.do \in Narrowing => c \notin {st.table} \X st.cols
  /\ st.do \in Rewriting => c[2] \notin {AsText, AsJson, AsBinaryJson}
Withholds(st, c) ==
  /\ st.do \in Making => c \notin {st.table} \X (st.cols \cup {Rest})
  /\ st.do \in Widening => c \notin {st.table} \X st.cols
  /\ st.do \in Rewriting => c \notin {st.table} \X {AsText, AsBinaryJson}

\* The column is there if its table is.
Whole(S, c) == c[1] \in S.tables => c \in S.cols

LEMMA TableStays ==
  ASSUME NEW after, NEW S, NEW s, NEW n, Traces(after, S, s, n), NEW t, NEW i \in 0..n, NEW m \in i..n,
         t \in after[i].tables, \A k \in (i + 1)..m : Leaves(s[k], t)
  PROVE  t \in after[m].tables
<1> DEFINE G == {k \in i..m : t \in after[k].tables}
<1>1. n \in Nat /\ m \in Nat /\ i \in 0..m /\ i \in G
  BY DEF Traces
<1>2. ASSUME NEW k \in (i + 1)..m, k - 1 \in G PROVE k \in G
  <2>1. k \in 1..n /\ k \in i..m
    BY <1>1
  <2>2. MovesTables(after[k - 1], s[k], after[k])
    BY <2>1 DEF Traces, Moves
  <2>3. t = s[k].table => ~Dropping(after[k - 1], s[k])
    BY DEF Leaves, Dropping
  <2> QED
    BY <1>2, <2>1, <2>2, <2>3 DEF MovesTables
<1> HIDE DEF G
<1>3. m \in G
  BY <1>1, <1>2, StepsReach
<1> QED
  BY <1>3 DEF G

LEMMA TableArrives ==
  ASSUME NEW after, NEW S, NEW s, NEW n, Traces(after, S, s, n), NEW t, NEW i \in 0..n,
         t \in after[i].tables, \A k \in (i + 1)..n : Leaves(s[k], t)
  PROVE  t \in Execute(S, s).tables
<1>1. n \in i..n /\ after[n] = Execute(S, s)
  BY DEF Traces
<1>2. t \in after[n].tables
  BY <1>1, TableStays
<1> QED
  BY <1>1, <1>2

LEMMA TableStaysAway ==
  ASSUME NEW after, NEW S, NEW s, NEW n, Traces(after, S, s, n), NEW t, NEW i \in 0..n,
         t \notin after[i].tables, \A k \in (i + 1)..n : s[k].do \in Making => s[k].table # t
  PROVE  t \notin Execute(S, s).tables
<1> DEFINE G == {k \in i..n : t \notin after[k].tables}
<1>1. n \in Nat /\ i \in G
  BY DEF Traces
<1>2. ASSUME NEW k \in (i + 1)..n, k - 1 \in G PROVE k \in G
  <2>1. k \in 1..n /\ k \in i..n
    OBVIOUS
  <2>2. MovesTables(after[k - 1], s[k], after[k])
    BY <2>1 DEF Traces, Moves
  <2> QED
    BY <1>2, <2>1, <2>2 DEF MovesTables
<1> HIDE DEF G
<1>3. n \in G
  BY <1>1, <1>2, StepsReach
<1> QED
  BY <1>3 DEF G, Traces

LEMMA ColumnArrives ==
  ASSUME NEW after, NEW S, NEW s, NEW n, Traces(after, S, s, n), NEW c, c = <<c[1], c[2]>>, NEW i \in 0..n,
         Whole(after[i], c), \A k \in (i + 1)..n : Spares(s[k], c)
  PROVE  Whole(Execute(S, s), c)
<1> DEFINE G == {k \in i..n : Whole(after[k], c)}
<1>1. n \in Nat /\ i \in G
  BY DEF Traces
<1>2. ASSUME NEW k \in (i + 1)..n, k - 1 \in G PROVE k \in G
  <2>1. k \in 1..n /\ k \in i..n
    OBVIOUS
  <2>2. PICK X, st, E : X = after[k - 1] /\ st = s[k] /\ E = after[k]
    OBVIOUS
  <2>3. MovesTables(X, st, E) /\ MovesColumns(X, st, E) /\ Spares(st, c) /\ Whole(X, c)
    BY <1>2, <2>1, <2>2 DEF Traces, Moves
  <2>4. ASSUME c[1] \in E.tables PROVE c \in E.cols
    <3>1. CASE c[1] \in X.tables
      <4>1. c \in X.cols
        BY <2>3, <3>1 DEF Whole
      <4>2. ~(st.do \in Rewriting /\ c \in {st.table} \X {AsText, AsJson, AsBinaryJson})
        BY <2>3 DEF Spares
      <4>3. ~(st.do \in Narrowing /\ c \in {st.table} \X st.cols)
        BY <2>3 DEF Spares
      <4> QED
        BY <2>3, <2>4, <4>1, <4>2, <4>3 DEF MovesColumns
    <3>2. CASE c[1] \notin X.tables
      <4>1. c[1] = st.table /\ st.do \in Making
        BY <2>3, <2>4, <3>2 DEF MovesTables
      <4>2. c[2] \in st.cols \cup {Rest}
        BY <2>3, <4>1 DEF Spares
      <4>3. {st.table} \X (st.cols \cup {Rest}) \subseteq E.cols
        BY <2>3, <2>4, <3>2, <4>1 DEF MovesColumns
      <4>4. <<c[1], c[2]>> \in {st.table} \X (st.cols \cup {Rest})
        BY <4>1, <4>2
      <4> QED
        BY <4>3, <4>4
    <3> QED
      BY <3>1, <3>2
  <2> QED
    BY <2>1, <2>2, <2>4 DEF Whole
<1> HIDE DEF G
<1>3. n \in G
  BY <1>1, <1>2, StepsReach
<1> QED
  BY <1>3 DEF G, Traces

LEMMA ColumnStaysAway ==
  ASSUME NEW after, NEW S, NEW s, NEW n, Traces(after, S, s, n), NEW c, NEW i \in 0..n,
         c \notin after[i].cols, \A k \in (i + 1)..n : Withholds(s[k], c)
  PROVE  c \notin Execute(S, s).cols
<1> DEFINE G == {k \in i..n : c \notin after[k].cols}
<1>1. n \in Nat /\ i \in G
  BY DEF Traces
<1>2. ASSUME NEW k \in (i + 1)..n, k - 1 \in G PROVE k \in G
  <2>1. k \in 1..n /\ k \in i..n
    OBVIOUS
  <2>2. PICK X, st, E : X = after[k - 1] /\ st = s[k] /\ E = after[k]
    OBVIOUS
  <2>3. MovesColumns(X, st, E) /\ Withholds(st, c) /\ c \notin X.cols
    BY <1>2, <2>1, <2>2 DEF Traces, Moves
  <2>4. c \notin E.cols
    BY <2>3 DEF MovesColumns, Withholds
  <2> QED
    BY <2>1, <2>2, <2>4
<1> HIDE DEF G
<1>3. n \in G
  BY <1>1, <1>2, StepsReach
<1> QED
  BY <1>3 DEF G, Traces

LEMMA RowsComeFrom ==
  ASSUME NEW after, NEW S, NEW s, NEW n, Traces(after, S, s, n), NEW c, c \notin S.rows,
         \A k \in 1..n : s[k].do \in Rewriting => s[k].table # c[1]
  PROVE  c \notin Execute(S, s).rows
<1> DEFINE G == {k \in 0..n : c \notin after[k].rows}
<1>1. n \in Nat /\ 0 \in G /\ 0 \in 0..n
  BY DEF Traces
<1>2. ASSUME NEW k \in (0 + 1)..n, k - 1 \in G PROVE k \in G
  <2>1. k \in 1..n /\ k \in 0..n
    OBVIOUS
  <2>2. MovesColumns(after[k - 1], s[k], after[k])
    BY <2>1 DEF Traces, Moves
  <2> QED
    BY <1>2, <2>1, <2>2 DEF MovesColumns
<1> HIDE DEF G
<1>3. n \in G
  BY <1>1, <1>2, StepsReach
<1> QED
  BY <1>3 DEF G, Traces

LEMMA LinksComeFrom ==
  ASSUME NEW after, NEW S, NEW s, NEW n, Traces(after, S, s, n), NEW m \in 0..n, NEW r \in after[m].refs
  PROVE  r \in S.refs \/ \E k \in 1..m : Aims(s[k], r.to) /\ Bears(s[k], r)
<1> SUFFICES ASSUME r \notin S.refs, \A k \in 1..m : ~(Aims(s[k], r.to) /\ Bears(s[k], r)) PROVE FALSE
  OBVIOUS
<1> DEFINE G == {k \in 0..m : r \notin after[k].refs}
<1>1. n \in Nat /\ m \in Nat /\ 0 \in G /\ 0 \in 0..m
  BY DEF Traces
<1>2. ASSUME NEW k \in (0 + 1)..m, k - 1 \in G PROVE k \in G
  <2>1. k \in 1..n /\ k \in 0..m /\ k \in 1..m
    BY <1>1
  <2>2. MovesLinks(after[k - 1], s[k], after[k])
    BY <2>1 DEF Traces, Moves
  <2> QED
    BY <1>2, <2>1, <2>2 DEF MovesLinks
<1> HIDE DEF G
<1>3. m \in G
  BY <1>1, <1>2, StepsReach
<1> QED
  BY <1>3 DEF G

LEMMA IndexesComeFrom ==
  ASSUME NEW after, NEW S, NEW s, NEW n, Traces(after, S, s, n), NEW m \in 0..n, NEW i \in after[m].idx
  PROVE  i \in S.idx \/ \E k \in 1..m : Lays(s[k], i)
<1> SUFFICES ASSUME i \notin S.idx, \A k \in 1..m : ~Lays(s[k], i) PROVE FALSE
  OBVIOUS
<1> DEFINE G == {k \in 0..m : i \notin after[k].idx}
<1>1. n \in Nat /\ m \in Nat /\ 0 \in G /\ 0 \in 0..m
  BY DEF Traces
<1>2. ASSUME NEW k \in (0 + 1)..m, k - 1 \in G PROVE k \in G
  <2>1. k \in 1..n /\ k \in 0..m /\ k \in 1..m
    BY <1>1
  <2>2. MovesLinks(after[k - 1], s[k], after[k])
    BY <2>1 DEF Traces, Moves
  <2> QED
    BY <1>2, <2>1, <2>2 DEF MovesLinks, Lays
<1> HIDE DEF G
<1>3. m \in G
  BY <1>1, <1>2, StepsReach
<1> QED
  BY <1>3 DEF G

\* Ids that are astray were so before, unless users were given new ones.
LEMMA StraysComeFrom ==
  ASSUME NEW after, NEW S, NEW s, NEW n, Traces(after, S, s, n), NEW m \in 0..n,
         \A k \in 1..n : s[k].do # "rekey"
  PROVE  after[m].astray \subseteq S.astray
<1> DEFINE G == {k \in 0..m : after[k].astray \subseteq S.astray}
<1>1. n \in Nat /\ m \in Nat /\ 0 \in G /\ 0 \in 0..m
  BY DEF Traces
<1>2. ASSUME NEW k \in (0 + 1)..m, k - 1 \in G PROVE k \in G
  <2>1. k \in 1..n /\ k \in 0..m
    BY <1>1
  <2>2. Strays(after[k - 1], s[k], after[k])
    BY <2>1 DEF Traces
  <2>3. after[k].astray \subseteq after[k - 1].astray
    BY <2>1, <2>2 DEF Strays
  <2> QED
    BY <1>2, <2>1, <2>3
<1> HIDE DEF G
<1>3. m \in G
  BY <1>1, <1>2, StepsReach
<1> QED
  BY <1>3 DEF G

\* Only a table that is there is given a foreign key.
Tied(S, st) == st.do = "reference once" => st.table \in S.tables

LEMMA AnchorsHold ==
  ASSUME NEW after, NEW S, NEW s, NEW n, Traces(after, S, s, n), Anchored(S),
         \A k \in 1..n : Tied(after[k - 1], s[k])
  PROVE  Anchored(Execute(S, s))
<1> DEFINE G == {k \in 0..n : Anchored(after[k])}
<1>0. n \in Nat /\ after[0] = S
  BY DEF Traces
<1>1. n \in Nat /\ 0 \in G /\ 0 \in 0..n
  BY <1>0
<1>2. ASSUME NEW k \in (0 + 1)..n, k - 1 \in G PROVE k \in G
  <2>1. k \in 1..n /\ k \in 0..n
    BY <1>0
  <2>2. MovesLinks(after[k - 1], s[k], after[k])
    BY <2>1 DEF Traces, Moves
  <2> QED
    BY <1>2, <2>1, <2>2 DEF MovesLinks, Tied
<1> HIDE DEF G
<1>3. n \in G
  BY <1>1, <1>2, StepsReach
<1> QED
  BY <1>3 DEF G, Traces

\* A list does not fail of which no statement fails.
LEMMA NothingFails ==
  ASSUME NEW after, NEW S, NEW s, NEW n, Traces(after, S, s, n), S.ok,
         \A k \in 1..n : (\A j \in 0..(k - 1) : after[j].ok) => ~Fails(after[k - 1], s[k])
  PROVE  Execute(S, s).ok
<1> DEFINE G == {k \in 0..n : \A j \in 0..k : after[j].ok}
<1>1. n \in Nat /\ 0 \in G /\ 0 \in 0..n
  BY DEF Traces
<1>2. ASSUME NEW k \in (0 + 1)..n, k - 1 \in G PROVE k \in G
  <2>1. k \in 1..n /\ k \in 0..n /\ k - 1 \in 0..(k - 1) /\ k - 1 \in 0..n
    BY <1>1
  <2>2. PICK X, st : X = after[k - 1] /\ st = s[k]
    OBVIOUS
  <2>3. X.ok /\ ~Fails(X, st) /\ IsSchema(X) /\ after[k] = Exec(X, st)
    BY <1>2, <2>1, <2>2 DEF Traces
  <2>4. Effect(X, st).ok = X.ok
    BY <2>3, EffectsAre DEF Does
  <2>5. after[k].ok
    BY <2>3, <2>4 DEF Exec
  <2>6. \A j \in 0..k : j = k \/ j \in 0..(k - 1)
    OBVIOUS
  <2> QED
    BY <1>2, <2>1, <2>5, <2>6
<1> HIDE DEF G
<1>3. n \in G
  BY <1>1, <1>2, StepsReach
<1> QED
  BY <1>1, <1>3 DEF G, Traces

------------------------------------------------------------------------------
(***************************************************************************)
(* The longer lists, statement by statement.                               *)
(***************************************************************************)

IsList(s, k) == s = [i \in 1..k |-> s[i]]
Joins(both, s, t, k, n) ==
  /\ IsList(both, k + n)
  /\ \A i \in 1..k : both[i] = s[i]
  /\ \A i \in 1..n : both[k + i] = t[i]

LEMMA ConcatElements ==
  ASSUME NEW s, NEW t, NEW k \in Nat, NEW n \in Nat, IsList(s, k), IsList(t, n)
  PROVE  Joins(s \o t, s, t, k, n)
<1>1. PICK A : A = Range(s) \cup Range(t)
  OBVIOUS
<1>2. s \in Seq(A) /\ t \in Seq(A) /\ Len(s) = k /\ Len(t) = n
  <2>1. s \in [1..k -> A] /\ t \in [1..n -> A]
    BY <1>1 DEF Range, IsList
  <2>2. s \in Seq(A) /\ t \in Seq(A)
    BY <2>1, SeqDef
  <2> QED
    BY <2>1, <2>2, LenProperties
<1>3. \A i \in 1..(k + n) : (s \o t)[i] = IF i <= k THEN s[i] ELSE t[i - k]
  BY <1>2, ConcatProperties
<1>4. \A i \in 1..k : i \in 1..(k + n) /\ i <= k
  OBVIOUS
<1>5. \A i \in 1..n : k + i \in 1..(k + n) /\ ~(k + i <= k) /\ (k + i) - k = i
  OBVIOUS
<1>6. /\ \A i \in 1..k : (s \o t)[i] = s[i]
      /\ \A i \in 1..n : (s \o t)[k + i] = t[i]
  BY <1>3, <1>4, <1>5
<1> QED
  BY <1>6, ConcatIsSequence DEF IsList, Joins

TokyoNames == {"tokyo_account_data", "tokyo_transaction_history", "tokyo_performance",
               "tokyo_balance_history", "tokyo_equity_history"}
SettingsNames == {"user_settings", "sessions", "login_history"}

LEMMA NamesAre ==
  /\ \A i \in 1..5 : TokyoTables[i] \in TokyoNames
  /\ \A t \in TokyoNames : \E i \in 1..5 : t = TokyoTables[i]
  /\ \A i \in 1..3 : SettingsTables[i] \in SettingsNames
  /\ \A t \in SettingsNames : \E i \in 1..3 : t = SettingsTables[i]
  /\ \A i, j \in 1..5 : TokyoTables[i] = TokyoTables[j] => i = j
  /\ \A i, j \in 1..3 : SettingsTables[i] = SettingsTables[j] => i = j
<1>1. \A i \in 1..5 : i \in {1, 2, 3, 4, 5}
  OBVIOUS
<1>2. \A i \in 1..3 : i \in {1, 2, 3}
  OBVIOUS
<1> QED
  BY <1>1, <1>2 DEF TokyoTables, TokyoNames, SettingsTables, SettingsNames

\* The table and the name of an index.
TokyoIndex(i) == <<TokyoTables[TokyoIndexes[i][1]], TokyoIndexes[i][2]>>
SettingsIndex(i) == <<SettingsTables[SettingsIndexes[i][1]], SettingsIndexes[i][2]>>

LEMMA IndexesAre ==
  /\ \A i \in 1..6 : TokyoIndexes[i][1] \in 1..5 /\ TokyoIndex(i)[1] \in TokyoNames
  /\ \A i \in 1..4 : SettingsIndexes[i][1] \in 1..3 /\ SettingsIndex(i)[1] \in SettingsNames
  /\ \A i, j \in 1..6 : TokyoIndex(i) = TokyoIndex(j) => i = j
  /\ \A i, j \in 1..4 : SettingsIndex(i) = SettingsIndex(j) => i = j
<1>1. \A i \in 1..6 : i \in {1, 2, 3, 4, 5, 6}
  OBVIOUS
<1>2. \A i \in 1..4 : i \in {1, 2, 3, 4}
  OBVIOUS
<1>3. \A i \in 1..6 : TokyoIndexes[i][1] \in 1..5 /\ TokyoIndex(i)[1] \in TokyoNames
  BY <1>1 DEF TokyoIndexes, TokyoIndex, TokyoTables, TokyoNames
<1>4. \A i \in 1..4 : SettingsIndexes[i][1] \in 1..3 /\ SettingsIndex(i)[1] \in SettingsNames
  BY <1>2 DEF SettingsIndexes, SettingsIndex, SettingsTables, SettingsNames
<1>5. /\ TokyoIndex(1) = <<"tokyo_account_data", "updatedAt">>
      /\ TokyoIndex(2) = <<"tokyo_transaction_history", "openTime">>
      /\ TokyoIndex(3) = <<"tokyo_transaction_history", "closeTime">>
      /\ TokyoIndex(4) = <<"tokyo_performance", "updatedAt">>
      /\ TokyoIndex(5) = <<"tokyo_balance_history", "time">>
      /\ TokyoIndex(6) = <<"tokyo_equity_history", "time">>
  BY DEF TokyoIndexes, TokyoIndex, TokyoTables
<1>6. /\ SettingsIndex(1) = <<"sessions", "userId">>
      /\ SettingsIndex(2) = <<"sessions", "token">>
      /\ SettingsIndex(3) = <<"login_history", "userId">>
      /\ SettingsIndex(4) = <<"login_history", "ipAddress">>
  BY DEF SettingsIndexes, SettingsIndex, SettingsTables
<1>7. \A i, j \in 1..6 : TokyoIndex(i) = TokyoIndex(j) => i = j
  BY <1>1, <1>5
<1>8. \A i, j \in 1..4 : SettingsIndex(i) = SettingsIndex(j) => i = j
  BY <1>2, <1>6
<1> QED
  BY <1>3, <1>4, <1>7, <1>8

\* The statements that create the tables of an account's data.
LEMMA TokyoUps ==
  LET up == Release[18].up IN
  /\ DOMAIN up = 1..20
  /\ up[1] = Create("metatrader_accounts", {LinkColumn}, {})
  /\ up[2] = Index("metatrader_accounts", "IDX_metatrader_accounts_userId")
  /\ up[3] = Index("metatrader_accounts", LinkIndex)
  /\ up[4] = ReferenceOnce("metatrader_accounts", "users")
  /\ \A i \in 1..5 : up[4 + i] = Create(TokyoTables[i], {}, {})
  /\ \A i \in 1..5 : up[9 + i] = Reference(TokyoTables[i], "metatrader_accounts")
  /\ \A i \in 1..6 : up[14 + i] = Index(TokyoIndex(i)[1], TokyoIndex(i)[2])
<1> DEFINE a == MetatraderAccounts
           r == TokyoReferences
           x == CreateTokyoIndexes
<1>1. /\ IsList(a, 4)
      /\ a[1] = Create("metatrader_accounts", {LinkColumn}, {})
      /\ a[2] = Index("metatrader_accounts", "IDX_metatrader_accounts_userId")
      /\ a[3] = Index("metatrader_accounts", LinkIndex)
      /\ a[4] = ReferenceOnce("metatrader_accounts", "users")
  BY DEF MetatraderAccounts, IsList
<1>2. /\ IsList(TokyoAccountData, 1)
      /\ IsList(TokyoTransactionHistory, 1)
      /\ IsList(TokyoPerformance, 1)
      /\ IsList(TokyoBalanceHistory, 1)
      /\ IsList(TokyoEquityHistory, 1)
  BY DEF IsList, TokyoAccountData, TokyoTransactionHistory, TokyoPerformance, TokyoBalanceHistory,
       TokyoEquityHistory
<1>3. /\ TokyoAccountData[1] = Create(TokyoTables[1], {}, {})
      /\ TokyoTransactionHistory[1] = Create(TokyoTables[2], {}, {})
      /\ TokyoPerformance[1] = Create(TokyoTables[3], {}, {})
      /\ TokyoBalanceHistory[1] = Create(TokyoTables[4], {}, {})
      /\ TokyoEquityHistory[1] = Create(TokyoTables[5], {}, {})
  BY DEF TokyoAccountData, TokyoTransactionHistory, TokyoPerformance, TokyoBalanceHistory,
       TokyoEquityHistory, TokyoTables
<1>4. IsList(r, 5) /\ \A i \in 1..5 : r[i] = Reference(TokyoTables[i], "metatrader_accounts")
  BY DEF TokyoReferences, IsList
<1>5. IsList(x, 6) /\ \A i \in 1..6 : x[i] = Index(TokyoIndex(i)[1], TokyoIndex(i)[2])
  <2>1. IsList(x, 6) /\ \A i \in 1..6 : x[i] = Index(TokyoTables[TokyoIndexes[i][1]], TokyoIndexes[i][2])
    BY DEF CreateTokyoIndexes, IsList
  <2>2. \A i : TokyoIndex(i)[1] = TokyoTables[TokyoIndexes[i][1]] /\ TokyoIndex(i)[2] = TokyoIndexes[i][2]
    BY DEF TokyoIndex
  <2> QED
    BY <2>1, <2>2
<1>6. Release[18].up = (((((((a \o TokyoAccountData) \o TokyoTransactionHistory) \o TokyoPerformance)
            \o TokyoBalanceHistory) \o TokyoEquityHistory) \o r) \o x)
  BY DEF Release, CreateTokyoDataTables
<1> HIDE DEF a, r, x
<1>7. PICK s1, s2, s3, s4, s5, s6, s7 :
        /\ s1 = a \o TokyoAccountData /\ s2 = s1 \o TokyoTransactionHistory /\ s3 = s2 \o TokyoPerformance
        /\ s4 = s3 \o TokyoBalanceHistory /\ s5 = s4 \o TokyoEquityHistory /\ s6 = s5 \o r /\ s7 = s6 \o x
  OBVIOUS
<1>8. IsList(s1, 5) /\ (\A i \in 1..4 : s1[i] = a[i]) /\ s1[5] = TokyoAccountData[1]
  <2>1. Joins(s1, a, TokyoAccountData, 4, 1)
    BY <1>1, <1>2, <1>7, ConcatElements
  <2> QED
    BY <2>1 DEF Joins
<1>9. IsList(s2, 6) /\ (\A i \in 1..5 : s2[i] = s1[i]) /\ s2[6] = TokyoTransactionHistory[1]
  <2>1. Joins(s2, s1, TokyoTransactionHistory, 5, 1)
    BY <1>8, <1>2, <1>7, ConcatElements
  <2> QED
    BY <2>1 DEF Joins
<1>10. IsList(s3, 7) /\ (\A i \in 1..6 : s3[i] = s2[i]) /\ s3[7] = TokyoPerformance[1]
  <2>1. Joins(s3, s2, TokyoPerformance, 6, 1)
    BY <1>9, <1>2, <1>7, ConcatElements
  <2> QED
    BY <2>1 DEF Joins
<1>11. IsList(s4, 8) /\ (\A i \in 1..7 : s4[i] = s3[i]) /\ s4[8] = TokyoBalanceHistory[1]
  <2>1. Joins(s4, s3, TokyoBalanceHistory, 7, 1)
    BY <1>10, <1>2, <1>7, ConcatElements
  <2> QED
    BY <2>1 DEF Joins
<1>12. IsList(s5, 9) /\ (\A i \in 1..8 : s5[i] = s4[i]) /\ s5[9] = TokyoEquityHistory[1]
  <2>1. Joins(s5, s4, TokyoEquityHistory, 8, 1)
    BY <1>11, <1>2, <1>7, ConcatElements
  <2> QED
    BY <2>1 DEF Joins
<1>13. IsList(s6, 14) /\ (\A i \in 1..9 : s6[i] = s5[i]) /\ \A i \in 1..5 : s6[9 + i] = r[i]
  <2>1. Joins(s6, s5, r, 9, 5)
    BY <1>12, <1>4, <1>7, ConcatElements
  <2> QED
    BY <2>1 DEF Joins
<1>14. IsList(s7, 20) /\ (\A i \in 1..14 : s7[i] = s6[i]) /\ \A i \in 1..6 : s7[14 + i] = x[i]
  <2>1. Joins(s7, s6, x, 14, 6)
    BY <1>13, <1>5, <1>7, ConcatElements
  <2> QED
    BY <2>1 DEF Joins
<1>15. s7 = Release[18].up
  BY <1>6, <1>7, Zenon
<1>16. s7[1] = a[1] /\ s7[2] = a[2] /\ s7[3] = a[3] /\ s7[4] = a[4]
  BY <1>8, <1>9, <1>10, <1>11, <1>12, <1>13, <1>14
<1>17. /\ s7[5] = Create(TokyoTables[1], {}, {}) /\ s7[6] = Create(TokyoTables[2], {}, {})
       /\ s7[7] = Create(TokyoTables[3], {}, {}) /\ s7[8] = Create(TokyoTables[4], {}, {})
       /\ s7[9] = Create(TokyoTables[5], {}, {})
  BY <1>3, <1>8, <1>9, <1>10, <1>11, <1>12, <1>13, <1>14
<1>18. \A i \in 1..5 : s7[4 + i] = Create(TokyoTables[i], {}, {})
  <2>1. \A i \in 1..5 : i = 1 \/ i = 2 \/ i = 3 \/ i = 4 \/ i = 5
    OBVIOUS
  <2> QED
    BY <1>17, <2>1
<1>19. \A i \in 1..5 : s7[9 + i] = r[i]
  <2>1. \A i \in 1..5 : 9 + i \in 1..14
    OBVIOUS
  <2> QED
    BY <1>13, <1>14, <2>1
<1>20. DOMAIN s7 = 1..20
  BY <1>14 DEF IsList
<1> QED
  BY <1>1, <1>4, <1>5, <1>14, <1>15, <1>16, <1>18, <1>19, <1>20 DEF a

LEMMA SettingsUps ==
  LET up == Release[20].up IN
  /\ DOMAIN up = 1..10
  /\ up[1] = Create("user_settings", RetiredSettings, {})
  /\ up[2] = Create("sessions", {}, {})
  /\ up[3] = Create("login_history", {}, {})
  /\ \A i \in 1..3 : up[3 + i] = Reference(SettingsTables[i], "users")
  /\ \A i \in 1..4 : up[6 + i] = Index(SettingsIndex(i)[1], SettingsIndex(i)[2])
<1> DEFINE a == <<Create("user_settings", RetiredSettings, {}), Create("sessions", {}, {}), Create("login_history", {}, {})>>
           r == [i \in 1..3 |-> Reference(SettingsTables[i], "users")]
           x == [i \in 1..4 |-> Index(SettingsTables[SettingsIndexes[i][1]], SettingsIndexes[i][2])]
<1>1. /\ IsList(a, 3)
      /\ a[1] = Create("user_settings", RetiredSettings, {})
      /\ a[2] = Create("sessions", {}, {})
      /\ a[3] = Create("login_history", {}, {})
  BY DEF IsList
<1>2. IsList(r, 3) /\ \A i \in 1..3 : r[i] = Reference(SettingsTables[i], "users")
  BY DEF IsList
<1>3. IsList(x, 4) /\ \A i \in 1..4 : x[i] = Index(SettingsIndex(i)[1], SettingsIndex(i)[2])
  <2>1. \A i : SettingsIndex(i)[1] = SettingsTables[SettingsIndexes[i][1]] /\ SettingsIndex(i)[2] = SettingsIndexes[i][2]
    BY DEF SettingsIndex
  <2> QED
    BY <2>1 DEF IsList
<1>4. Release[20].up = (a \o r) \o x
  BY DEF Release, CreateSettingsTables
<1> HIDE DEF a, r, x
<1>5. PICK s1, s2 : s1 = a \o r /\ s2 = s1 \o x
  OBVIOUS
<1>6. IsList(s1, 6) /\ (\A i \in 1..3 : s1[i] = a[i]) /\ \A i \in 1..3 : s1[3 + i] = r[i]
  <2>1. Joins(s1, a, r, 3, 3)
    BY <1>1, <1>2, <1>5, ConcatElements
  <2> QED
    BY <2>1 DEF Joins
<1>7. IsList(s2, 10) /\ (\A i \in 1..6 : s2[i] = s1[i]) /\ \A i \in 1..4 : s2[6 + i] = x[i]
  <2>1. Joins(s2, s1, x, 6, 4)
    BY <1>6, <1>3, <1>5, ConcatElements
  <2> QED
    BY <2>1 DEF Joins
<1>8. \A i \in 1..3 : s2[i] = a[i] /\ s2[3 + i] = r[i]
  <2>1. \A i \in 1..3 : i \in 1..6 /\ 3 + i \in 1..6
    OBVIOUS
  <2> QED
    BY <1>6, <1>7, <2>1
<1>9. DOMAIN s2 = 1..10 /\ s2 = Release[20].up
  BY <1>4, <1>5, <1>7 DEF IsList
<1> QED
  BY <1>1, <1>2, <1>3, <1>7, <1>8, <1>9

Lists0(s) == DOMAIN s = 1..0
Lists1(s, a) == DOMAIN s = 1..1 /\ s[1] = a
Lists2(s, a, b) == DOMAIN s = 1..2 /\ s[1] = a /\ s[2] = b
Lists3(s, a, b, c) == DOMAIN s = 1..3 /\ s[1] = a /\ s[2] = b /\ s[3] = c

\* The statements of the other migrations.
LEMMA UpsAre ==
  /\ Lists0(Release[1].up)
  /\ Lists1(Release[2].up, Create("users", {}, {}))
  /\ Lists2(Release[3].up, Create("profile", {}, {}), Rekey)
  /\ Lists1(Release[4].up, DropOldProfiles)
  /\ Lists3(Release[5].up, Create("profile", {}, {}), AddIfTable("profile", SocialColumns, {}),
            DropTable("social_media"))
  /\ Lists1(Release[6].up, DropTable("meta_trader_accounts"))
  /\ Lists1(Release[7].up, AddIfTable("profile", {"balance"}, {}))
  /\ Lists1(Release[8].up, AddIfTable("tickets", {"tracking_id"}, {}))
  /\ Lists1(Release[9].up, AddIfTable("payment", {"isTest"}, {}))
  /\ Lists2(Release[10].up, AddIfTable("payment", ProviderColumns, {}), ReferenceIfTables("payment", "marathons"))
  /\ Lists1(Release[11].up, AddIfTable("metatrader_accounts", {LinkColumn}, {LinkIndex}))
  /\ Lists3(Release[12].up, Create("marathons", PrizeColumns \cup {"status"}, {}),
            Create("marathon_participants", CancelColumns, {"marathons", "users"}),
            AddIfTable("marathons", PrizeColumns, {}))
  /\ Lists3(Release[13].up, Create("virtual_wallets", {}, {"users"}),
            Create("virtual_wallet_transactions", {}, {"virtual_wallets"}),
            AddIfTable("marathon_participants", CancelColumns, {}))
  /\ Lists1(Release[14].up, AddMissing("marathons", {"status"}))
  /\ Lists1(Release[15].up, CreateIfTables("withdrawals", {"users", "wallets"}))
  /\ Lists1(Release[16].up, AddMissing("users", {"isBanned"}))
  /\ Lists1(Release[17].up, AddMissing("virtual_wallets", {"isFrozen"}))
  /\ Lists1(Release[19].up, Translate)
  /\ Lists1(Release[21].up, DropIfThere("user_settings", RetiredSettings))
  /\ Lists1(Release[22].up, AddNew("sessions", {"location"}))
  /\ Lists1(Release[23].up, AddIfTable("user_settings", AnnouncementColumns, {}))
  /\ Lists1(Release[24].up, AddMissing("users", BanColumns))
  /\ Lists1(Release[25].up, AddMissing("marathon_participants", {"status"}))
  /\ Lists1(Release[26].up, AddMissing("marathon_participants", {"disqualificationReason"}))
  /\ Lists1(Release[27].up, Create("password_requests", {}, {"marathon_participants", "users"}))
<1> USE DEF Release, Lists0, Lists1, Lists2, Lists3
<1>1. Lists0(Release[1].up)
  BY DEF CreateUserRoleEnum
<1>2. Lists1(Release[2].up, Create("users", {}, {}))
  BY DEF CreateUsersTable
<1>3. Lists2(Release[3].up, Create("profile", {}, {}), Rekey)
  BY DEF UpdateUserAndProfileToUUID
<1>4. Lists1(Release[4].up, DropOldProfiles)
  BY DEF DropUsersAndProfiles
<1>5. Lists3(Release[5].up, Create("profile", {}, {}), AddIfTable("profile", SocialColumns, {}),
             DropTable("social_media"))
  BY DEF AddSocialMediaToProfile
<1>6. Lists1(Release[6].up, DropTable("meta_trader_accounts"))
  BY DEF DropMetaTraderAccounts
<1>7. Lists1(Release[7].up, AddIfTable("profile", {"balance"}, {}))
  BY DEF AddBalanceToProfile
<1>8. Lists1(Release[8].up, AddIfTable("tickets", {"tracking_id"}, {}))
  BY DEF AddTrackingIdToTickets
<1>9. Lists1(Release[9].up, AddIfTable("payment", {"isTest"}, {}))
  BY DEF AddIsTestToPayment
<1>10. Lists2(Release[10].up, AddIfTable("payment", ProviderColumns, {}), ReferenceIfTables("payment", "marathons"))
  BY DEF UpdatePaymentEntityForNowPayments
<1>11. Lists1(Release[11].up, AddIfTable("metatrader_accounts", {LinkColumn}, {LinkIndex}))
  BY DEF AddMarathonParticipantIdToMetaTraderAccounts
<1>12. Lists3(Release[12].up, Create("marathons", PrizeColumns \cup {"status"}, {}),
              Create("marathon_participants", CancelColumns, {"marathons", "users"}),
              AddIfTable("marathons", PrizeColumns, {}))
  BY DEF AddPrizeStrategyToMarathons
<1>13. Lists3(Release[13].up, Create("virtual_wallets", {}, {"users"}),
              Create("virtual_wallet_transactions", {}, {"virtual_wallets"}),
              AddIfTable("marathon_participants", CancelColumns, {}))
  BY DEF CreateVirtualWalletTables
<1>14. Lists1(Release[14].up, AddMissing("marathons", {"status"}))
  BY DEF AddStatusToMarathons
<1>15. Lists1(Release[15].up, CreateIfTables("withdrawals", {"users", "wallets"}))
  BY DEF CreateWithdrawalsTable
<1>16. Lists1(Release[16].up, AddMissing("users", {"isBanned"}))
  BY DEF AddIsBannedToUsers
<1>17. Lists1(Release[17].up, AddMissing("virtual_wallets", {"isFrozen"}))
  BY DEF AddIsFrozenToVirtualWallets
<1>19. Lists1(Release[19].up, Translate)
  BY DEF UpdateFaqTableForMultilingual
<1>21. Lists1(Release[21].up, DropIfThere("user_settings", RetiredSettings))
  BY DEF RemoveSettingsFields
<1>22. Lists1(Release[22].up, AddNew("sessions", {"location"}))
  BY DEF AddLocationToSessions
<1>23. Lists1(Release[23].up, AddIfTable("user_settings", AnnouncementColumns, {}))
  BY DEF AddMarathonAnnouncementsSettings
<1>24. Lists1(Release[24].up, AddMissing("users", BanColumns))
  BY DEF AddBanReasonAndBannedAtToUsers
<1>25. Lists1(Release[25].up, AddMissing("marathon_participants", {"status"}))
  BY DEF AddStatusToMarathonParticipants
<1>26. Lists1(Release[26].up, AddMissing("marathon_participants", {"disqualificationReason"}))
  BY DEF AddDisqualificationReasonToMarathonParticipants
<1>27. Lists1(Release[27].up, Create("password_requests", {}, {"marathon_participants", "users"}))
  BY DEF CreatePasswordRequestsTable
<1> QED
  BY <1>1, <1>2, <1>3, <1>4, <1>5, <1>6, <1>7, <1>8, <1>9, <1>10, <1>11, <1>12, <1>13, <1>14, <1>15,
       <1>16, <1>17, <1>19, <1>21, <1>22, <1>23, <1>24, <1>25, <1>26, <1>27

\* The statements that revert them.
LEMMA DownsAre ==
  /\ Lists0(Release[1].down)
  /\ Lists1(Release[2].down, DropTable("users"))
  /\ Lists1(Release[3].down, Throw)
  /\ Lists1(Release[4].down, Throw)
  /\ Lists2(Release[5].down, DropIfThere("profile", SocialColumns), Throw)
  /\ Lists0(Release[6].down)
  /\ Lists1(Release[7].down, DropIfThere("profile", {"balance"}))
  /\ Lists1(Release[8].down, DropIfThere("tickets", {"tracking_id"}))
  /\ Lists1(Release[9].down, DropIfThere("payment", {"isTest"}))
  /\ Lists2(Release[10].down, Alter("payment"), DropIfThere("payment", ProviderColumns))
  /\ Lists1(Release[11].down, DropIfThere("metatrader_accounts", {LinkColumn}))
  /\ Lists3(Release[12].down, DropIfThere("marathons", PrizeColumns), DropTable("marathon_participants"),
            DropTable("marathons"))
  /\ Lists3(Release[13].down, DropIfThere("marathon_participants", CancelColumns),
            DropTable("virtual_wallet_transactions"), DropTable("virtual_wallets"))
  /\ Lists1(Release[14].down, DropIfThere("marathons", {"status"}))
  /\ Lists1(Release[15].down, DropTable("withdrawals"))
  /\ Lists1(Release[16].down, DropIfThere("users", {"isBanned"}))
  /\ Lists1(Release[17].down, DropIfThere("virtual_wallets", {"isFrozen"}))
  /\ Lists1(Release[19].down, Untranslate)
  /\ Lists1(Release[21].down, AddIfTable("user_settings", RetiredSettings, {}))
  /\ Lists1(Release[22].down, DropExisting("sessions", {"location"}))
  /\ Lists1(Release[23].down, DropIfThere("user_settings", AnnouncementColumns))
  /\ Lists1(Release[24].down, DropIfThere("users", BanColumns))
  /\ Lists1(Release[25].down, DropIfThere("marathon_participants", {"status"}))
  /\ Lists1(Release[26].down, DropIfThere("marathon_participants", {"disqualificationReason"}))
  /\ Lists1(Release[27].down, DropTable("password_requests"))
<1> USE DEF Release, Lists0, Lists1, Lists2, Lists3
<1>1. Lists0(Release[1].down)
  BY DEF CreateUserRoleEnum
<1>2. Lists1(Release[2].down, DropTable("users"))
  BY DEF CreateUsersTable
<1>3. Lists1(Release[3].down, Throw)
  BY DEF UpdateUserAndProfileToUUID
<1>4. Lists1(Release[4].down, Throw)
  BY DEF DropUsersAndProfiles
<1>5. Lists2(Release[5].down, DropIfThere("profile", SocialColumns), Throw)
  BY DEF AddSocialMediaToProfile
<1>6. Lists0(Release[6].down)
  BY DEF DropMetaTraderAccounts
<1>7. Lists1(Release[7].down, DropIfThere("profile", {"balance"}))
  BY DEF AddBalanceToProfile
<1>8. Lists1(Release[8].down, DropIfThere("tickets", {"tracking_id"}))
  BY DEF AddTrackingIdToTickets
<1>9. Lists1(Release[9].down, DropIfThere("payment", {"isTest"}))
  BY DEF AddIsTestToPayment
<1>10. Lists2(Release[10].down, Alter("payment"), DropIfThere("payment", ProviderColumns))
  BY DEF UpdatePaymentEntityForNowPayments
<1>11. Lists1(Release[11].down, DropIfThere("metatrader_accounts", {LinkColumn}))
  BY DEF AddMarathonParticipantIdToMetaTraderAccounts
<1>12. Lists3(Release[12].down, DropIfThere("marathons", PrizeColumns), DropTable("marathon_participants"),
              DropTable("marathons"))
  BY DEF AddPrizeStrategyToMarathons
<1>13. Lists3(Release[13].down, DropIfThere("marathon_participants", CancelColumns),
              DropTable("virtual_wallet_transactions"), DropTable("virtual_wallets"))
  BY DEF CreateVirtualWalletTables
<1>14. Lists1(Release[14].down, DropIfThere("marathons", {"status"}))
  BY DEF AddStatusToMarathons
<1>15. Lists1(Release[15].down, DropTable("withdrawals"))
  BY DEF CreateWithdrawalsTable
<1>16. Lists1(Release[16].down, DropIfThere("users", {"isBanned"}))
  BY DEF AddIsBannedToUsers
<1>17. Lists1(Release[17].down, DropIfThere("virtual_wallets", {"isFrozen"}))
  BY DEF AddIsFrozenToVirtualWallets
<1>19. Lists1(Release[19].down, Untranslate)
  BY DEF UpdateFaqTableForMultilingual
<1>21. Lists1(Release[21].down, AddIfTable("user_settings", RetiredSettings, {}))
  BY DEF RemoveSettingsFields
<1>22. Lists1(Release[22].down, DropExisting("sessions", {"location"}))
  BY DEF AddLocationToSessions
<1>23. Lists1(Release[23].down, DropIfThere("user_settings", AnnouncementColumns))
  BY DEF AddMarathonAnnouncementsSettings
<1>24. Lists1(Release[24].down, DropIfThere("users", BanColumns))
  BY DEF AddBanReasonAndBannedAtToUsers
<1>25. Lists1(Release[25].down, DropIfThere("marathon_participants", {"status"}))
  BY DEF AddStatusToMarathonParticipants
<1>26. Lists1(Release[26].down, DropIfThere("marathon_participants", {"disqualificationReason"}))
  BY DEF AddDisqualificationReasonToMarathonParticipants
<1>27. Lists1(Release[27].down, DropTable("password_requests"))
  BY DEF CreatePasswordRequestsTable
<1> QED
  BY <1>1, <1>2, <1>3, <1>4, <1>5, <1>6, <1>7, <1>8, <1>9, <1>10, <1>11, <1>12, <1>13, <1>14, <1>15,
       <1>16, <1>17, <1>19, <1>21, <1>22, <1>23, <1>24, <1>25, <1>26, <1>27

------------------------------------------------------------------------------
(***************************************************************************)
(* What each migration is for: the tables and the columns it makes.        *)
(***************************************************************************)

Retired == {"social_media", "meta_trader_accounts"}
FaqsJson == <<"faqs", AsJson>>
FaqsBinaryJson == <<"faqs", AsBinaryJson>>
Location == <<"sessions", "location">>
Link == <<"metatrader_accounts", LinkColumn>>

\* The migration that makes a table, of those that one makes.
TableLevel(t) ==
  CASE t = "users" -> 2
    [] t = "profile" -> 3
    [] t \in {"marathons", "marathon_participants"} -> 12
    [] t \in {"virtual_wallets", "virtual_wallet_transactions"} -> 13
    [] t = "withdrawals" -> 15
    [] t \in TokyoNames \cup {"metatrader_accounts"} -> 18
    [] t \in SettingsNames -> 20
    [] t = "password_requests" -> 27
    [] OTHER -> 0

\* The migration that adds a column; what a table is created with it has from the start.
ColumnLevel(c) ==
  CASE c[2] = Rest -> 0
    [] c[1] = "profile" /\ c[2] \in SocialColumns -> 5
    [] c[1] = "profile" /\ c[2] = "balance" -> 7
    [] c[1] = "tickets" /\ c[2] = "tracking_id" -> 8
    [] c[1] = "payment" /\ c[2] = "isTest" -> 9
    [] c[1] = "payment" /\ c[2] \in ProviderColumns -> 10
    [] c[1] = "metatrader_accounts" /\ c[2] = LinkColumn -> 11
    [] c[1] = "marathons" /\ c[2] \in PrizeColumns -> 12
    [] c[1] = "marathon_participants" /\ c[2] \in CancelColumns -> 13
    [] c[1] = "marathons" /\ c[2] = "status" -> 14
    [] c[1] = "users" /\ c[2] = "isBanned" -> 16
    [] c[1] = "virtual_wallets" /\ c[2] = "isFrozen" -> 17
    [] c[1] = "sessions" /\ c[2] = "location" -> 22
    [] c[1] = "user_settings" /\ c[2] \in AnnouncementColumns -> 23
    [] c[1] = "users" /\ c[2] \in BanColumns -> 24
    [] c[1] = "marathon_participants" /\ c[2] = "status" -> 25
    [] c[1] = "marathon_participants" /\ c[2] = "disqualificationReason" -> 26
    [] OTHER -> 28

\* The tables statements may make at migration m, and with what.
Makable(st, m) ==
  /\ TableLevel(st.table) # 0 /\ TableLevel(st.table) <= m
  /\ st.table \in TokyoNames \cup SettingsNames => st.to = {}
  /\ st.table = "sessions" => st.cols = {}
  /\ st.table = "withdrawals" => st.do = "create if tables" /\ "wallets" \in st.to

\* A statement of migration m, or one that reverts it, spares what the migrations before made,
\* and does nothing that makes a later one fail.
Suits(st, m) ==
  /\ \A c : ColumnLevel(c) < m => Spares(st, c)
  /\ st.do \in Rewriting => m = 19
  /\ st.do \in Making \cup Widening \cup Narrowing => st.table # "faqs"
  /\ st.do \in {"drop table", "drop old profiles"} => st.table \in Retired \/ TableLevel(st.table) = m
  /\ st.do \in Making => Makable(st, m)
  /\ st.do \in Widening /\ st.table = "sessions" => m >= 22
  /\ \A u \in Retired : ~Aims(st, u)
  /\ st.do = "rekey" => m = 3 /\ st.table = "users"
  /\ st.do = "index" => m >= 18
  /\ st.do = "reference once" => m = 18
  /\ st.do = "add if table" => st.idx = {} \/ m = 11
  /\ st.do = "reference if tables" => st.table \notin TokyoNames \cup SettingsNames

LEMMA TableLevels ==
  /\ TableLevel("users") = 2 /\ TableLevel("profile") = 3 /\ TableLevel("marathons") = 12
  /\ TableLevel("marathon_participants") = 12 /\ TableLevel("virtual_wallets") = 13 /\ TableLevel("virtual_wallet_transactions") = 13
  /\ TableLevel("withdrawals") = 15 /\ TableLevel("metatrader_accounts") = 18 /\ TableLevel("password_requests") = 27
  /\ TableLevel("wallets") = 0 /\ TableLevel("faqs") = 0 /\ TableLevel("tickets") = 0
  /\ TableLevel("payment") = 0 /\ TableLevel("social_media") = 0 /\ TableLevel("meta_trader_accounts") = 0
  /\ \A t \in TokyoNames : TableLevel(t) = 18
  /\ \A t \in SettingsNames : TableLevel(t) = 20
<1>1. TableLevel("users") = 2 /\ TableLevel("profile") = 3 /\ TableLevel("marathons") = 12
  BY DEF TableLevel, TokyoNames, SettingsNames
<1>2. TableLevel("marathon_participants") = 12 /\ TableLevel("virtual_wallets") = 13 /\ TableLevel("virtual_wallet_transactions") = 13
  BY DEF TableLevel, TokyoNames, SettingsNames
<1>3. TableLevel("withdrawals") = 15 /\ TableLevel("metatrader_accounts") = 18 /\ TableLevel("password_requests") = 27
  BY DEF TableLevel, TokyoNames, SettingsNames
<1>4. TableLevel("wallets") = 0 /\ TableLevel("faqs") = 0 /\ TableLevel("tickets") = 0
  BY DEF TableLevel, TokyoNames, SettingsNames
<1>5. TableLevel("payment") = 0 /\ TableLevel("social_media") = 0 /\ TableLevel("meta_trader_accounts") = 0
  BY DEF TableLevel, TokyoNames, SettingsNames
<1>6. /\ TableLevel("tokyo_account_data") = 18
      /\ TableLevel("tokyo_transaction_history") = 18
      /\ TableLevel("tokyo_performance") = 18
      /\ TableLevel("tokyo_balance_history") = 18
      /\ TableLevel("tokyo_equity_history") = 18
  BY DEF TableLevel, TokyoNames, SettingsNames
<1>7. TableLevel("user_settings") = 20 /\ TableLevel("sessions") = 20 /\ TableLevel("login_history") = 20
  BY DEF TableLevel, TokyoNames, SettingsNames
<1>8. \A t \in TokyoNames : TableLevel(t) = 18
  BY <1>6 DEF TokyoNames
<1>9. \A t \in SettingsNames : TableLevel(t) = 20
  BY <1>7 DEF SettingsNames
<1> QED
  BY <1>1, <1>2, <1>3, <1>4, <1>5, <1>6, <1>7, <1>8, <1>9

LEMMA LevelOfPair == \A c : ColumnLevel(c) = ColumnLevel(<<c[1], c[2]>>)
BY DEF ColumnLevel

LEMMA CreateSuits ==
  ASSUME NEW t, NEW cols, NEW to, NEW m \in 1..27, t # "faqs", \A u \in Retired : u \notin to,
         \A x : ColumnLevel(<<t, x>>) < m => x \in cols \cup {Rest},
         Makable(Create(t, cols, to), m)
  PROVE  Suits(Create(t, cols, to), m)
<1> DEFINE st == Create(t, cols, to)
<1>1. st.do = "create" /\ st.table = t /\ st.cols = cols /\ st.to = to
  BY DEF Create
<1>2. Makable(st, m)
  OBVIOUS
<1> HIDE DEF st
<1>3. \A c : ColumnLevel(c) < m => Spares(st, c)
  <2> SUFFICES ASSUME NEW c, ColumnLevel(c) < m, c[1] = t PROVE c[2] \in cols \cup {Rest}
    BY <1>1 DEF Spares, Narrowing, Rewriting
  <2>1. ColumnLevel(<<t, c[2]>>) < m
    BY LevelOfPair
  <2> QED
    BY <2>1
<1>4. \A u \in Retired : ~Aims(st, u)
  BY <1>1 DEF Aims, Referring
<1>5. Suits(st, m)
  BY <1>1, <1>2, <1>3, <1>4 DEF Suits, Making, Widening, Rewriting, Narrowing
<1> QED
  BY <1>5 DEF st

\* Statements that change neither tables nor the columns that were there.
Harmless(st, m) ==
  /\ st.do \in Widening \cup {"reference if tables", "index", "reference", "reference once", "rekey", "alter", "throw"}
  /\ st.do \in Widening => st.table \notin {"faqs", "sessions"} \/ (st.table = "sessions" /\ m >= 22)
  /\ st.do = "rekey" => m = 3 /\ st.table = "users"
  /\ st.do = "index" => m >= 18
  /\ st.do = "reference once" => m = 18
  /\ st.do = "add if table" => st.idx = {} \/ m = 11
  /\ st.do = "reference if tables" => st.table \notin TokyoNames \cup SettingsNames
  /\ st.do \in Referring => st.to \notin Retired

LEMMA HarmlessSuits ==
  ASSUME NEW st, NEW m \in 1..27, Harmless(st, m)
  PROVE  Suits(st, m)
<1> USE DEF Harmless
<1>1. \A c : Spares(st, c)
  BY DEF Spares, Widening, Making, Narrowing, Rewriting
<1>2. \A u \in Retired : ~Aims(st, u)
  BY DEF Aims, Retired, Making, Widening, Referring
<1> QED
  BY <1>1, <1>2 DEF Suits, Making, Widening, Rewriting, Narrowing

\* Statements that drop columns.
Trims(st, m) == st.do \in Narrowing /\ st.table # "faqs" /\ \A x \in st.cols : ~(ColumnLevel(<<st.table, x>>) < m)

LEMMA NarrowingSuits ==
  ASSUME NEW st, NEW m \in 1..27, Trims(st, m)
  PROVE  Suits(st, m)
<1>1. ASSUME NEW c, ColumnLevel(c) < m PROVE Spares(st, c)
  <2>1. \A x \in st.cols : c # <<st.table, x>>
    BY <1>1 DEF Trims
  <2>2. c \notin {st.table} \X st.cols
    BY <2>1
  <2> QED
    BY <2>2 DEF Trims, Spares, Making, Narrowing, Rewriting
<1>2. \A u \in Retired : ~Aims(st, u)
  BY DEF Trims, Aims, Making, Narrowing, Referring
<1> QED
  BY <1>1, <1>2 DEF Trims, Suits, Making, Widening, Rewriting, Narrowing

LEMMA DropTableSuits ==
  ASSUME NEW t, NEW m \in 1..27, t \in Retired \/ TableLevel(t) = m
  PROVE  Suits(DropTable(t), m)
<1> DEFINE st == DropTable(t)
<1>1. st.do = "drop table" /\ st.table = t
  BY DEF DropTable
<1> HIDE DEF st
<1>2. \A c : Spares(st, c)
  BY <1>1 DEF Spares, Making, Narrowing, Rewriting
<1>3. \A u \in Retired : ~Aims(st, u)
  BY <1>1 DEF Aims, Making, Narrowing, Referring
<1>4. Suits(st, m)
  BY <1>1, <1>2, <1>3 DEF Suits, Making, Widening, Rewriting, Narrowing
<1> QED
  BY <1>4 DEF st

Rewrites(st) == st.do \in Rewriting

LEMMA RewritingSuits ==
  ASSUME NEW st, Rewrites(st)
  PROVE  Suits(st, 19)
<1> USE DEF Rewrites
<1>1. \A c : c[2] \in {AsText, AsJson, AsBinaryJson} => ColumnLevel(c) = 28
  BY DEF ColumnLevel, AsText, AsJson, AsBinaryJson, Rest, SocialColumns, ProviderColumns, LinkColumn,
         PrizeColumns, CancelColumns, AnnouncementColumns, BanColumns
<1>2. ASSUME NEW c, ColumnLevel(c) < 19 PROVE Spares(st, c)
  <2>1. c[2] \notin {AsText, AsJson, AsBinaryJson}
    BY <1>1, <1>2
  <2> QED
    BY <2>1 DEF Spares, Making, Narrowing, Rewriting
<1>3. \A u \in Retired : ~Aims(st, u)
  BY DEF Aims, Making, Rewriting, Referring
<1> QED
  BY <1>2, <1>3 DEF Suits, Making, Widening, Rewriting, Narrowing

AllSuit(s, m) == \A i \in DOMAIN s : Suits(s[i], m)

LEMMA TokyoUpsSuit == AllSuit(Release[18].up, 18)
<1> DEFINE up == Release[18].up
<1>1. Suits(Create("metatrader_accounts", {LinkColumn}, {}), 18)
  <2>1. \A x : ColumnLevel(<<"metatrader_accounts", x>>) < 18 => x \in {LinkColumn} \cup {Rest}
    BY DEF ColumnLevel
  <2>2. Makable(Create("metatrader_accounts", {LinkColumn}, {}), 18)
    BY DEF Makable, Create, TableLevel, TokyoNames, SettingsNames
  <2> QED
    BY <2>1, <2>2, CreateSuits
<1>2. ASSUME NEW t \in TokyoNames PROVE Suits(Create(t, {}, {}), 18)
  <2>1. \A x : ColumnLevel(<<t, x>>) < 18 => x \in {} \cup {Rest}
    BY DEF ColumnLevel, TokyoNames
  <2>2. Makable(Create(t, {}, {}), 18)
    <3>1. TableLevel(t) = 18 /\ t # "sessions" /\ t # "withdrawals"
      BY TableLevels DEF TokyoNames
    <3> QED
      BY <3>1 DEF Makable, Create
  <2>3. t # "faqs"
    BY DEF TokyoNames
  <2> QED
    BY <2>1, <2>2, <2>3, CreateSuits
<1>3. ASSUME NEW t, NEW name PROVE Suits(Index(t, name), 18)
  <2>1. Harmless(Index(t, name), 18)
    BY DEF Harmless, Index, Widening, Referring
  <2> QED
    BY <2>1, HarmlessSuits
<1>4. Suits(ReferenceOnce("metatrader_accounts", "users"), 18)
  <2>1. Harmless(ReferenceOnce("metatrader_accounts", "users"), 18)
    BY DEF Harmless, ReferenceOnce, Widening, Referring, Retired
  <2> QED
    BY <2>1, HarmlessSuits
<1>5. ASSUME NEW t PROVE Suits(Reference(t, "metatrader_accounts"), 18)
  <2>1. Harmless(Reference(t, "metatrader_accounts"), 18)
    BY DEF Harmless, Reference, Widening, Referring, Retired
  <2> QED
    BY <2>1, HarmlessSuits
<1>6. \A i \in 1..5 : TokyoTables[i] \in TokyoNames
  BY NamesAre
<1>7. /\ DOMAIN up = 1..20
      /\ Suits(up[1], 18) /\ Suits(up[2], 18) /\ Suits(up[3], 18) /\ Suits(up[4], 18)
      /\ \A i \in 1..5 : Suits(up[4 + i], 18) /\ Suits(up[9 + i], 18)
      /\ \A i \in 1..6 : Suits(up[14 + i], 18)
  BY <1>1, <1>2, <1>3, <1>4, <1>5, <1>6, TokyoUps
<1> HIDE DEF up
<1>8. \A i \in 1..20 : \/ i \in {1, 2, 3, 4}
                       \/ i - 4 \in 1..5 /\ i = 4 + (i - 4)
                       \/ i - 9 \in 1..5 /\ i = 9 + (i - 9)
                       \/ i - 14 \in 1..6 /\ i = 14 + (i - 14)
  OBVIOUS
<1>9. \A i \in 1..20 : Suits(up[i], 18)
  BY <1>7, <1>8
<1> QED
  BY <1>7, <1>9 DEF AllSuit, up

LEMMA SettingsUpsSuit == AllSuit(Release[20].up, 20)
<1> DEFINE up == Release[20].up
<1>1. ASSUME NEW t \in SettingsNames, NEW cols, t = "sessions" => cols = {} PROVE Suits(Create(t, cols, {}), 20)
  <2>1. \A x : ColumnLevel(<<t, x>>) < 20 => x \in cols \cup {Rest}
    BY DEF ColumnLevel, SettingsNames
  <2>2. Makable(Create(t, cols, {}), 20)
    BY <1>1 DEF Makable, Create, TableLevel, TokyoNames, SettingsNames
  <2>3. t # "faqs"
    BY DEF SettingsNames
  <2> QED
    BY <2>1, <2>2, <2>3, CreateSuits
<1>2. ASSUME NEW t, NEW name PROVE Suits(Index(t, name), 20)
  <2>1. Harmless(Index(t, name), 20)
    BY DEF Harmless, Index, Widening, Referring
  <2> QED
    BY <2>1, HarmlessSuits
<1>3. ASSUME NEW t PROVE Suits(Reference(t, "users"), 20)
  <2>1. Harmless(Reference(t, "users"), 20)
    BY DEF Harmless, Reference, Widening, Referring, Retired
  <2> QED
    BY <2>1, HarmlessSuits
<1>4. {"user_settings", "sessions", "login_history"} = SettingsNames
  BY DEF SettingsNames
<1>5. Suits(Create("user_settings", RetiredSettings, {}), 20)
  BY <1>1, <1>4
<1>6. /\ DOMAIN up = 1..10
      /\ Suits(up[1], 20) /\ Suits(up[2], 20) /\ Suits(up[3], 20)
      /\ \A i \in 1..3 : Suits(up[3 + i], 20)
      /\ \A i \in 1..4 : Suits(up[6 + i], 20)
  BY <1>1, <1>2, <1>3, <1>4, <1>5, SettingsUps
<1> HIDE DEF up
<1>7. \A i \in 1..10 : \/ i \in {1, 2, 3}
                       \/ i - 3 \in 1..3 /\ i = 3 + (i - 3)
                       \/ i - 6 \in 1..4 /\ i = 6 + (i - 6)
  OBVIOUS
<1>8. \A i \in 1..10 : Suits(up[i], 20)
  BY <1>6, <1>7
<1> QED
  BY <1>6, <1>8 DEF AllSuit, up

\* Only the fourth migration drops a table that an earlier one made.
LEMMA UpsSuit == \A m \in 1..27 : m # 4 => AllSuit(Release[m].up, m)
<1>1. Suits(Create("users", {}, {}), 2)
  <2>1. \A x : ColumnLevel(<<"users", x>>) < 2 => x \in {} \cup {Rest}
    BY DEF ColumnLevel, TokyoNames, SettingsNames, Rest, SocialColumns, ProviderColumns, LinkColumn,
         PrizeColumns, CancelColumns, AnnouncementColumns, BanColumns
  <2>2. Makable(Create("users", {}, {}), 2)
    BY DEF Makable, Create, TableLevel, TokyoNames, SettingsNames
  <2> QED
    BY <2>1, <2>2, CreateSuits DEF Retired
<1>2. Suits(Create("profile", {}, {}), 3)
  <2>1. \A x : ColumnLevel(<<"profile", x>>) < 3 => x \in {} \cup {Rest}
    BY DEF ColumnLevel, TokyoNames, SettingsNames, Rest, SocialColumns, ProviderColumns, LinkColumn,
         PrizeColumns, CancelColumns, AnnouncementColumns, BanColumns
  <2>2. Makable(Create("profile", {}, {}), 3)
    BY DEF Makable, Create, TableLevel, TokyoNames, SettingsNames
  <2> QED
    BY <2>1, <2>2, CreateSuits DEF Retired
<1>3. Suits(Rekey, 3)
  <2>1. Harmless(Rekey, 3)
    BY DEF Rekey, Harmless, Widening, Referring, Retired, TokyoNames, SettingsNames
  <2> QED
    BY <2>1, HarmlessSuits
<1>4. Suits(Create("profile", {}, {}), 5)
  <2>1. \A x : ColumnLevel(<<"profile", x>>) < 5 => x \in {} \cup {Rest}
    BY DEF ColumnLevel, TokyoNames, SettingsNames, Rest, SocialColumns, ProviderColumns, LinkColumn,
         PrizeColumns, CancelColumns, AnnouncementColumns, BanColumns
  <2>2. Makable(Create("profile", {}, {}), 5)
    BY DEF Makable, Create, TableLevel, TokyoNames, SettingsNames
  <2> QED
    BY <2>1, <2>2, CreateSuits DEF Retired
<1>5. Suits(AddIfTable("profile", SocialColumns, {}), 5)
  <2>1. Harmless(AddIfTable("profile", SocialColumns, {}), 5)
    BY DEF AddIfTable, Harmless, Widening, Referring, Retired, TokyoNames, SettingsNames
  <2> QED
    BY <2>1, HarmlessSuits
<1>6. Suits(DropTable("social_media"), 5)
  BY DropTableSuits DEF Retired, TableLevel, TokyoNames, SettingsNames
<1>7. Suits(DropTable("meta_trader_accounts"), 6)
  BY DropTableSuits DEF Retired, TableLevel, TokyoNames, SettingsNames
<1>8. Suits(AddIfTable("profile", {"balance"}, {}), 7)
  <2>1. Harmless(AddIfTable("profile", {"balance"}, {}), 7)
    BY DEF AddIfTable, Harmless, Widening, Referring, Retired, TokyoNames, SettingsNames
  <2> QED
    BY <2>1, HarmlessSuits
<1>9. Suits(AddIfTable("tickets", {"tracking_id"}, {}), 8)
  <2>1. Harmless(AddIfTable("tickets", {"tracking_id"}, {}), 8)
    BY DEF AddIfTable, Harmless, Widening, Referring, Retired, TokyoNames, SettingsNames
  <2> QED
    BY <2>1, HarmlessSuits
<1>10. Suits(AddIfTable("payment", {"isTest"}, {}), 9)
  <2>1. Harmless(AddIfTable("payment", {"isTest"}, {}), 9)
    BY DEF AddIfTable, Harmless, Widening, Referring, Retired, TokyoNames, SettingsNames
  <2> QED
    BY <2>1, HarmlessSuits
<1>11. Suits(AddIfTable("payment", ProviderColumns, {}), 10)
  <2>1. Harmless(AddIfTable("payment", ProviderColumns, {}), 10)
    BY DEF AddIfTable, Harmless, Widening, Referring, Retired, TokyoNames, SettingsNames
  <2> QED
    BY <2>1, HarmlessSuits
<1>12. Suits(ReferenceIfTables("payment", "marathons"), 10)
  <2>1. Harmless(ReferenceIfTables("payment", "marathons"), 10)
    BY DEF ReferenceIfTables, Harmless, Widening, Referring, Retired, TokyoNames, SettingsNames
  <2> QED
    BY <2>1, HarmlessSuits
<1>13. Suits(AddIfTable("metatrader_accounts", {LinkColumn}, {LinkIndex}), 11)
  <2>1. Harmless(AddIfTable("metatrader_accounts", {LinkColumn}, {LinkIndex}), 11)
    BY DEF AddIfTable, Harmless, Widening, Referring, Retired, TokyoNames, SettingsNames
  <2> QED
    BY <2>1, HarmlessSuits
<1>14. Suits(Create("marathons", PrizeColumns \cup {"status"}, {}), 12)
  <2>1. \A x : ColumnLevel(<<"marathons", x>>) < 12 => x \in PrizeColumns \cup {"status"} \cup {Rest}
    BY DEF ColumnLevel, TokyoNames, SettingsNames, Rest, SocialColumns, ProviderColumns, LinkColumn,
         PrizeColumns, CancelColumns, AnnouncementColumns, BanColumns
  <2>2. Makable(Create("marathons", PrizeColumns \cup {"status"}, {}), 12)
    BY DEF Makable, Create, TableLevel, TokyoNames, SettingsNames
  <2> QED
    BY <2>1, <2>2, CreateSuits DEF Retired
<1>15. Suits(Create("marathon_participants", CancelColumns, {"marathons", "users"}), 12)
  <2>1. \A x : ColumnLevel(<<"marathon_participants", x>>) < 12 => x \in CancelColumns \cup {Rest}
    BY DEF ColumnLevel, TokyoNames, SettingsNames, Rest, SocialColumns, ProviderColumns, LinkColumn,
         PrizeColumns, CancelColumns, AnnouncementColumns, BanColumns
  <2>2. Makable(Create("marathon_participants", CancelColumns, {"marathons", "users"}), 12)
    BY DEF Makable, Create, TableLevel, TokyoNames, SettingsNames
  <2> QED
    BY <2>1, <2>2, CreateSuits DEF Retired
<1>16. Suits(AddIfTable("marathons", PrizeColumns, {}), 12)
  <2>1. Harmless(AddIfTable("marathons", PrizeColumns, {}), 12)
    BY DEF AddIfTable, Harmless, Widening, Referring, Retired, TokyoNames, SettingsNames
  <2> QED
    BY <2>1, HarmlessSuits
<1>17. Suits(Create("virtual_wallets", {}, {"users"}), 13)
  <2>1. \A x : ColumnLevel(<<"virtual_wallets", x>>) < 13 => x \in {} \cup {Rest}
    BY DEF ColumnLevel, TokyoNames, SettingsNames, Rest, SocialColumns, ProviderColumns, LinkColumn,
         PrizeColumns, CancelColumns, AnnouncementColumns, BanColumns
  <2>2. Makable(Create("virtual_wallets", {}, {"users"}), 13)
    BY DEF Makable, Create, TableLevel, TokyoNames, SettingsNames
  <2> QED
    BY <2>1, <2>2, CreateSuits DEF Retired
<1>18. Suits(Create("virtual_wallet_transactions", {}, {"virtual_wallets"}), 13)
  <2>1. \A x : ColumnLevel(<<"virtual_wallet_transactions", x>>) < 13 => x \in {} \cup {Rest}
    BY DEF ColumnLevel, TokyoNames, SettingsNames, Rest, SocialColumns, ProviderColumns, LinkColumn,
         PrizeColumns, CancelColumns, AnnouncementColumns, BanColumns
  <2>2. Makable(Create("virtual_wallet_transactions", {}, {"virtual_wallets"}), 13)
    BY DEF Makable, Create, TableLevel, TokyoNames, SettingsNames
  <2> QED
    BY <2>1, <2>2, CreateSuits DEF Retired
<1>19. Suits(AddIfTable("marathon_participants", CancelColumns, {}), 13)
  <2>1. Harmless(AddIfTable("marathon_participants", CancelColumns, {}), 13)
    BY DEF AddIfTable, Harmless, Widening, Referring, Retired, TokyoNames, SettingsNames
  <2> QED
    BY <2>1, HarmlessSuits
<1>20. Suits(AddMissing("marathons", {"status"}), 14)
  <2>1. Harmless(AddMissing("marathons", {"status"}), 14)
    BY DEF AddMissing, Harmless, Widening, Referring, Retired, TokyoNames, SettingsNames
  <2> QED
    BY <2>1, HarmlessSuits
<1>21. Suits(CreateIfTables("withdrawals", {"users", "wallets"}), 15)
  <2> DEFINE st == CreateIfTables("withdrawals", {"users", "wallets"})
  <2>2. st.do = "create if tables" /\ st.table = "withdrawals" /\ st.to = {"users", "wallets"} /\ st.cols = {}
    BY DEF CreateIfTables
  <2> HIDE DEF st
  <2>3. \A c : ColumnLevel(c) < 15 => Spares(st, c)
    <3>1. \A c : c[1] = "withdrawals" /\ ColumnLevel(c) < 15 => c[2] = Rest
      BY DEF ColumnLevel
    <3> QED
      BY <2>2, <3>1 DEF Spares, Narrowing, Rewriting
  <2>4. Makable(st, 15) /\ \A u \in Retired : ~Aims(st, u)
    <3>1. Makable(st, 15)
      <4>1. TableLevel(st.table) = 15
        BY <2>2, TableLevels
      <4>2. "withdrawals" \notin TokyoNames \cup SettingsNames /\ "withdrawals" # "sessions"
        BY DEF TokyoNames, SettingsNames
      <4>3. "wallets" \in st.to
        BY <2>2
      <4>4. TableLevel(st.table) # 0 /\ TableLevel(st.table) <= 15
        BY <4>1
      <4> QED
        BY <2>2, <4>2, <4>3, <4>4 DEF Makable
    <3>2. \A u \in Retired : ~Aims(st, u)
      BY <2>2 DEF Retired, Aims, Referring
    <3> QED
      BY <3>1, <3>2
  <2>5. Suits(st, 15)
    BY <2>2, <2>3, <2>4 DEF Suits, Making, Widening, Rewriting, Narrowing
  <2> QED
    BY <2>5 DEF st
<1>22. Suits(AddMissing("users", {"isBanned"}), 16)
  <2>1. Harmless(AddMissing("users", {"isBanned"}), 16)
    BY DEF AddMissing, Harmless, Widening, Referring, Retired, TokyoNames, SettingsNames
  <2> QED
    BY <2>1, HarmlessSuits
<1>23. Suits(AddMissing("virtual_wallets", {"isFrozen"}), 17)
  <2>1. Harmless(AddMissing("virtual_wallets", {"isFrozen"}), 17)
    BY DEF AddMissing, Harmless, Widening, Referring, Retired, TokyoNames, SettingsNames
  <2> QED
    BY <2>1, HarmlessSuits
<1>24. Suits(Translate, 19)
  <2>1. Rewrites(Translate)
    BY DEF Rewrites, Translate, Rewriting
  <2> QED
    BY <2>1, RewritingSuits
<1>25. Suits(DropIfThere("user_settings", RetiredSettings), 21)
  <2>1. \A x \in RetiredSettings : ~(ColumnLevel(<<"user_settings", x>>) < 21)
    BY DEF ColumnLevel, RetiredSettings, Rest, SocialColumns, ProviderColumns, LinkColumn,
         PrizeColumns, CancelColumns, AnnouncementColumns, BanColumns
  <2>2. Trims(DropIfThere("user_settings", RetiredSettings), 21)
    BY <2>1 DEF Trims, DropIfThere, Narrowing
  <2> QED
    BY <2>2, NarrowingSuits
<1>26. Suits(AddNew("sessions", {"location"}), 22)
  <2>1. Harmless(AddNew("sessions", {"location"}), 22)
    BY DEF AddNew, Harmless, Widening, Referring, Retired, TokyoNames, SettingsNames
  <2> QED
    BY <2>1, HarmlessSuits
<1>27. Suits(AddIfTable("user_settings", AnnouncementColumns, {}), 23)
  <2>1. Harmless(AddIfTable("user_settings", AnnouncementColumns, {}), 23)
    BY DEF AddIfTable, Harmless, Widening, Referring, Retired, TokyoNames, SettingsNames
  <2> QED
    BY <2>1, HarmlessSuits
<1>28. Suits(AddMissing("users", BanColumns), 24)
  <2>1. Harmless(AddMissing("users", BanColumns), 24)
    BY DEF AddMissing, Harmless, Widening, Referring, Retired, TokyoNames, SettingsNames
  <2> QED
    BY <2>1, HarmlessSuits
<1>29. Suits(AddMissing("marathon_participants", {"status"}), 25)
  <2>1. Harmless(AddMissing("marathon_participants", {"status"}), 25)
    BY DEF AddMissing, Harmless, Widening, Referring, Retired, TokyoNames, SettingsNames
  <2> QED
    BY <2>1, HarmlessSuits
<1>30. Suits(AddMissing("marathon_participants", {"disqualificationReason"}), 26)
  <2>1. Harmless(AddMissing("marathon_participants", {"disqualificationReason"}), 26)
    BY DEF AddMissing, Harmless, Widening, Referring, Retired, TokyoNames, SettingsNames
  <2> QED
    BY <2>1, HarmlessSuits
<1>31. Suits(Create("password_requests", {}, {"marathon_participants", "users"}), 27)
  <2>1. \A x : ColumnLevel(<<"password_requests", x>>) < 27 => x \in {} \cup {Rest}
    BY DEF ColumnLevel, TokyoNames, SettingsNames, Rest, SocialColumns, ProviderColumns, LinkColumn,
         PrizeColumns, CancelColumns, AnnouncementColumns, BanColumns
  <2>2. Makable(Create("password_requests", {}, {"marathon_participants", "users"}), 27)
    BY DEF Makable, Create, TableLevel, TokyoNames, SettingsNames
  <2> QED
    BY <2>1, <2>2, CreateSuits DEF Retired
<1>32. AllSuit(Release[1].up, 1)
  BY UpsAre DEF AllSuit, Lists0
<1>33. AllSuit(Release[2].up, 2)
  BY <1>1, UpsAre DEF AllSuit, Lists1
<1>34. AllSuit(Release[3].up, 3)
  BY <1>2, <1>3, UpsAre DEF AllSuit, Lists2
<1>35. AllSuit(Release[5].up, 5)
  BY <1>4, <1>5, <1>6, UpsAre DEF AllSuit, Lists3
<1>36. AllSuit(Release[6].up, 6)
  BY <1>7, UpsAre DEF AllSuit, Lists1
<1>37. AllSuit(Release[7].up, 7)
  BY <1>8, UpsAre DEF AllSuit, Lists1
<1>38. AllSuit(Release[8].up, 8)
  BY <1>9, UpsAre DEF AllSuit, Lists1
<1>39. AllSuit(Release[9].up, 9)
  BY <1>10, UpsAre DEF AllSuit, Lists1
<1>40. AllSuit(Release[10].up, 10)
  BY <1>11, <1>12, UpsAre DEF AllSuit, Lists2
<1>41. AllSuit(Release[11].up, 11)
  BY <1>13, UpsAre DEF AllSuit, Lists1
<1>42. AllSuit(Release[12].up, 12)
  BY <1>14, <1>15, <1>16, UpsAre DEF AllSuit, Lists3
<1>43. AllSuit(Release[13].up, 13)
  BY <1>17, <1>18, <1>19, UpsAre DEF AllSuit, Lists3
<1>44. AllSuit(Release[14].up, 14)
  BY <1>20, UpsAre DEF AllSuit, Lists1
<1>45. AllSuit(Release[15].up, 15)
  BY <1>21, UpsAre DEF AllSuit, Lists1
<1>46. AllSuit(Release[16].up, 16)
  BY <1>22, UpsAre DEF AllSuit, Lists1
<1>47. AllSuit(Release[17].up, 17)
  BY <1>23, UpsAre DEF AllSuit, Lists1
<1>48. AllSuit(Release[19].up, 19)
  BY <1>24, UpsAre DEF AllSuit, Lists1
<1>49. AllSuit(Release[21].up, 21)
  BY <1>25, UpsAre DEF AllSuit, Lists1
<1>50. AllSuit(Release[22].up, 22)
  BY <1>26, UpsAre DEF AllSuit, Lists1
<1>51. AllSuit(Release[23].up, 23)
  BY <1>27, UpsAre DEF AllSuit, Lists1
<1>52. AllSuit(Release[24].up, 24)
  BY <1>28, UpsAre DEF AllSuit, Lists1
<1>53. AllSuit(Release[25].up, 25)
  BY <1>29, UpsAre DEF AllSuit, Lists1
<1>54. AllSuit(Release[26].up, 26)
  BY <1>30, UpsAre DEF AllSuit, Lists1
<1>55. AllSuit(Release[27].up, 27)
  BY <1>31, UpsAre DEF AllSuit, Lists1
<1>56. AllSuit(Release[18].up, 18)
  BY TokyoUpsSuit
<1>57. AllSuit(Release[20].up, 20)
  BY SettingsUpsSuit
<1>58. \A m \in 1..27 : m \in {1, 2, 3, 4, 5, 6, 7, 8, 9, 10, 11, 12, 13, 14, 15, 16, 17,
                               18, 19, 20, 21, 22, 23, 24, 25, 26, 27}
  OBVIOUS
<1> QED
  BY <1>32, <1>33, <1>34, <1>35, <1>36, <1>37, <1>38, <1>39, <1>40, <1>41, <1>42, <1>43, <1>44, <1>45,
       <1>46, <1>47, <1>48, <1>49, <1>50, <1>51, <1>52, <1>53, <1>54, <1>55, <1>56, <1>57, <1>58

\* What reverts a migration.
LEMMA DownsSuit == \A m \in 1..27 : m \notin {18, 20} => AllSuit(Release[m].down, m)
<1>1. Suits(DropTable("users"), 2)
  BY DropTableSuits DEF Retired, TableLevel, TokyoNames, SettingsNames
<1>2. Suits(Throw, 3)
  <2>1. Harmless(Throw, 3)
    BY DEF Throw, Harmless, Widening, Referring, Retired, TokyoNames, SettingsNames
  <2> QED
    BY <2>1, HarmlessSuits
<1>3. Suits(Throw, 4)
  <2>1. Harmless(Throw, 4)
    BY DEF Throw, Harmless, Widening, Referring, Retired, TokyoNames, SettingsNames
  <2> QED
    BY <2>1, HarmlessSuits
<1>4. Suits(DropIfThere("profile", SocialColumns), 5)
  <2>1. \A x \in SocialColumns : ~(ColumnLevel(<<"profile", x>>) < 5)
    BY DEF ColumnLevel, RetiredSettings, Rest, SocialColumns, ProviderColumns, LinkColumn,
         PrizeColumns, CancelColumns, AnnouncementColumns, BanColumns
  <2>2. Trims(DropIfThere("profile", SocialColumns), 5)
    BY <2>1 DEF Trims, DropIfThere, Narrowing
  <2> QED
    BY <2>2, NarrowingSuits
<1>5. Suits(Throw, 5)
  <2>1. Harmless(Throw, 5)
    BY DEF Throw, Harmless, Widening, Referring, Retired, TokyoNames, SettingsNames
  <2> QED
    BY <2>1, HarmlessSuits
<1>6. Suits(DropIfThere("profile", {"balance"}), 7)
  <2>1. \A x \in {"balance"} : ~(ColumnLevel(<<"profile", x>>) < 7)
    BY DEF ColumnLevel, RetiredSettings, Rest, SocialColumns, ProviderColumns, LinkColumn,
         PrizeColumns, CancelColumns, AnnouncementColumns, BanColumns
  <2>2. Trims(DropIfThere("profile", {"balance"}), 7)
    BY <2>1 DEF Trims, DropIfThere, Narrowing
  <2> QED
    BY <2>2, NarrowingSuits
<1>7. Suits(DropIfThere("tickets", {"tracking_id"}), 8)
  <2>1. \A x \in {"tracking_id"} : ~(ColumnLevel(<<"tickets", x>>) < 8)
    BY DEF ColumnLevel, RetiredSettings, Rest, SocialColumns, ProviderColumns, LinkColumn,
         PrizeColumns, CancelColumns, AnnouncementColumns, BanColumns
  <2>2. Trims(DropIfThere("tickets", {"tracking_id"}), 8)
    BY <2>1 DEF Trims, DropIfThere, Narrowing
  <2> QED
    BY <2>2, NarrowingSuits
<1>8. Suits(DropIfThere("payment", {"isTest"}), 9)
  <2>1. \A x \in {"isTest"} : ~(ColumnLevel(<<"payment", x>>) < 9)
    BY DEF ColumnLevel, RetiredSettings, Rest, SocialColumns, ProviderColumns, LinkColumn,
         PrizeColumns, CancelColumns, AnnouncementColumns, BanColumns
  <2>2. Trims(DropIfThere("payment", {"isTest"}), 9)
    BY <2>1 DEF Trims, DropIfThere, Narrowing
  <2> QED
    BY <2>2, NarrowingSuits
<1>9. Suits(Alter("payment"), 10)
  <2>1. Harmless(Alter("payment"), 10)
    BY DEF Alter, Harmless, Widening, Referring, Retired, TokyoNames, SettingsNames
  <2> QED
    BY <2>1, HarmlessSuits
<1>10. Suits(DropIfThere("payment", ProviderColumns), 10)
  <2>1. \A x \in ProviderColumns : ~(ColumnLevel(<<"payment", x>>) < 10)
    BY DEF ColumnLevel, RetiredSettings, Rest, SocialColumns, ProviderColumns, LinkColumn,
         PrizeColumns, CancelColumns, AnnouncementColumns, BanColumns
  <2>2. Trims(DropIfThere("payment", ProviderColumns), 10)
    BY <2>1 DEF Trims, DropIfThere, Narrowing
  <2> QED
    BY <2>2, NarrowingSuits
<1>11. Suits(DropIfThere("metatrader_accounts", {LinkColumn}), 11)
  <2>1. \A x \in {LinkColumn} : ~(ColumnLevel(<<"metatrader_accounts", x>>) < 11)
    BY DEF ColumnLevel, RetiredSettings, Rest, SocialColumns, ProviderColumns, LinkColumn,
         PrizeColumns, CancelColumns, AnnouncementColumns, BanColumns
  <2>2. Trims(DropIfThere("metatrader_accounts", {LinkColumn}), 11)
    BY <2>1 DEF Trims, DropIfThere, Narrowing
  <2> QED
    BY <2>2, NarrowingSuits
<1>12. Suits(DropIfThere("marathons", PrizeColumns), 12)
  <2>1. \A x \in PrizeColumns : ~(ColumnLevel(<<"marathons", x>>) < 12)
    BY DEF ColumnLevel, RetiredSettings, Rest, SocialColumns, ProviderColumns, LinkColumn,
         PrizeColumns, CancelColumns, AnnouncementColumns, BanColumns
  <2>2. Trims(DropIfThere("marathons", PrizeColumns), 12)
    BY <2>1 DEF Trims, DropIfThere, Narrowing
  <2> QED
    BY <2>2, NarrowingSuits
<1>13. Suits(DropTable("marathon_participants"), 12)
  BY DropTableSuits DEF Retired, TableLevel, TokyoNames, SettingsNames
<1>14. Suits(DropTable("marathons"), 12)
  BY DropTableSuits DEF Retired, TableLevel, TokyoNames, SettingsNames
<1>15. Suits(DropIfThere("marathon_participants", CancelColumns), 13)
  <2>1. \A x \in CancelColumns : ~(ColumnLevel(<<"marathon_participants", x>>) < 13)
    BY DEF ColumnLevel, RetiredSettings, Rest, SocialColumns, ProviderColumns, LinkColumn,
         PrizeColumns, CancelColumns, AnnouncementColumns, BanColumns
  <2>2. Trims(DropIfThere("marathon_participants", CancelColumns), 13)
    BY <2>1 DEF Trims, DropIfThere, Narrowing
  <2> QED
    BY <2>2, NarrowingSuits
<1>16. Suits(DropTable("virtual_wallet_transactions"), 13)
  BY DropTableSuits DEF Retired, TableLevel, TokyoNames, SettingsNames
<1>17. Suits(DropTable("virtual_wallets"), 13)
  BY DropTableSuits DEF Retired, TableLevel, TokyoNames, SettingsNames
<1>18. Suits(DropIfThere("marathons", {"status"}), 14)
  <2>1. \A x \in {"status"} : ~(ColumnLevel(<<"marathons", x>>) < 14)
    BY DEF ColumnLevel, RetiredSettings, Rest, SocialColumns, ProviderColumns, LinkColumn,
         PrizeColumns, CancelColumns, AnnouncementColumns, BanColumns
  <2>2. Trims(DropIfThere("marathons", {"status"}), 14)
    BY <2>1 DEF Trims, DropIfThere, Narrowing
  <2> QED
    BY <2>2, NarrowingSuits
<1>19. Suits(DropTable("withdrawals"), 15)
  BY DropTableSuits DEF Retired, TableLevel, TokyoNames, SettingsNames
<1>20. Suits(DropIfThere("users", {"isBanned"}), 16)
  <2>1. \A x \in {"isBanned"} : ~(ColumnLevel(<<"users", x>>) < 16)
    BY DEF ColumnLevel, RetiredSettings, Rest, SocialColumns, ProviderColumns, LinkColumn,
         PrizeColumns, CancelColumns, AnnouncementColumns, BanColumns
  <2>2. Trims(DropIfThere("users", {"isBanned"}), 16)
    BY <2>1 DEF Trims, DropIfThere, Narrowing
  <2> QED
    BY <2>2, NarrowingSuits
<1>21. Suits(DropIfThere("virtual_wallets", {"isFrozen"}), 17)
  <2>1. \A x \in {"isFrozen"} : ~(ColumnLevel(<<"virtual_wallets", x>>) < 17)
    BY DEF ColumnLevel, RetiredSettings, Rest, SocialColumns, ProviderColumns, LinkColumn,
         PrizeColumns, CancelColumns, AnnouncementColumns, BanColumns
  <2>2. Trims(DropIfThere("virtual_wallets", {"isFrozen"}), 17)
    BY <2>1 DEF Trims, DropIfThere, Narrowing
  <2> QED
    BY <2>2, NarrowingSuits
<1>22. Suits(Untranslate, 19)
  <2>1. Rewrites(Untranslate)
    BY DEF Rewrites, Untranslate, Rewriting
  <2> QED
    BY <2>1, RewritingSuits
<1>23. Suits(AddIfTable("user_settings", RetiredSettings, {}), 21)
  <2>1. Harmless(AddIfTable("user_settings", RetiredSettings, {}), 21)
    BY DEF AddIfTable, Harmless, Widening, Referring, Retired, TokyoNames, SettingsNames
  <2> QED
    BY <2>1, HarmlessSuits
<1>24. Suits(DropExisting("sessions", {"location"}), 22)
  <2>1. \A x \in {"location"} : ~(ColumnLevel(<<"sessions", x>>) < 22)
    BY DEF ColumnLevel, RetiredSettings, Rest, SocialColumns, ProviderColumns, LinkColumn,
         PrizeColumns, CancelColumns, AnnouncementColumns, BanColumns
  <2>2. Trims(DropExisting("sessions", {"location"}), 22)
    BY <2>1 DEF Trims, DropExisting, Narrowing
  <2> QED
    BY <2>2, NarrowingSuits
<1>25. Suits(DropIfThere("user_settings", AnnouncementColumns), 23)
  <2>1. \A x \in AnnouncementColumns : ~(ColumnLevel(<<"user_settings", x>>) < 23)
    BY DEF ColumnLevel, RetiredSettings, Rest, SocialColumns, ProviderColumns, LinkColumn,
         PrizeColumns, CancelColumns, AnnouncementColumns, BanColumns
  <2>2. Trims(DropIfThere("user_settings", AnnouncementColumns), 23)
    BY <2>1 DEF Trims, DropIfThere, Narrowing
  <2> QED
    BY <2>2, NarrowingSuits
<1>26. Suits(DropIfThere("users", BanColumns), 24)
  <2>1. \A x \in BanColumns : ~(ColumnLevel(<<"users", x>>) < 24)
    BY DEF ColumnLevel, RetiredSettings, Rest, SocialColumns, ProviderColumns, LinkColumn,
         PrizeColumns, CancelColumns, AnnouncementColumns, BanColumns
  <2>2. Trims(DropIfThere("users", BanColumns), 24)
    BY <2>1 DEF Trims, DropIfThere, Narrowing
  <2> QED
    BY <2>2, NarrowingSuits
<1>27. Suits(DropIfThere("marathon_participants", {"status"}), 25)
  <2>1. \A x \in {"status"} : ~(ColumnLevel(<<"marathon_participants", x>>) < 25)
    BY DEF ColumnLevel, RetiredSettings, Rest, SocialColumns, ProviderColumns, LinkColumn,
         PrizeColumns, CancelColumns, AnnouncementColumns, BanColumns
  <2>2. Trims(DropIfThere("marathon_participants", {"status"}), 25)
    BY <2>1 DEF Trims, DropIfThere, Narrowing
  <2> QED
    BY <2>2, NarrowingSuits
<1>28. Suits(DropIfThere("marathon_participants", {"disqualificationReason"}), 26)
  <2>1. \A x \in {"disqualificationReason"} : ~(ColumnLevel(<<"marathon_participants", x>>) < 26)
    BY DEF ColumnLevel, RetiredSettings, Rest, SocialColumns, ProviderColumns, LinkColumn,
         PrizeColumns, CancelColumns, AnnouncementColumns, BanColumns
  <2>2. Trims(DropIfThere("marathon_participants", {"disqualificationReason"}), 26)
    BY <2>1 DEF Trims, DropIfThere, Narrowing
  <2> QED
    BY <2>2, NarrowingSuits
<1>29. Suits(DropTable("password_requests"), 27)
  BY DropTableSuits DEF Retired, TableLevel, TokyoNames, SettingsNames
<1>30. AllSuit(Release[1].down, 1)
  BY DownsAre DEF AllSuit, Lists0
<1>31. AllSuit(Release[2].down, 2)
  BY <1>1, DownsAre DEF AllSuit, Lists1
<1>32. AllSuit(Release[3].down, 3)
  BY <1>2, DownsAre DEF AllSuit, Lists1
<1>33. AllSuit(Release[4].down, 4)
  BY <1>3, DownsAre DEF AllSuit, Lists1
<1>34. AllSuit(Release[5].down, 5)
  BY <1>4, <1>5, DownsAre DEF AllSuit, Lists2
<1>35. AllSuit(Release[6].down, 6)
  BY DownsAre DEF AllSuit, Lists0
<1>36. AllSuit(Release[7].down, 7)
  BY <1>6, DownsAre DEF AllSuit, Lists1
<1>37. AllSuit(Release[8].down, 8)
  BY <1>7, DownsAre DEF AllSuit, Lists1
<1>38. AllSuit(Release[9].down, 9)
  BY <1>8, DownsAre DEF AllSuit, Lists1
<1>39. AllSuit(Release[10].down, 10)
  BY <1>9, <1>10, DownsAre DEF AllSuit, Lists2
<1>40. AllSuit(Release[11].down, 11)
  BY <1>11, DownsAre DEF AllSuit, Lists1
<1>41. AllSuit(Release[12].down, 12)
  BY <1>12, <1>13, <1>14, DownsAre DEF AllSuit, Lists3
<1>42. AllSuit(Release[13].down, 13)
  BY <1>15, <1>16, <1>17, DownsAre DEF AllSuit, Lists3
<1>43. AllSuit(Release[14].down, 14)
  BY <1>18, DownsAre DEF AllSuit, Lists1
<1>44. AllSuit(Release[15].down, 15)
  BY <1>19, DownsAre DEF AllSuit, Lists1
<1>45. AllSuit(Release[16].down, 16)
  BY <1>20, DownsAre DEF AllSuit, Lists1
<1>46. AllSuit(Release[17].down, 17)
  BY <1>21, DownsAre DEF AllSuit, Lists1
<1>47. AllSuit(Release[19].down, 19)
  BY <1>22, DownsAre DEF AllSuit, Lists1
<1>48. AllSuit(Release[21].down, 21)
  BY <1>23, DownsAre DEF AllSuit, Lists1
<1>49. AllSuit(Release[22].down, 22)
  BY <1>24, DownsAre DEF AllSuit, Lists1
<1>50. AllSuit(Release[23].down, 23)
  BY <1>25, DownsAre DEF AllSuit, Lists1
<1>51. AllSuit(Release[24].down, 24)
  BY <1>26, DownsAre DEF AllSuit, Lists1
<1>52. AllSuit(Release[25].down, 25)
  BY <1>27, DownsAre DEF AllSuit, Lists1
<1>53. AllSuit(Release[26].down, 26)
  BY <1>28, DownsAre DEF AllSuit, Lists1
<1>54. AllSuit(Release[27].down, 27)
  BY <1>29, DownsAre DEF AllSuit, Lists1
<1>55. \A m \in 1..27 : m \in {1, 2, 3, 4, 5, 6, 7, 8, 9, 10, 11, 12, 13, 14, 15, 16, 17,
                               18, 19, 20, 21, 22, 23, 24, 25, 26, 27}
  OBVIOUS
<1> QED
  BY <1>30, <1>31, <1>32, <1>33, <1>34, <1>35, <1>36, <1>37, <1>38, <1>39, <1>40, <1>41, <1>42, <1>43,
       <1>44, <1>45, <1>46, <1>47, <1>48, <1>49, <1>50, <1>51, <1>52, <1>53, <1>54, <1>55

------------------------------------------------------------------------------
(***************************************************************************)
(* Up to which migration a schema is built, from what was inherited.       *)
(***************************************************************************)

Present(t, k, O) ==
  IF TableLevel(t) = 0 THEN t \in O.tables
  ELSE TableLevel(t) <= k /\ (t = "withdrawals" => "wallets" \in O.tables)

BuiltTables(k, S, O) == \A t : t \notin Retired /\ Present(t, k, O) => t \in S.tables
BuiltColumns(k, S) == \A c \in EntityColumns : ColumnLevel(c) <= k => Whole(S, c)
BuiltFaqs(k, S, O) ==
  /\ OneType(S, "faqs")
  /\ FaqsJson \in O.cols => k < 19 /\ Whole(S, FaqsJson)
  /\ FaqsJson \notin O.cols /\ k < 19 => FaqsJson \notin S.cols
Built(k, S, O) == BuiltTables(k, S, O) /\ BuiltColumns(k, S) /\ BuiltFaqs(k, S, O)

\* The entities' columns, by the migrations that add them.
LEMMA EntityColumnsAre ==
  \A c \in EntityColumns : /\ c = <<c[1], c[2]>> /\ c[1] \notin Retired
                           /\ ColumnLevel(c) \in 0..27 \/ c = FaqsJson
<1> DEFINE Fine(t, cols) == t \notin Retired /\ \A x \in cols : ColumnLevel(<<t, x>>) \in 0..27 \/ <<t, x>> = FaqsJson
<1> USE DEF Entity, ColumnLevel, SocialColumns, ProviderColumns, LinkColumn, PrizeColumns, CancelColumns,
            AnnouncementColumns, BanColumns, Rest, AsJson, Retired, FaqsJson
<1>1. Fine(User.table, User.cols)
  BY DEF User
<1>2. Fine(Profile.table, Profile.cols)
  BY DEF Profile
<1>3. Fine(Payment.table, Payment.cols)
  BY DEF Payment
<1>4. Fine(Marathon.table, Marathon.cols)
  BY DEF Marathon
<1>5. Fine(MarathonParticipant.table, MarathonParticipant.cols)
  BY DEF MarathonParticipant
<1>6. Fine(MetaTraderAccount.table, MetaTraderAccount.cols)
  BY DEF MetaTraderAccount
<1>7. Fine(Session.table, Session.cols)
  BY DEF Session
<1>8. Fine(UserSettings.table, UserSettings.cols)
  BY DEF UserSettings
<1>9. Fine(Ticket.table, Ticket.cols)
  BY DEF Ticket
<1>10. Fine(Faq.table, Faq.cols)
  BY DEF Faq
<1>11. Fine(VirtualWallet.table, VirtualWallet.cols)
  BY DEF VirtualWallet
<1>12. \A e \in {EmailVerification, PasswordReset, Wallet, VirtualWalletTransaction, Withdrawal, PasswordRequest,
                 LoginHistory, Notification, Recipients, ReadBy, Department, TicketMessage}
                \cup {TokyoEntity(i) : i \in 1..5} : e.cols = {Rest} /\ e.table \notin Retired
  <2>1. \A i \in 1..5 : TokyoEntity(i).cols = {Rest} /\ TokyoEntity(i).table \in TokyoNames
    BY NamesAre DEF TokyoEntity
  <2>2. TokyoNames \cap Retired = {}
    BY DEF TokyoNames
  <2> QED
    BY <2>1, <2>2 DEF EmailVerification, PasswordReset, Wallet, VirtualWalletTransaction, Withdrawal,
         PasswordRequest,
         LoginHistory, Notification, Recipients, ReadBy, Department, TicketMessage
<1>13. \A t : ColumnLevel(<<t, Rest>>) = 0
  OBVIOUS
<1>14. \A e \in Entities : Fine(e.table, e.cols)
  <2> SUFFICES ASSUME NEW e \in Entities PROVE Fine(e.table, e.cols)
    OBVIOUS
  <2> HIDE DEF Fine, Entity, ColumnLevel, Rest, Retired, FaqsJson
  <2>1. CASE e \in {User, Profile, Payment, Marathon, MarathonParticipant, MetaTraderAccount, Session, UserSettings,
                    Ticket, Faq, VirtualWallet}
    BY <2>1, <1>1, <1>2, <1>3, <1>4, <1>5, <1>6, <1>7, <1>8, <1>9, <1>10, <1>11
  <2>2. CASE e \in {EmailVerification, PasswordReset, Wallet, VirtualWalletTransaction, Withdrawal, PasswordRequest,
                    LoginHistory, Notification, Recipients, ReadBy, Department, TicketMessage}
                   \cup {TokyoEntity(i) : i \in 1..5}
    <3>1. e.cols = {Rest} /\ e.table \notin Retired
      BY <2>2, <1>12
    <3> QED
      BY <3>1, <1>13 DEF Fine
  <2> QED
    BY <2>1, <2>2 DEF Entities
<1> HIDE DEF Fine, Entity, ColumnLevel, SocialColumns, ProviderColumns, LinkColumn, PrizeColumns, CancelColumns,
            AnnouncementColumns, BanColumns, Rest, AsJson, Retired, FaqsJson
<1> SUFFICES ASSUME NEW c \in EntityColumns
             PROVE  /\ c = <<c[1], c[2]>> /\ c[1] \notin Retired
                    /\ ColumnLevel(c) \in 0..27 \/ c = FaqsJson
  OBVIOUS
<1>15. PICK e \in Entities : c \in {e.table} \X e.cols
  BY DEF EntityColumns
<1>16. c[1] = e.table /\ c[2] \in e.cols /\ c = <<e.table, c[2]>>
  BY <1>15
<1> QED
  BY <1>14, <1>16 DEF Fine

\* The statement of a list that makes a table, or adds a column.
MakesTable(s, t) ==
  \E i \in DOMAIN s : /\ s[i].table = t
                      /\ \/ s[i].do = "create"
                         \/ s[i].do = "create if tables" /\ i = 1 /\ t = "withdrawals" /\ s[i].to = {"users", "wallets"}
AddsColumn(s, c) ==
  \E i \in DOMAIN s : /\ s[i].do \in Widening /\ c \in {s[i].table} \X s[i].cols
                      /\ \A j \in DOMAIN s : j > i => Spares(s[j], c)

LEMMA LevelsOfTables ==
  ASSUME NEW t, TableLevel(t) # 0
  PROVE  \/ t \in {"users", "profile", "marathons", "marathon_participants", "virtual_wallets",
                   "virtual_wallet_transactions", "withdrawals", "metatrader_accounts", "password_requests"}
         \/ t \in TokyoNames \cup SettingsNames
BY DEF TableLevel

LEMMA CreateMakes ==
  ASSUME NEW s, NEW i \in DOMAIN s, NEW t, NEW cols, NEW to, s[i] = Create(t, cols, to)
  PROVE  MakesTable(s, t)
<1>1. s[i].table = t /\ s[i].do = "create"
  BY DEF Create
<1> QED
  BY <1>1, Zenon DEF MakesTable

LEMMA CreateIfTablesMakes ==
  ASSUME NEW s, 1 \in DOMAIN s, s[1] = CreateIfTables("withdrawals", {"users", "wallets"})
  PROVE  MakesTable(s, "withdrawals")
<1>1. \A to : LET st == CreateIfTables("withdrawals", to) IN
              st.table = "withdrawals" /\ st.do = "create if tables" /\ st.to = to
  BY DEF CreateIfTables
<1>2. s[1].table = "withdrawals" /\ s[1].do = "create if tables" /\ s[1].to = {"users", "wallets"}
  BY <1>1, Zenon
<1> QED
  BY <1>2, Zenon DEF MakesTable

LEMMA TablesAreMade ==
  ASSUME NEW t, NEW m \in 1..27, TableLevel(t) = m
  PROVE  MakesTable(Release[m].up, t)
<1> USE TableLevels
<1>1. CASE t \in TokyoNames
  <2>1. m = 18
    BY <1>1
  <2>2. PICK i \in 1..5 : t = TokyoTables[i]
    BY <1>1, NamesAre
  <2>3. 4 + i \in DOMAIN Release[18].up /\ Release[18].up[4 + i] = Create(t, {}, {})
    BY <2>2, TokyoUps
  <2> QED
    BY <2>1, <2>3, CreateMakes
<1>2. CASE t \in SettingsNames
  <2>1. m = 20
    BY <1>2
  <2>2. 1 \in DOMAIN Release[20].up /\ 2 \in DOMAIN Release[20].up /\ 3 \in DOMAIN Release[20].up
    BY SettingsUps
  <2>3. CASE t = "user_settings"
    BY <2>1, <2>2, <2>3, SettingsUps, CreateMakes
  <2>4. CASE t = "sessions"
    BY <2>1, <2>2, <2>4, SettingsUps, CreateMakes
  <2>5. CASE t = "login_history"
    BY <2>1, <2>2, <2>5, SettingsUps, CreateMakes
  <2> QED
    BY <1>2, <2>3, <2>4, <2>5 DEF SettingsNames
<1>3. CASE t = "metatrader_accounts"
  <2>1. m = 18 /\ 1 \in DOMAIN Release[18].up /\ Release[18].up[1] = Create(t, {LinkColumn}, {})
    BY <1>3, TokyoUps
  <2> QED
    BY <2>1, CreateMakes
<1>4. CASE t = "users"
  <2>1. m = 2 /\ 1 \in DOMAIN Release[2].up /\ Release[2].up[1] = Create("users", {}, {})
    BY <1>4, UpsAre DEF Lists1
  <2> QED
    BY <1>4, <2>1, CreateMakes
<1>5. CASE t = "profile"
  <2>1. m = 3 /\ 1 \in DOMAIN Release[3].up /\ Release[3].up[1] = Create("profile", {}, {})
    BY <1>5, UpsAre DEF Lists2
  <2> QED
    BY <1>5, <2>1, CreateMakes
<1>6. CASE t = "marathons"
  <2>1. m = 12 /\ 1 \in DOMAIN Release[12].up /\ Release[12].up[1] = Create("marathons", PrizeColumns \cup {"status"}, {})
    BY <1>6, UpsAre DEF Lists3
  <2> QED
    BY <1>6, <2>1, CreateMakes
<1>7. CASE t = "marathon_participants"
  <2>1. m = 12 /\ 2 \in DOMAIN Release[12].up /\ Release[12].up[2] = Create("marathon_participants", CancelColumns, {"marathons", "users"})
    BY <1>7, UpsAre DEF Lists3
  <2> QED
    BY <1>7, <2>1, CreateMakes
<1>8. CASE t = "virtual_wallets"
  <2>1. m = 13 /\ 1 \in DOMAIN Release[13].up /\ Release[13].up[1] = Create("virtual_wallets", {}, {"users"})
    BY <1>8, UpsAre DEF Lists3
  <2> QED
    BY <1>8, <2>1, CreateMakes
<1>9. CASE t = "virtual_wallet_transactions"
  <2>1. m = 13 /\ 2 \in DOMAIN Release[13].up /\ Release[13].up[2] = Create("virtual_wallet_transactions", {}, {"virtual_wallets"})
    BY <1>9, UpsAre DEF Lists3
  <2> QED
    BY <1>9, <2>1, CreateMakes
<1>10. CASE t = "password_requests"
  <2>1. m = 27 /\ 1 \in DOMAIN Release[27].up /\ Release[27].up[1] = Create("password_requests", {}, {"marathon_participants", "users"})
    BY <1>10, UpsAre DEF Lists1
  <2> QED
    BY <1>10, <2>1, CreateMakes
<1>11. CASE t = "withdrawals"
  <2>1. m = 15 /\ 1 \in DOMAIN Release[15].up
        /\ Release[15].up[1] = CreateIfTables("withdrawals", {"users", "wallets"})
    BY <1>11, UpsAre DEF Lists1
  <2> QED
    BY <1>11, <2>1, CreateIfTablesMakes
<1> QED
  BY <1>1, <1>2, <1>3, <1>4, <1>5, <1>6, <1>7, <1>8, <1>9, <1>10, <1>11, LevelsOfTables

\* One statement that adds columns, which those after it spare.
Adds(a, c) == a.do \in Widening /\ a.table = c[1] /\ c[2] \in a.cols

LEMMA AddedOnce ==
  ASSUME NEW s, NEW a, NEW c, c = <<c[1], c[2]>>, Lists1(s, a), Adds(a, c)
  PROVE  AddsColumn(s, c)
<1> USE DEF Adds
<1>1. c \in {a.table} \X a.cols
  OBVIOUS
<1> QED
  BY <1>1 DEF AddsColumn, Lists1

LEMMA ColumnsAreAdded ==
  ASSUME NEW c, c = <<c[1], c[2]>>, NEW m \in 1..27, ColumnLevel(c) = m
  PROVE  AddsColumn(Release[m].up, c)
<1>1. CASE m = 5
  <2>1. c[1] = "profile" /\ c[2] \in SocialColumns
    BY <1>1 DEF ColumnLevel
  <2>2. c \in {"profile"} \X SocialColumns
    BY <2>1
  <2>3. Spares(DropTable("social_media"), c)
    BY DEF Spares, DropTable, Making, Narrowing, Rewriting
  <2>4. AddIfTable("profile", SocialColumns, {}).do \in Widening
        /\ AddIfTable("profile", SocialColumns, {}).table = "profile"
        /\ AddIfTable("profile", SocialColumns, {}).cols = SocialColumns
    BY DEF AddIfTable, Widening
  <2>5. Lists3(Release[5].up, Create("profile", {}, {}), AddIfTable("profile", SocialColumns, {}),
               DropTable("social_media"))
    BY UpsAre
  <2> QED
    BY <1>1, <2>2, <2>3, <2>4, <2>5 DEF AddsColumn, Lists3
<1>2. CASE m = 10
  <2>1. c[1] = "payment" /\ c[2] \in ProviderColumns
    BY <1>2 DEF ColumnLevel
  <2>2. c \in {"payment"} \X ProviderColumns
    BY <2>1
  <2>3. Spares(ReferenceIfTables("payment", "marathons"), c)
    BY DEF Spares, ReferenceIfTables, Making, Narrowing, Rewriting
  <2>4. AddIfTable("payment", ProviderColumns, {}).do \in Widening
        /\ AddIfTable("payment", ProviderColumns, {}).table = "payment"
        /\ AddIfTable("payment", ProviderColumns, {}).cols = ProviderColumns
    BY DEF AddIfTable, Widening
  <2>5. Lists2(Release[10].up, AddIfTable("payment", ProviderColumns, {}), ReferenceIfTables("payment", "marathons"))
    BY UpsAre
  <2> QED
    BY <1>2, <2>2, <2>3, <2>4, <2>5 DEF AddsColumn, Lists2
<1>3. CASE m = 12
  <2>1. c[1] = "marathons" /\ c[2] \in PrizeColumns
    BY <1>3 DEF ColumnLevel
  <2>2. c \in {"marathons"} \X PrizeColumns
    BY <2>1
  <2>4. AddIfTable("marathons", PrizeColumns, {}).do \in Widening
        /\ AddIfTable("marathons", PrizeColumns, {}).table = "marathons"
        /\ AddIfTable("marathons", PrizeColumns, {}).cols = PrizeColumns
    BY DEF AddIfTable, Widening
  <2>5. DOMAIN Release[12].up = 1..3 /\ Release[12].up[3] = AddIfTable("marathons", PrizeColumns, {})
    BY UpsAre DEF Lists3
  <2> QED
    BY <1>3, <2>2, <2>4, <2>5 DEF AddsColumn
<1>4. CASE m = 13
  <2>1. c[1] = "marathon_participants" /\ c[2] \in CancelColumns
    BY <1>4 DEF ColumnLevel
  <2>2. c \in {"marathon_participants"} \X CancelColumns
    BY <2>1
  <2>4. AddIfTable("marathon_participants", CancelColumns, {}).do \in Widening
        /\ AddIfTable("marathon_participants", CancelColumns, {}).table = "marathon_participants"
        /\ AddIfTable("marathon_participants", CancelColumns, {}).cols = CancelColumns
    BY DEF AddIfTable, Widening
  <2>5. DOMAIN Release[13].up = 1..3 /\ Release[13].up[3] = AddIfTable("marathon_participants", CancelColumns, {})
    BY UpsAre DEF Lists3
  <2> QED
    BY <1>4, <2>2, <2>4, <2>5 DEF AddsColumn
<1>5. CASE m = 7
  <2>1. c[1] = "profile" /\ c[2] = "balance"
    BY <1>5 DEF ColumnLevel
  <2>2. Lists1(Release[7].up, AddIfTable("profile", {"balance"}, {}))
    BY UpsAre
  <2>3. Adds(AddIfTable("profile", {"balance"}, {}), c)
    BY <2>1 DEF Adds, AddIfTable, Widening
  <2> QED
    BY <1>5, <2>2, <2>3, AddedOnce
<1>6. CASE m = 8
  <2>1. c[1] = "tickets" /\ c[2] = "tracking_id"
    BY <1>6 DEF ColumnLevel
  <2>2. Lists1(Release[8].up, AddIfTable("tickets", {"tracking_id"}, {}))
    BY UpsAre
  <2>3. Adds(AddIfTable("tickets", {"tracking_id"}, {}), c)
    BY <2>1 DEF Adds, AddIfTable, Widening
  <2> QED
    BY <1>6, <2>2, <2>3, AddedOnce
<1>7. CASE m = 9
  <2>1. c[1] = "payment" /\ c[2] = "isTest"
    BY <1>7 DEF ColumnLevel
  <2>2. Lists1(Release[9].up, AddIfTable("payment", {"isTest"}, {}))
    BY UpsAre
  <2>3. Adds(AddIfTable("payment", {"isTest"}, {}), c)
    BY <2>1 DEF Adds, AddIfTable, Widening
  <2> QED
    BY <1>7, <2>2, <2>3, AddedOnce
<1>8. CASE m = 11
  <2>1. c[1] = "metatrader_accounts" /\ c[2] = LinkColumn
    BY <1>8 DEF ColumnLevel
  <2>2. Lists1(Release[11].up, AddIfTable("metatrader_accounts", {LinkColumn}, {LinkIndex}))
    BY UpsAre
  <2>3. Adds(AddIfTable("metatrader_accounts", {LinkColumn}, {LinkIndex}), c)
    BY <2>1 DEF Adds, AddIfTable, Widening
  <2> QED
    BY <1>8, <2>2, <2>3, AddedOnce
<1>9. CASE m = 14
  <2>1. c[1] = "marathons" /\ c[2] = "status"
    BY <1>9 DEF ColumnLevel
  <2>2. Lists1(Release[14].up, AddMissing("marathons", {"status"}))
    BY UpsAre
  <2>3. Adds(AddMissing("marathons", {"status"}), c)
    BY <2>1 DEF Adds, AddMissing, Widening
  <2> QED
    BY <1>9, <2>2, <2>3, AddedOnce
<1>10. CASE m = 16
  <2>1. c[1] = "users" /\ c[2] = "isBanned"
    BY <1>10 DEF ColumnLevel
  <2>2. Lists1(Release[16].up, AddMissing("users", {"isBanned"}))
    BY UpsAre
  <2>3. Adds(AddMissing("users", {"isBanned"}), c)
    BY <2>1 DEF Adds, AddMissing, Widening
  <2> QED
    BY <1>10, <2>2, <2>3, AddedOnce
<1>11. CASE m = 17
  <2>1. c[1] = "virtual_wallets" /\ c[2] = "isFrozen"
    BY <1>11 DEF ColumnLevel
  <2>2. Lists1(Release[17].up, AddMissing("virtual_wallets", {"isFrozen"}))
    BY UpsAre
  <2>3. Adds(AddMissing("virtual_wallets", {"isFrozen"}), c)
    BY <2>1 DEF Adds, AddMissing, Widening
  <2> QED
    BY <1>11, <2>2, <2>3, AddedOnce
<1>12. CASE m = 22
  <2>1. c[1] = "sessions" /\ c[2] = "location"
    BY <1>12 DEF ColumnLevel
  <2>2. Lists1(Release[22].up, AddNew("sessions", {"location"}))
    BY UpsAre
  <2>3. Adds(AddNew("sessions", {"location"}), c)
    BY <2>1 DEF Adds, AddNew, Widening
  <2> QED
    BY <1>12, <2>2, <2>3, AddedOnce
<1>13. CASE m = 23
  <2>1. c[1] = "user_settings" /\ c[2] \in AnnouncementColumns
    BY <1>13 DEF ColumnLevel
  <2>2. Lists1(Release[23].up, AddIfTable("user_settings", AnnouncementColumns, {}))
    BY UpsAre
  <2>3. Adds(AddIfTable("user_settings", AnnouncementColumns, {}), c)
    BY <2>1 DEF Adds, AddIfTable, Widening
  <2> QED
    BY <1>13, <2>2, <2>3, AddedOnce
<1>14. CASE m = 24
  <2>1. c[1] = "users" /\ c[2] \in BanColumns
    BY <1>14 DEF ColumnLevel
  <2>2. Lists1(Release[24].up, AddMissing("users", BanColumns))
    BY UpsAre
  <2>3. Adds(AddMissing("users", BanColumns), c)
    BY <2>1 DEF Adds, AddMissing, Widening
  <2> QED
    BY <1>14, <2>2, <2>3, AddedOnce
<1>15. CASE m = 25
  <2>1. c[1] = "marathon_participants" /\ c[2] = "status"
    BY <1>15 DEF ColumnLevel
  <2>2. Lists1(Release[25].up, AddMissing("marathon_participants", {"status"}))
    BY UpsAre
  <2>3. Adds(AddMissing("marathon_participants", {"status"}), c)
    BY <2>1 DEF Adds, AddMissing, Widening
  <2> QED
    BY <1>15, <2>2, <2>3, AddedOnce
<1>16. CASE m = 26
  <2>1. c[1] = "marathon_participants" /\ c[2] = "disqualificationReason"
    BY <1>16 DEF ColumnLevel
  <2>2. Lists1(Release[26].up, AddMissing("marathon_participants", {"disqualificationReason"}))
    BY UpsAre
  <2>3. Adds(AddMissing("marathon_participants", {"disqualificationReason"}), c)
    BY <2>1 DEF Adds, AddMissing, Widening
  <2> QED
    BY <1>16, <2>2, <2>3, AddedOnce
<1>17. m \in {5, 7, 8, 9, 10, 11, 12, 13, 14, 16, 17, 22, 23, 24, 25, 26}
  BY DEF ColumnLevel
<1> QED
  BY <1>1, <1>2, <1>3, <1>4, <1>5, <1>6, <1>7, <1>8, <1>9, <1>10, <1>11, <1>12, <1>13, <1>14, <1>15,
       <1>16, <1>17

LEMMA SuitSpares ==
  ASSUME NEW st, NEW m \in 1..27, Suits(st, m)
  PROVE  /\ \A t : t \notin Retired /\ TableLevel(t) # m => Leaves(st, t)
         /\ \A c : ColumnLevel(c) < m => Spares(st, c)
         /\ m # 19 => \A x : Withholds(st, <<"faqs", x>>) /\ Spares(st, <<"faqs", x>>)
<1>1. \A t : t \notin Retired /\ TableLevel(t) # m => Leaves(st, t)
  BY DEF Suits, Leaves
<1>2. \A c : ColumnLevel(c) < m => Spares(st, c)
  BY Zenon DEF Suits
<1>3. ASSUME m # 19, NEW x PROVE Withholds(st, <<"faqs", x>>) /\ Spares(st, <<"faqs", x>>)
  <2>1. st.do \notin Rewriting /\ (st.do \in Making \cup Widening \cup Narrowing => st.table # "faqs")
    BY <1>3 DEF Suits
  <2>2. <<"faqs", x>>[1] = "faqs"
    OBVIOUS
  <2> QED
    BY <2>1, <2>2 DEF Withholds, Spares
<1> QED
  BY <1>1, <1>2, <1>3

LEMMA TablesKept ==
  ASSUME NEW after, NEW S, NEW s, NEW n, Traces(after, S, s, n), NEW m \in 1..27, AllSuit(s, m),
         NEW t \in S.tables, t \notin Retired, TableLevel(t) # m
  PROVE  t \in Execute(S, s).tables
<1>1. n \in Nat /\ 0 \in 0..n /\ after[0] = S /\ DOMAIN s = 1..n
  BY DEF Traces
<1>2. ASSUME NEW k \in (0 + 1)..n PROVE Leaves(s[k], t)
  <2>1. Suits(s[k], m)
    BY <1>1 DEF AllSuit
  <2> QED
    BY <2>1, SuitSpares
<1> QED
  BY <1>1, <1>2, TableArrives

LEMMA ColumnsKept ==
  ASSUME NEW after, NEW S, NEW s, NEW n, Traces(after, S, s, n), NEW m \in 1..27, AllSuit(s, m),
         NEW c, c = <<c[1], c[2]>>, ColumnLevel(c) < m, Whole(S, c)
  PROVE  Whole(Execute(S, s), c)
<1>1. n \in Nat /\ 0 \in 0..n /\ after[0] = S /\ DOMAIN s = 1..n
  BY DEF Traces
<1>2. ASSUME NEW k \in (0 + 1)..n PROVE Spares(s[k], c)
  <2>1. Suits(s[k], m)
    BY <1>1 DEF AllSuit
  <2> QED
    BY <2>1, SuitSpares
<1> QED
  BY <1>1, <1>2, ColumnArrives

LEMMA FaqsStay ==
  ASSUME NEW after, NEW S, NEW s, NEW n, Traces(after, S, s, n), NEW m \in 1..27, AllSuit(s, m), m # 19
  PROVE  /\ FaqsJson \notin S.cols => FaqsJson \notin Execute(S, s).cols
         /\ FaqsBinaryJson \notin S.cols => FaqsBinaryJson \notin Execute(S, s).cols
         /\ Whole(S, FaqsJson) => Whole(Execute(S, s), FaqsJson)
<1>1. n \in Nat /\ 0 \in 0..n /\ after[0] = S /\ DOMAIN s = 1..n
  BY DEF Traces
<1>2. ASSUME NEW k \in (0 + 1)..n, NEW x
      PROVE  Withholds(s[k], <<"faqs", x>>) /\ Spares(s[k], <<"faqs", x>>)
  <2>1. Suits(s[k], m)
    BY <1>1 DEF AllSuit
  <2> QED
    BY <2>1, SuitSpares
<1>3. \A x : <<"faqs", x>> \notin S.cols => <<"faqs", x>> \notin Execute(S, s).cols
  <2> SUFFICES ASSUME NEW x, <<"faqs", x>> \notin S.cols PROVE <<"faqs", x>> \notin Execute(S, s).cols
    OBVIOUS
  <2>1. PICK c : c = <<"faqs", x>>
    OBVIOUS
  <2>2. \A k \in (0 + 1)..n : Withholds(s[k], c)
    BY <1>2, <2>1
  <2>3. c \notin Execute(S, s).cols
    BY <1>1, <2>1, <2>2, ColumnStaysAway
  <2> QED
    BY <2>1, <2>3
<1>4. Whole(S, FaqsJson) => Whole(Execute(S, s), FaqsJson)
  <2>1. PICK c : c = FaqsJson
    OBVIOUS
  <2>2. \A k \in (0 + 1)..n : Spares(s[k], c)
    BY <1>2, <2>1 DEF FaqsJson
  <2>3. c = <<c[1], c[2]>>
    BY <2>1 DEF FaqsJson
  <2>4. Whole(S, c) => Whole(Execute(S, s), c)
    BY <1>1, <2>2, <2>3, ColumnArrives
  <2> QED
    BY <2>1, <2>4
<1> QED
  BY <1>3, <1>4 DEF FaqsJson, FaqsBinaryJson

\* A migration drops no table but the retired ones, and no column but of the settings.
LEMMA UpsDrop ==
  ASSUME NEW m \in 1..27, m # 4, NEW i \in DOMAIN Release[m].up
  PROVE  LET st == Release[m].up[i] IN
         /\ st.do \in {"drop table", "drop old profiles"} => st.table \in Retired
         /\ st.do \in Narrowing => st.table = "user_settings"
<1> DEFINE s == Release[m].up
<1>1. MildUps(s)
  BY MigrationsGoUp
<1> HIDE DEF s
<1>2. PICK st : st = s[i]
  OBVIOUS
<1>3. st \in Range(s)
  BY <1>2 DEF s, Range
<1>4. Gentle(st) /\ st # DropOldProfiles
  BY <1>1, <1>3 DEF MildUps, Mild
<1>5. CASE st.do \in Adding
  BY <1>2, <1>5 DEF s, Adding, Narrowing
<1>6. CASE st \in {DropTable("social_media"), DropTable("meta_trader_accounts"), Translate,
                   DropIfThere("user_settings", RetiredSettings)}
  <2>1. \A x : DropTable(x).do = "drop table" /\ DropTable(x).table = x
    BY DEF DropTable
  <2>2. Translate.do = "translate"
    BY DEF Translate
  <2>3. \A x : DropIfThere("user_settings", x).do = "drop columns" /\ DropIfThere("user_settings", x).table = "user_settings"
    BY DEF DropIfThere
  <2>4. /\ st.do \in {"drop table", "drop old profiles"} => st.table \in Retired
        /\ st.do \in Narrowing => st.table = "user_settings"
    BY <1>6, <2>1, <2>2, <2>3 DEF Retired, Narrowing
  <2> QED
    BY <1>2, <2>4 DEF s
<1> QED
  BY <1>4, <1>5, <1>6 DEF Gentle

\* The lists of the migrations other than the fourth trace what they do.
LEMMA UpTraces ==
  ASSUME NEW m \in 1..27, m # 4, NEW S, IsSchema(S), Housed(S)
  PROVE  /\ AllSuit(Release[m].up, m)
         /\ \E n \in Nat : \E after : Traces(after, S, Release[m].up, n)
<1>1. PICK s : s = Release[m].up
  OBVIOUS
<1>2. MildUps(s)
  BY <1>1, MigrationsGoUp
<1>3. PICK n \in Nat : DOMAIN s = 1..n
  BY <1>2, LenProperties DEF MildUps
<1>4. \E after : Traces(after, S, s, n)
  BY <1>3, ExecuteTraces
<1> QED
  BY <1>1, <1>4, UpsSuit

LEMMA DownTraces ==
  ASSUME NEW m \in 1..27, NEW S, IsSchema(S), Housed(S)
  PROVE  /\ m \notin {18, 20} => AllSuit(Release[m].down, m)
         /\ \E n \in Nat : \E after : Traces(after, S, Release[m].down, n)
<1>1. PICK n \in Nat : DOMAIN Release[m].down = 1..n
  BY DownsAreSequences
<1>2. \E after : Traces(after, S, Release[m].down, n)
  BY <1>1, ExecuteTraces
<1> QED
  BY <1>2, DownsSuit

\* The table a statement makes is there at the end.
LEMMA MadeTableArrives ==
  ASSUME NEW m \in 1..27, m # 4, NEW S, NEW O, BuiltTables(m - 1, S, O),
         NEW s, s = Release[m].up, NEW n, NEW after, Traces(after, S, s, n), Execute(S, s).ok,
         NEW t, TableLevel(t) = m, t \notin Retired, t = "withdrawals" => "wallets" \in O.tables
  PROVE  t \in Execute(S, s).tables
<1>1. PICK i \in DOMAIN s : /\ s[i].table = t
                            /\ \/ s[i].do = "create"
                               \/ s[i].do = "create if tables" /\ i = 1 /\ t = "withdrawals" /\ s[i].to = {"users", "wallets"}
  <2>1. MakesTable(s, t)
    BY TablesAreMade
  <2> QED
    BY <2>1, Zenon DEF MakesTable
<1>2. n \in Nat /\ DOMAIN s = 1..n /\ i \in 1..n /\ i \in 0..n /\ after[0] = S
  BY DEF Traces
<1>3. MovesTables(after[i - 1], s[i], after[i]) /\ after[i].ok
  BY <1>2 DEF Traces, Moves
<1>4. t \in after[i].tables
  <2>1. CASE s[i].do = "create"
    BY <1>1, <1>3, <2>1 DEF MovesTables
  <2>2. CASE s[i].do = "create if tables" /\ i = 1 /\ t = "withdrawals" /\ s[i].to = {"users", "wallets"}
    <3>1. m = 15 /\ TableLevel("users") = 2 /\ TableLevel("wallets") = 0
      BY <2>2, TableLevels
    <3>2. PICK k : k = m - 1 /\ k = 14
      BY <3>1
    <3>3. "wallets" \in O.tables
      BY <2>2
    <3>4. Present("users", k, O) /\ Present("wallets", k, O)
      BY <3>1, <3>2, <3>3 DEF Present
    <3>5. "users" \in S.tables /\ "wallets" \in S.tables
      BY <3>2, <3>4 DEF BuiltTables, Retired
    <3>6. i - 1 = 0
      <4>1. i = 1
        BY <2>2, Zenon
      <4> QED
        BY <4>1
    <3>7. after[i - 1] = S
      BY <1>2, <3>6, Zenon
    <3> QED
      BY <1>1, <1>3, <2>2, <3>5, <3>7 DEF MovesTables
  <2> QED
    BY <1>1, <2>1, <2>2
<1>5. ASSUME NEW k \in (i + 1)..n PROVE Leaves(s[k], t)
  <2>1. k \in DOMAIN s
    BY <1>2
  <2>2. s[k].do \in {"drop table", "drop old profiles"} => s[k].table \in Retired
    BY <2>1, UpsDrop
  <2> QED
    BY <2>2 DEF Leaves
<1> QED
  BY <1>2, <1>4, <1>5, TableArrives

\* So is the column one adds.
LEMMA AddedColumnArrives ==
  ASSUME NEW m \in 1..27, NEW S, NEW s, s = Release[m].up, NEW n, NEW after, Traces(after, S, s, n),
         Execute(S, s).ok, NEW c, c = <<c[1], c[2]>>, ColumnLevel(c) = m
  PROVE  Whole(Execute(S, s), c)
<1>1. PICK i \in DOMAIN s : /\ s[i].do \in Widening /\ c \in {s[i].table} \X s[i].cols
                            /\ \A j \in DOMAIN s : j > i => Spares(s[j], c)
  BY ColumnsAreAdded DEF AddsColumn
<1>2. n \in Nat /\ DOMAIN s = 1..n /\ i \in 1..n /\ i \in 0..n
  BY DEF Traces
<1>3. PICK X, st, E : X = after[i - 1] /\ st = s[i] /\ E = after[i]
  OBVIOUS
<1>4. MovesTables(X, st, E) /\ MovesColumns(X, st, E) /\ E.ok
  BY <1>2, <1>3 DEF Traces, Moves
<1>5. Whole(after[i], c)
  <2>1. c[1] = st.table
    BY <1>1, <1>3
  <2>2. st.do \notin Making
    BY <1>1, <1>3 DEF Making, Widening
  <2>3. c[1] \in E.tables => st.table \in X.tables
    BY <1>4, <2>1, <2>2 DEF MovesTables
  <2>4. st.table \in X.tables => c \in E.cols
    BY <1>1, <1>3, <1>4 DEF MovesColumns
  <2> QED
    BY <1>3, <2>3, <2>4 DEF Whole
<1>6. \A k \in (i + 1)..n : Spares(s[k], c)
  BY <1>1, <1>2
<1> QED
  BY <1>2, <1>5, <1>6, ColumnArrives

LEMMA LevelsAreNumbers ==
  /\ \A t : TableLevel(t) \in 0..27 /\ TableLevel(t) \notin {1, 4, 19}
  /\ \A c : ColumnLevel(c) \in 0..28 /\ ColumnLevel(c) \notin {1, 4, 19}
<1>1. \A t : TableLevel(t) \in 0..27 /\ TableLevel(t) \notin {1, 4, 19}
  BY DEF TableLevel
<1>2. \A c : ColumnLevel(c) \in 0..28 /\ ColumnLevel(c) \notin {1, 4, 19}
  BY DEF ColumnLevel
<1> QED
  BY <1>1, <1>2

\* A list of one statement.
LEMMA OneStatement ==
  ASSUME NEW S, IsSchema(S), Housed(S), NEW s, NEW st, Lists1(s, st)
  PROVE  Execute(S, s) = Exec(S, st) /\ Moves(S, st, Exec(S, st)) /\ IsSchema(Exec(S, st))
<1>1. DOMAIN s = 1..1 /\ s[1] = st /\ 1 \in Nat
  BY DEF Lists1
<1>2. PICK after : Traces(after, S, s, 1)
  BY <1>1, ExecuteTraces
<1>3. 1 - 1 = 0 /\ 1 \in 1..1
  OBVIOUS
<1>4. /\ after[0] = S /\ after[1] = Execute(S, s)
      /\ after[1] = Exec(after[1 - 1], s[1]) /\ Moves(after[1 - 1], s[1], after[1])
  BY <1>3, <1>2 DEF Traces
<1>5. IsSchema(Exec(S, st))
  BY ExecIs
<1> QED
  BY <1>1, <1>3, <1>4, <1>5

\* Texts replace what was there of JSON; a migration that finds JSON fails.
LEMMA Translating ==
  ASSUME NEW S, IsSchema(S), Housed(S), Execute(S, Release[19].up).ok
  PROVE  FaqsJson \notin S.cols /\ FaqsJson \notin Execute(S, Release[19].up).cols
<1>1. Lists1(Release[19].up, Translate)
  BY UpsAre
<1>2. PICK st : st = Translate
  OBVIOUS
<1>3. st.do = "translate" /\ st.table = "faqs"
  BY <1>2 DEF Translate
<1>4. PICK E : E = Exec(S, st) /\ E = Execute(S, Release[19].up) /\ MovesColumns(S, st, E) /\ E.ok
  <2>1. Execute(S, Release[19].up) = Exec(S, st) /\ Moves(S, st, Exec(S, st))
    BY <1>1, <1>2, OneStatement
  <2> QED
    BY <2>1 DEF Moves
<1>5. FaqsJson \notin E.cols
  BY <1>3, <1>4 DEF MovesColumns, FaqsJson
<1>6. ~Fails(S, st)
  <2>1. CASE S.ok
    <3>1. Fails(S, st) => E = [S EXCEPT !.ok = FALSE]
      BY <1>4, <2>1 DEF Exec
    <3> QED
      BY <1>4, <3>1 DEF IsSchema, Fields
  <2>2. CASE ~S.ok
    BY <1>4, <2>2 DEF Exec
  <2> QED
    BY <2>1, <2>2
<1>7. AsJson \notin ColumnsOf(S, "faqs")
  BY <1>3, <1>6 DEF Fails
<1>8. FaqsJson \notin S.cols
  <2>1. FaqsJson[1] = "faqs" /\ FaqsJson[2] = AsJson
    BY DEF FaqsJson
  <2> QED
    BY <1>7, <2>1 DEF ColumnsOf
<1> QED
  BY <1>4, <1>5, <1>8

LEMMA Untranslating ==
  ASSUME NEW S, IsSchema(S), Housed(S), OneType(S, "faqs"), Execute(S, Release[19].down).ok
  PROVE  FaqsJson \notin Execute(S, Release[19].down).cols
<1>1. Lists1(Release[19].down, Untranslate)
  BY DownsAre
<1>2. PICK st : st = Untranslate
  OBVIOUS
<1>3. st.do = "untranslate" /\ st.table = "faqs"
  BY <1>2 DEF Untranslate
<1>4. PICK E : E = Execute(S, Release[19].down) /\ MovesColumns(S, st, E) /\ E.ok
  <2>1. Execute(S, Release[19].down) = Exec(S, st) /\ Moves(S, st, Exec(S, st))
    BY <1>1, <1>2, OneStatement
  <2> QED
    BY <2>1 DEF Moves
<1>5. FaqsJson \notin E.cols
  BY <1>3, <1>4 DEF MovesColumns, FaqsJson
<1> QED
  BY <1>4, <1>5

\* After a migration, what it and those before it make is there.
LEMMA UpBuilds ==
  ASSUME NEW m \in 1..27, m # 4, NEW S, NEW O, IsSchema(S), Housed(S), Housed(O), Built(m - 1, S, O),
         Execute(S, Release[m].up).ok
  PROVE  Built(m, Execute(S, Release[m].up), O)
<1>1. PICK s : s = Release[m].up
  OBVIOUS
<1>2. AllSuit(s, m)
  BY <1>1, UpTraces
<1>3a. PICK n \in Nat : \E after : Traces(after, S, s, n)
  BY <1>1, UpTraces
<1>3. PICK after : n \in Nat /\ Traces(after, S, s, n)
  BY <1>3a
<1>4. PICK E : E = Execute(S, s) /\ E.ok
  BY <1>1
<1>5. BuiltTables(m, E, O)
  <2> SUFFICES ASSUME NEW t, t \notin Retired, Present(t, m, O) PROVE t \in E.tables
    BY DEF BuiltTables
  <2>1. CASE TableLevel(t) = m
    <3>1. (t = "withdrawals" => "wallets" \in O.tables) /\ BuiltTables(m - 1, S, O)
      BY <2>1 DEF Present, Built
    <3> QED
      BY <1>1, <1>3, <1>4, <2>1, <3>1, MadeTableArrives
  <2>2. CASE TableLevel(t) # m
    <3>1. Present(t, m - 1, O)
      BY <2>2, LevelsAreNumbers DEF Present
    <3>2. t \in S.tables
      BY <3>1 DEF Built, BuiltTables
    <3> QED
      BY <1>2, <1>3, <1>4, <2>2, <3>2, TablesKept
  <2> QED
    BY <2>1, <2>2
<1>6. BuiltColumns(m, E)
  <2> SUFFICES ASSUME NEW c \in EntityColumns, ColumnLevel(c) <= m PROVE Whole(E, c)
    BY DEF BuiltColumns
  <2>1. c = <<c[1], c[2]>>
    BY EntityColumnsAre
  <2>2. CASE ColumnLevel(c) = m
    BY <1>1, <1>3, <1>4, <2>1, <2>2, AddedColumnArrives
  <2>3. CASE ColumnLevel(c) # m
    <3>1. ColumnLevel(c) < m /\ ColumnLevel(c) <= m - 1
      BY <2>3, LevelsAreNumbers
    <3>2. Whole(S, c)
      BY <3>1 DEF Built, BuiltColumns
    <3> QED
      BY <1>2, <1>3, <1>4, <2>1, <3>1, <3>2, ColumnsKept
  <2> QED
    BY <2>2, <2>3
<1>7. BuiltFaqs(m, E, O)
  <2>1. BuiltFaqs(m - 1, S, O)
    BY DEF Built
  <2>2. CASE m # 19
    <3>1. /\ FaqsJson \notin S.cols => FaqsJson \notin E.cols
          /\ FaqsBinaryJson \notin S.cols => FaqsBinaryJson \notin E.cols
          /\ Whole(S, FaqsJson) => Whole(E, FaqsJson)
      BY <1>2, <1>3, <1>4, <2>2, FaqsStay
    <3>2. OneType(E, "faqs")
      BY <2>1, <3>1 DEF BuiltFaqs, OneType, FaqsJson, FaqsBinaryJson
    <3>3. (m - 1 < 19 => m < 19) /\ (m < 19 => m - 1 < 19)
      BY <2>2
    <3> QED
      BY <2>1, <3>1, <3>2, <3>3 DEF BuiltFaqs
  <2>3. CASE m = 19
    <3>1. FaqsJson \notin S.cols /\ FaqsJson \notin E.cols
      BY <1>1, <1>4, <2>3, Translating
    <3>2. FaqsJson \notin O.cols
      <4>1. ASSUME FaqsJson \in O.cols PROVE FALSE
        <5>1. "faqs" \in O.tables
          <6>1. FaqsJson[1] = "faqs"
            BY DEF FaqsJson
          <6> QED
            BY <4>1, <6>1 DEF Housed
        <5>2. Present("faqs", m - 1, O)
          BY <5>1, TableLevels DEF Present
        <5>3. "faqs" \in S.tables
          BY <5>2 DEF Built, BuiltTables, Retired
        <5>4. Whole(S, FaqsJson)
          BY <2>1, <4>1 DEF BuiltFaqs
        <5> QED
          BY <3>1, <5>3, <5>4 DEF Whole, FaqsJson
      <4> QED
        BY <4>1
    <3>3. OneType(E, "faqs")
      BY <3>1 DEF OneType, FaqsJson
    <3> QED
      BY <2>3, <3>2, <3>3 DEF BuiltFaqs
  <2> QED
    BY <2>2, <2>3
<1> QED
  BY <1>1, <1>4, <1>5, <1>6, <1>7 DEF Built

\* The fourth migration finds UUIDs, and does nothing.
LEMMA FourthUp ==
  ASSUME NEW S, IsSchema(S), Housed(S), S.uuid
  PROVE  Execute(S, Release[4].up) = S
<1>1. Lists1(Release[4].up, DropOldProfiles)
  BY UpsAre
<1>2. Execute(S, Release[4].up) = Exec(S, DropOldProfiles)
  BY <1>1, OneStatement
<1>3. DropOldProfiles.do = "drop old profiles"
  BY DEF DropOldProfiles
<1>4. ~Fails(S, DropOldProfiles)
  BY <1>3 DEF Fails
<1>5. Effect(S, DropOldProfiles) = S
  BY <1>3, EffectsAre DEF Does
<1> QED
  BY <1>2, <1>4, <1>5 DEF Exec

LEMMA FourthBuilds ==
  ASSUME NEW S, NEW O, Built(3, S, O)
  PROVE  Built(4, S, O)
<1>1. BuiltTables(4, S, O)
  <2> SUFFICES ASSUME NEW t, t \notin Retired, Present(t, 4, O) PROVE t \in S.tables
    BY DEF BuiltTables
  <2>1. Present(t, 3, O)
    BY LevelsAreNumbers DEF Present
  <2> QED
    BY <2>1 DEF Built, BuiltTables
<1>2. BuiltColumns(4, S)
  <2> SUFFICES ASSUME NEW c \in EntityColumns, ColumnLevel(c) <= 4 PROVE Whole(S, c)
    BY DEF BuiltColumns
  <2>1. ColumnLevel(c) <= 3
    BY LevelsAreNumbers
  <2> QED
    BY <2>1 DEF Built, BuiltColumns
<1>3. BuiltFaqs(4, S, O)
  BY DEF Built, BuiltFaqs
<1> QED
  BY <1>1, <1>2, <1>3 DEF Built

\* What reverts a migration leaves what those before it made.
LEMMA DownBuilds ==
  ASSUME NEW m \in 1..27, m \notin {18, 20}, NEW S, NEW O, IsSchema(S), Housed(S), Built(m, S, O),
         Execute(S, Release[m].down).ok
  PROVE  Built(m - 1, Execute(S, Release[m].down), O)
<1>1. PICK s : s = Release[m].down
  OBVIOUS
<1>2. AllSuit(s, m)
  BY <1>1, DownTraces
<1>3a. PICK n \in Nat : \E after : Traces(after, S, s, n)
  BY <1>1, DownTraces
<1>3. PICK after : n \in Nat /\ Traces(after, S, s, n)
  BY <1>3a
<1>4. PICK E : E = Execute(S, s) /\ E.ok
  BY <1>1
<1>5. BuiltTables(m - 1, E, O)
  <2> SUFFICES ASSUME NEW t, t \notin Retired, Present(t, m - 1, O) PROVE t \in E.tables
    BY DEF BuiltTables
  <2>1. TableLevel(t) # m /\ Present(t, m, O)
    BY LevelsAreNumbers DEF Present
  <2>2. t \in S.tables
    BY <2>1 DEF Built, BuiltTables
  <2> QED
    BY <1>2, <1>3, <1>4, <2>1, <2>2, TablesKept
<1>6. BuiltColumns(m - 1, E)
  <2> SUFFICES ASSUME NEW c \in EntityColumns, ColumnLevel(c) <= m - 1 PROVE Whole(E, c)
    BY DEF BuiltColumns
  <2>1. c = <<c[1], c[2]>> /\ ColumnLevel(c) < m /\ ColumnLevel(c) <= m
    BY EntityColumnsAre, LevelsAreNumbers
  <2>2. Whole(S, c)
    BY <2>1 DEF Built, BuiltColumns
  <2> QED
    BY <1>2, <1>3, <1>4, <2>1, <2>2, ColumnsKept
<1>7. BuiltFaqs(m - 1, E, O)
  <2>1. BuiltFaqs(m, S, O)
    BY DEF Built
  <2>2. CASE m # 19
    <3>1. /\ FaqsJson \notin S.cols => FaqsJson \notin E.cols
          /\ FaqsBinaryJson \notin S.cols => FaqsBinaryJson \notin E.cols
          /\ Whole(S, FaqsJson) => Whole(E, FaqsJson)
      BY <1>2, <1>3, <1>4, <2>2, FaqsStay
    <3>2. OneType(E, "faqs")
      BY <2>1, <3>1 DEF BuiltFaqs, OneType, FaqsJson, FaqsBinaryJson
    <3>3. (m - 1 < 19 => m < 19) /\ (m < 19 => m - 1 < 19)
      BY <2>2
    <3> QED
      BY <2>1, <3>1, <3>2, <3>3 DEF BuiltFaqs
  <2>3. CASE m = 19
    <3>1. FaqsJson \notin E.cols
      BY <1>1, <1>4, <2>1, <2>3, Untranslating DEF BuiltFaqs
    <3>2. FaqsJson \notin O.cols
      BY <2>1, <2>3 DEF BuiltFaqs
    <3>3. OneType(E, "faqs")
      BY <3>1 DEF OneType, FaqsJson
    <3> QED
      BY <3>1, <3>2, <3>3 DEF BuiltFaqs
  <2> QED
    BY <2>2, <2>3
<1> QED
  BY <1>1, <1>4, <1>5, <1>6, <1>7 DEF Built

\* The foreign keys of the tables of the two migrations that cannot be reverted have generated names.
NoNamed(S) == \A r \in S.refs : r.name = "named" => r.table \notin TokyoNames \cup SettingsNames

LEMMA NamesStayGenerated ==
  ASSUME NEW after, NEW S, NEW s, NEW n, Traces(after, S, s, n), NEW m \in 1..27, AllSuit(s, m), NoNamed(S)
  PROVE  NoNamed(Execute(S, s))
<1> SUFFICES ASSUME NEW r \in Execute(S, s).refs, r.name = "named", r.table \in TokyoNames \cup SettingsNames
             PROVE  FALSE
  BY DEF NoNamed
<1>1. n \in 0..n /\ after[n] = Execute(S, s) /\ DOMAIN s = 1..n
  BY DEF Traces
<1>2. r \in S.refs \/ \E k \in 1..n : Aims(s[k], r.to) /\ Bears(s[k], r)
  BY <1>1, LinksComeFrom
<1>3. CASE r \in S.refs
  BY <1>3 DEF NoNamed
<1>4. ASSUME NEW k \in 1..n, Aims(s[k], r.to), Bears(s[k], r) PROVE FALSE
  <2>1. PICK st : st = s[k] /\ Suits(st, m) /\ Aims(st, r.to) /\ Bears(st, r)
    BY <1>1, <1>4 DEF AllSuit
  <2>2. r.table = st.table
    BY <2>1 DEF Bears, Related, TokyoNames, SettingsNames
  <2>3. st.do # "rekey"
    BY <2>1, <2>2 DEF Suits, TokyoNames, SettingsNames
  <2>4. st.do \notin {"reference", "reference once"}
    BY <2>1 DEF Bears, Generated
  <2>5. st.do # "reference if tables"
    BY <2>1, <2>2 DEF Suits
  <2>6. st.do \in Making => st.to = {}
    BY <2>1, <2>2 DEF Suits, Makable
  <2> QED
    BY <2>1, <2>3, <2>4, <2>5, <2>6 DEF Aims, Referring
<1> QED
  BY <1>2, <1>3, <1>4

DropsIndex(st) == st.do = "drop index"
Unnames(st) == st.do = "drop reference" /\ st.name = "named" /\ st.table \in TokyoNames \cup SettingsNames

\* A list that drops a foreign key by a name no such key has.
LEMMA MissingNameFails ==
  ASSUME NEW after, NEW S, NEW s, NEW n, Traces(after, S, s, n), NoNamed(S), NEW p \in 1..n,
         \A k \in 1..(p - 1) : DropsIndex(s[k]), Unnames(s[p])
  PROVE  ~Execute(S, s).ok
<1>1. n \in Nat /\ p - 1 \in 0..n /\ p \in 0..n /\ after[n] = Execute(S, s)
  BY DEF Traces
<1>2. PICK X, st, E : X = after[p - 1] /\ st = s[p] /\ E = after[p]
  OBVIOUS
<1>3. E = Exec(X, st) /\ IsSchema(X) /\ (after[n].ok => E.ok)
  BY <1>1, <1>2 DEF Traces
<1>4. \A r \in X.refs : r \in S.refs
  <2> SUFFICES ASSUME NEW r \in X.refs, r \notin S.refs PROVE FALSE
    OBVIOUS
  <2>1. PICK k \in 1..(p - 1) : Aims(s[k], r.to)
    BY <1>1, <1>2, LinksComeFrom
  <2> QED
    BY <2>1 DEF Aims, Making, Referring, DropsIndex
<1>5. Unnames(st)
  BY <1>2
<1>6. Fails(X, st)
  <2>1. \A r \in X.refs : r.table # st.table \/ r.name # st.name
    BY <1>4, <1>5 DEF NoNamed, Unnames
  <2> QED
    BY <1>5, <2>1 DEF Fails, Unnames
<1>7. ~E.ok
  <2>1. CASE X.ok
    <3>1. E = [X EXCEPT !.ok = FALSE]
      BY <1>3, <1>6, <2>1 DEF Exec
    <3> QED
      BY <1>3, <3>1 DEF IsSchema, Fields
  <2>2. CASE ~X.ok
    BY <1>3, <2>2 DEF Exec
  <2> QED
    BY <2>1, <2>2
<1> QED
  BY <1>1, <1>3, <1>7

LEMMA TokyoDowns ==
  LET down == Release[18].down IN
  /\ DOMAIN down = 1..19
  /\ \A k \in 1..8 : DropsIndex(down[k])
  /\ Unnames(down[9])
<1> DEFINE a == [i \in 1..6 |-> DropIndex(TokyoTables[TokyoIndexes[7 - i][1]], TokyoIndexes[7 - i][2])]
           b == <<DropIndex("metatrader_accounts", LinkIndex),
                  DropIndex("metatrader_accounts", "IDX_metatrader_accounts_userId")>>
           c == [i \in 1..5 |-> DropReference(TokyoTables[6 - i], "named")]
           d == [i \in 1..5 |-> DropTable(TokyoTables[6 - i])]
           e == <<DropTable("metatrader_accounts")>>
<1>1. \A t, name : DropsIndex(DropIndex(t, name))
  BY DEF DropsIndex, DropIndex
<1>0. \A t \in TokyoNames \cup SettingsNames : Unnames(DropReference(t, "named"))
  BY DEF Unnames, DropReference
<1>2. IsList(a, 6) /\ \A i \in 1..6 : DropsIndex(a[i])
  BY <1>1 DEF IsList
<1>3. IsList(b, 2) /\ \A i \in 1..2 : DropsIndex(b[i])
  BY <1>1 DEF IsList
<1>4. IsList(c, 5) /\ Unnames(c[1])
  <2>1. IsList(c, 5) /\ c[1] = DropReference(TokyoTables[5], "named")
    BY DEF IsList
  <2> QED
    BY <1>0, <2>1, NamesAre
<1>5. IsList(d, 5) /\ IsList(e, 1)
  BY DEF IsList
<1>6. Release[18].down = (((a \o b) \o c) \o d) \o e
  BY DEF Release, CreateTokyoDataTables, DropTokyoTables
<1> HIDE DEF a, b, c, d, e
<1>7. PICK s1, s2, s3, s4 : s1 = a \o b /\ s2 = s1 \o c /\ s3 = s2 \o d /\ s4 = s3 \o e
  OBVIOUS
<1>8. IsList(s1, 8) /\ (\A i \in 1..6 : s1[i] = a[i]) /\ \A i \in 1..2 : s1[6 + i] = b[i]
  <2>1. Joins(s1, a, b, 6, 2)
    BY <1>2, <1>3, <1>7, ConcatElements
  <2> QED
    BY <2>1 DEF Joins
<1>9. IsList(s2, 13) /\ (\A i \in 1..8 : s2[i] = s1[i]) /\ s2[9] = c[1]
  <2>1. Joins(s2, s1, c, 8, 5)
    BY <1>8, <1>4, <1>7, ConcatElements
  <2> QED
    BY <2>1 DEF Joins
<1>10. IsList(s3, 18) /\ (\A i \in 1..13 : s3[i] = s2[i])
  <2>1. Joins(s3, s2, d, 13, 5)
    BY <1>9, <1>5, <1>7, ConcatElements
  <2> QED
    BY <2>1 DEF Joins
<1>11. IsList(s4, 19) /\ (\A i \in 1..18 : s4[i] = s3[i])
  <2>1. Joins(s4, s3, e, 18, 1)
    BY <1>10, <1>5, <1>7, ConcatElements
  <2> QED
    BY <2>1 DEF Joins
<1>12. \A k \in 1..8 : DropsIndex(s1[k])
  <2>1. \A k \in 1..8 : k \in 1..6 \/ (k - 6 \in 1..2 /\ k = 6 + (k - 6))
    OBVIOUS
  <2> QED
    BY <1>2, <1>3, <1>8, <2>1
<1>13. \A k \in 1..9 : s4[k] = s2[k]
  BY <1>10, <1>11
<1>14. \A k \in 1..8 : s4[k] = s1[k]
  BY <1>9, <1>13
<1>15. s4 = Release[18].down /\ DOMAIN s4 = 1..19
  BY <1>6, <1>7, <1>11 DEF IsList
<1>16. Unnames(s4[9])
  BY <1>4, <1>9, <1>13
<1> QED
  BY <1>12, <1>14, <1>15, <1>16

LEMMA SettingsDowns ==
  LET down == Release[20].down IN
  /\ DOMAIN down = 1..10
  /\ \A k \in 1..4 : DropsIndex(down[k])
  /\ Unnames(down[5])
<1> DEFINE a == [i \in 1..4 |-> DropIndex(SettingsTables[SettingsIndexes[5 - i][1]], SettingsIndexes[5 - i][2])]
           b == [i \in 1..3 |-> DropReference(SettingsTables[4 - i], "named")]
           c == [i \in 1..3 |-> DropTable(SettingsTables[4 - i])]
<1>1. \A t, name : DropsIndex(DropIndex(t, name))
  BY DEF DropsIndex, DropIndex
<1>0. \A t \in TokyoNames \cup SettingsNames : Unnames(DropReference(t, "named"))
  BY DEF Unnames, DropReference
<1>2. IsList(a, 4) /\ \A i \in 1..4 : DropsIndex(a[i])
  BY <1>1 DEF IsList
<1>3. IsList(b, 3) /\ Unnames(b[1])
  <2>1. IsList(b, 3) /\ b[1] = DropReference(SettingsTables[3], "named")
    BY DEF IsList
  <2> QED
    BY <1>0, <2>1, NamesAre
<1>4. IsList(c, 3)
  BY DEF IsList
<1>5. Release[20].down = (a \o b) \o c
  BY DEF Release, CreateSettingsTables
<1> HIDE DEF a, b, c
<1>6. PICK s1, s2 : s1 = a \o b /\ s2 = s1 \o c
  OBVIOUS
<1>7. IsList(s1, 7) /\ (\A i \in 1..4 : s1[i] = a[i]) /\ s1[5] = b[1]
  <2>1. Joins(s1, a, b, 4, 3)
    BY <1>2, <1>3, <1>6, ConcatElements
  <2> QED
    BY <2>1 DEF Joins
<1>8. IsList(s2, 10) /\ \A i \in 1..7 : s2[i] = s1[i]
  <2>1. Joins(s2, s1, c, 7, 3)
    BY <1>7, <1>4, <1>6, ConcatElements
  <2> QED
    BY <2>1 DEF Joins
<1>9. s2 = Release[20].down /\ DOMAIN s2 = 1..10
  BY <1>5, <1>6, <1>8 DEF IsList
<1>10. (\A k \in 1..4 : DropsIndex(s2[k])) /\ Unnames(s2[5])
  BY <1>2, <1>3, <1>7, <1>8
<1> QED
  BY <1>9, <1>10

LEMMA TwoDownsFail ==
  ASSUME NEW m \in {18, 20}, NEW S, IsSchema(S), Housed(S), NoNamed(S)
  PROVE  ~Execute(S, Release[m].down).ok
<1>1. CASE m = 18
  <2>1. PICK s : s = Release[18].down
    OBVIOUS
  <2>2. PICK after : Traces(after, S, s, 19)
    BY <2>1, TokyoDowns, ExecuteTraces
  <2>3. \A k \in 1..(9 - 1) : DropsIndex(s[k])
    BY <2>1, TokyoDowns
  <2>4. Unnames(s[9]) /\ 9 \in 1..19
    BY <2>1, TokyoDowns
  <2>5. ~Execute(S, s).ok
    BY <2>2, <2>3, <2>4, MissingNameFails
  <2> QED
    BY <1>1, <2>1, <2>5
<1>2. CASE m = 20
  <2>1. PICK s : s = Release[20].down
    OBVIOUS
  <2>2. PICK after : Traces(after, S, s, 10)
    BY <2>1, SettingsDowns, ExecuteTraces
  <2>3. \A k \in 1..(5 - 1) : DropsIndex(s[k])
    BY <2>1, SettingsDowns
  <2>4. Unnames(s[5]) /\ 5 \in 1..10
    BY <2>1, SettingsDowns
  <2>5. ~Execute(S, s).ok
    BY <2>2, <2>3, <2>4, MissingNameFails
  <2> QED
    BY <1>2, <2>1, <2>5
<1> QED
  BY <1>1, <1>2

------------------------------------------------------------------------------
(***************************************************************************)
(* What lets every migration that is still to come succeed.                *)
(***************************************************************************)

\* Databases the migrations were written for, and r reverts.
Fit(O, r) ==
  /\ O.tables \cap (TokyoNames \cup SettingsNames) = {}
  /\ "metatrader_accounts" \in O.tables => Link \in O.cols /\ ~(r > 0)
  /\ FaqsJson \notin O.cols
  /\ ~(O.uuid /\ \E c \in O.rows : c[1] \in Related)
  /\ "metatrader_accounts" \in O.tables => O.uuid
  /\ \A t \in LeftOut : <<t, Rest>> \in O.rows => ~O.uuid /\ t \in Authored

\* No id that is astray keeps a foreign key to users from being made.
Pointed == SettingsNames \cup {"metatrader_accounts"}
Unpointed(S) == \A t \in S.astray : t \in LeftOut /\ t \notin Pointed /\ <<t, Rest>> \notin S.rows

\* What migration k leaves to those after it.
ReadyForKeys(k, S) == k < 3 => ~(S.uuid /\ \E c \in S.rows : c[1] \in Related)
ReadyForUsers(k, S, O) ==
  /\ Unpointed(S)
  /\ k < 3 => /\ S.uuid = O.uuid
              /\ \A t \in LeftOut : <<t, Rest>> \in S.rows => <<t, Rest>> \in O.rows
ReadyForTokyo(k, S, O) ==
  k < 18 => /\ S.tables \cap TokyoNames = {}
            /\ "metatrader_accounts" \in S.tables => "metatrader_accounts" \in O.tables /\ Link \in S.cols
            /\ \A i \in S.idx : i[1] # "metatrader_accounts"
ReadyForSettings(k, S) == k < 20 => S.tables \cap SettingsNames = {} /\ Anchored(S)
Ready(k, S, O) ==
  /\ \A r \in S.refs : r.to \notin Retired
  /\ ReadyForKeys(k, S)
  /\ ReadyForUsers(k, S, O)
  /\ ReadyForTokyo(k, S, O)
  /\ ReadyForSettings(k, S)
  /\ k < 22 => Location \notin S.cols

LEMMA SuitLimits ==
  ASSUME NEW st, NEW m \in 1..27, Suits(st, m)
  PROVE  /\ m < 22 /\ st.do \in Widening => st.table # "sessions"
         /\ m < 18 => st.do # "index"
         /\ m # 11 /\ st.do = "add if table" => st.idx = {}
         /\ m # 3 => st.do # "rekey"
         /\ m # 19 => st.do \notin Rewriting
         /\ m # 18 => st.do # "reference once"
<1>1. /\ st.do \in Widening /\ st.table = "sessions" => m >= 22
      /\ st.do = "index" => m >= 18
      /\ st.do = "add if table" => st.idx = {} \/ m = 11
      /\ st.do = "rekey" => m = 3
      /\ st.do \in Rewriting => m = 19
      /\ st.do = "reference once" => m = 18
  BY Zenon DEF Suits
<1>2. (m < 22 => ~(m >= 22)) /\ (m < 18 => ~(m >= 18))
  OBVIOUS
<1> QED
  BY <1>1, <1>2, Zenon

LEMMA NothingRetired ==
  ASSUME NEW after, NEW S, NEW s, NEW n, Traces(after, S, s, n), NEW m \in 1..27, AllSuit(s, m),
         \A r \in S.refs : r.to \notin Retired, NEW j \in 0..n
  PROVE  \A r \in after[j].refs : r.to \notin Retired
<1> SUFFICES ASSUME NEW r \in after[j].refs, r.to \in Retired PROVE FALSE
  OBVIOUS
<1>1. n \in Nat /\ DOMAIN s = 1..n
  BY DEF Traces
<1>2. PICK k \in 1..j : Aims(s[k], r.to)
  BY LinksComeFrom
<1>3. Suits(s[k], m)
  BY <1>1, <1>2 DEF AllSuit
<1> QED
  BY <1>2, <1>3 DEF Suits

\* Before users are given UUIDs no row is made.
LEMMA KeysStay ==
  ASSUME NEW after, NEW S, NEW s, NEW n, Traces(after, S, s, n), NEW m \in 1..27, AllSuit(s, m), m < 3
  PROVE  Execute(S, s).uuid = S.uuid /\ Execute(S, s).rows \subseteq S.rows
<1>1. n \in Nat /\ DOMAIN s = 1..n /\ after[0] = S /\ after[n] = Execute(S, s)
  BY DEF Traces
<1>2. ASSUME NEW k \in 1..n PROVE s[k].do # "rekey" /\ s[k].do \notin Rewriting
  <2>1. Suits(s[k], m)
    BY <1>1 DEF AllSuit
  <2>2. m # 3 /\ m # 19
    OBVIOUS
  <2> QED
    BY <2>1, <2>2, SuitLimits
<1> DEFINE G == {k \in 0..n : after[k].uuid = S.uuid /\ after[k].rows \subseteq S.rows}
<1>3. 0 \in G /\ 0 \in 0..n
  BY <1>1
<1>4. ASSUME NEW k \in (0 + 1)..n, k - 1 \in G PROVE k \in G
  <2>1. k \in 1..n /\ k \in 0..n
    BY <1>1
  <2>2. PICK X, st, E : X = after[k - 1] /\ st = s[k] /\ E = after[k]
    OBVIOUS
  <2>3. Moves(X, st, E) /\ st.do # "rekey" /\ st.do \notin Rewriting /\ X.uuid = S.uuid /\ X.rows \subseteq S.rows
    BY <1>2, <1>4, <2>1, <2>2 DEF Traces
  <2>4. E.uuid = S.uuid
    BY <2>3, Zenon DEF Moves
  <2>5. E.rows \subseteq S.rows
    BY <2>3 DEF Moves, MovesColumns
  <2> QED
    BY <2>1, <2>2, <2>4, <2>5
<1> HIDE DEF G
<1>5. n \in G
  BY <1>1, <1>3, <1>4, StepsReach
<1> QED
  BY <1>1, <1>5 DEF G

LEMMA KeysStayReady ==
  ASSUME NEW after, NEW S, NEW s, NEW n, Traces(after, S, s, n), NEW m \in 1..27, AllSuit(s, m),
         m < 3, ReadyForKeys(0, S)
  PROVE  ReadyForKeys(0, Execute(S, s))
<1>1. Execute(S, s).uuid = S.uuid /\ Execute(S, s).rows \subseteq S.rows
  BY KeysStay
<1> QED
  BY <1>1 DEF ReadyForKeys

LEMMA StaysUnpointed ==
  ASSUME NEW after, NEW S, NEW s, NEW n, Traces(after, S, s, n), NEW m \in 1..27, AllSuit(s, m),
         m # 3, Unpointed(S), \A k \in 1..n : s[k].do \in Rewriting => s[k].table = "faqs"
  PROVE  Unpointed(Execute(S, s))
<1>1. n \in Nat /\ DOMAIN s = 1..n /\ n \in 0..n /\ after[n] = Execute(S, s)
  BY DEF Traces
<1>2. ASSUME NEW k \in 1..n PROVE s[k].do # "rekey"
  <2>1. Suits(s[k], m)
    BY <1>1 DEF AllSuit
  <2> QED
    BY <2>1, SuitLimits
<1>3. after[n].astray \subseteq S.astray
  BY <1>1, <1>2, StraysComeFrom
<1>4. ASSUME NEW t \in Execute(S, s).astray
      PROVE  t \in LeftOut /\ t \notin Pointed /\ <<t, Rest>> \notin Execute(S, s).rows
  <2>1. t \in LeftOut /\ t \notin Pointed /\ <<t, Rest>> \notin S.rows
    BY <1>1, <1>3, <1>4 DEF Unpointed
  <2>2. t # "faqs"
    BY <2>1 DEF LeftOut
  <2>0. PICK c : c = <<t, Rest>>
    OBVIOUS
  <2>3. c = <<t, Rest>> /\ c[1] = t
    BY <2>0
  <2>4. \A k \in 1..n : s[k].do \in Rewriting => s[k].table # c[1]
    BY <2>2, <2>3
  <2>5. c \notin Execute(S, s).rows
    BY <2>1, <2>3, <2>4, RowsComeFrom
  <2> QED
    BY <2>1, <2>3, <2>5
<1> QED
  BY <1>4 DEF Unpointed

\* Migration 19 only rewrites, and rewrites questions only.
LEMMA OnlyQuestionsRewritten ==
  ASSUME NEW m \in 1..27, NEW s, s = Release[m].up \/ s = Release[m].down, AllSuit(s, m), NEW n, DOMAIN s = 1..n
  PROVE  \A k \in 1..n : s[k].do \in Rewriting => s[k].table = "faqs"
<1> SUFFICES ASSUME NEW k \in 1..n, s[k].do \in Rewriting PROVE s[k].table = "faqs"
  OBVIOUS
<1>1. m = 19
  BY DEF AllSuit, Suits
<1>2. s[k] = Translate \/ s[k] = Untranslate
  <2>1. Lists1(Release[19].up, Translate) /\ Lists1(Release[19].down, Untranslate)
    BY UpsAre, DownsAre
  <2>2. Lists1(s, Translate) \/ Lists1(s, Untranslate)
    BY <1>1, <2>1
  <2>3. k \in DOMAIN s
    OBVIOUS
  <2>4. CASE Lists1(s, Translate)
    <3>1. DOMAIN s = 1..1 /\ s[1] = Translate
      BY <2>4 DEF Lists1
    <3>2. k \in 1..1
      BY <2>3, <3>1
    <3>3. k = 1
      BY <3>2
    <3> QED
      BY <3>1, <3>3
  <2>5. CASE Lists1(s, Untranslate)
    <3>1. DOMAIN s = 1..1 /\ s[1] = Untranslate
      BY <2>5 DEF Lists1
    <3>2. k \in 1..1
      BY <2>3, <3>1
    <3>3. k = 1
      BY <3>2
    <3> QED
      BY <3>1, <3>3
  <2> QED
    BY <2>2, <2>4, <2>5
<1> QED
  BY <1>2 DEF Translate, Untranslate

LEMMA UsersStayReady ==
  ASSUME NEW after, NEW S, NEW s, NEW n, Traces(after, S, s, n), NEW m \in 1..27, AllSuit(s, m),
         m # 3, s = Release[m].up \/ s = Release[m].down, NEW O,
         NEW k, NEW j, ReadyForUsers(k, S, O), j < 3 => m < 3 /\ k < 3
  PROVE  ReadyForUsers(j, Execute(S, s), O)
<1>1. DOMAIN s = 1..n
  BY DEF Traces
<1>2. \A i \in 1..n : s[i].do \in Rewriting => s[i].table = "faqs"
  BY <1>1, OnlyQuestionsRewritten
<1>3. Unpointed(Execute(S, s))
  BY <1>2, StaysUnpointed DEF ReadyForUsers
<1>4. ASSUME j < 3
      PROVE  /\ Execute(S, s).uuid = O.uuid
             /\ \A t \in LeftOut : <<t, Rest>> \in Execute(S, s).rows => <<t, Rest>> \in O.rows
  <2>1. m < 3 /\ k < 3
    BY <1>4
  <2>2. Execute(S, s).uuid = S.uuid /\ Execute(S, s).rows \subseteq S.rows
    BY <2>1, KeysStay
  <2> QED
    BY <2>1, <2>2 DEF ReadyForUsers
<1> QED
  BY <1>3, <1>4 DEF ReadyForUsers

\* The third migration leaves ids astray, but in no row and in no table that is pointed to.
LEMMA ThirdSettles ==
  ASSUME NEW S, NEW O, NEW r, IsSchema(S), Housed(S), Fit(O, r), Ready(2, S, O)
  PROVE  Unpointed(Execute(S, Release[3].up))
<1>1. PICK s, a, b : s = Release[3].up /\ a = Create("profile", {}, {}) /\ b = Rekey
  OBVIOUS
<1>2. DOMAIN s = 1..2 /\ s[1] = a /\ s[2] = b /\ 2 \in Nat
  BY <1>1, UpsAre DEF Lists2
<1>3. a.do = "create" /\ a.table = "profile" /\ b.do = "rekey"
  BY <1>1 DEF Create, Rekey
<1>4. PICK after : Traces(after, S, s, 2)
  BY <1>2, ExecuteTraces
<1>5. PICK X, E : X = after[1] /\ E = after[2]
  OBVIOUS
<1>6. Moves(S, a, X) /\ Strays(S, a, X) /\ Moves(X, b, E) /\ Strays(X, b, E) /\ E = Execute(S, s)
  <2>1. 1 \in 1..2 /\ 1 - 1 = 0 /\ 2 \in 1..2 /\ 2 - 1 = 1
    OBVIOUS
  <2>2. Moves(after[1 - 1], s[1], after[1]) /\ Strays(after[1 - 1], s[1], after[1])
    BY <1>4, <2>1 DEF Traces
  <2>3. Moves(after[2 - 1], s[2], after[2]) /\ Strays(after[2 - 1], s[2], after[2])
    BY <1>4, <2>1 DEF Traces
  <2>4. after[0] = S /\ after[2] = Execute(S, s)
    BY <1>4 DEF Traces
  <2> QED
    BY <1>2, <1>5, <2>1, <2>2, <2>3, <2>4
<1>7. X.uuid = S.uuid /\ X.astray \subseteq S.astray
  BY <1>3, <1>6 DEF Moves, Strays
<1>8. X.rows \subseteq S.rows /\ E.rows \subseteq X.rows
  BY <1>3, <1>6 DEF Moves, MovesColumns, Rewriting
<1>9. \A t \in X.tables : t \in S.tables \/ t = "profile"
  BY <1>3, <1>6 DEF Moves, MovesTables
<1>10. /\ Unpointed(S) /\ S.uuid = O.uuid
       /\ \A t \in LeftOut : <<t, Rest>> \in S.rows => <<t, Rest>> \in O.rows
  <2>1. 2 < 3
    OBVIOUS
  <2> QED
    BY <2>1 DEF Ready, ReadyForUsers
<1>11. "metatrader_accounts" \in S.tables => "metatrader_accounts" \in O.tables
  <2>1. 2 < 18
    OBVIOUS
  <2> QED
    BY <2>1 DEF Ready, ReadyForTokyo
<1>12. S.tables \cap SettingsNames = {}
  <2>1. 2 < 20
    OBVIOUS
  <2> QED
    BY <2>1 DEF Ready, ReadyForSettings
<1>13. ASSUME NEW t \in LeftOut, <<t, Rest>> \in S.rows PROVE ~O.uuid /\ t \in Authored
  BY <1>10, <1>13 DEF Fit
<1>14. ASSUME NEW t \in E.astray
       PROVE  t \in LeftOut /\ t \notin Pointed /\ <<t, Rest>> \notin E.rows
  <2>1. CASE t \in X.astray
    BY <1>7, <1>8, <1>10, <2>1 DEF Unpointed
  <2>2. CASE t \in Stranded(X)
    <3>1. t \in LeftOut /\ t \in X.tables /\ (IF X.uuid THEN <<t, Rest>> \in X.rows ELSE t \notin Authored)
      BY <2>2 DEF Stranded
    <3>2. t # "profile"
      BY <3>1 DEF LeftOut
    <3>3. t \in S.tables
      BY <1>9, <3>1, <3>2
    <3>4. ~X.uuid /\ t \notin Authored
      BY <1>7, <1>8, <1>10, <1>13, <3>1
    <3>5. <<t, Rest>> \notin E.rows
      BY <1>8, <1>13, <3>1, <3>4
    <3>6. t # "metatrader_accounts"
      BY <1>7, <1>10, <1>11, <3>3, <3>4 DEF Fit
    <3> QED
      BY <1>12, <3>1, <3>3, <3>5, <3>6 DEF Pointed
  <2> QED
    BY <1>6, <2>1, <2>2 DEF Strays
<1> QED
  BY <1>1, <1>6, <1>14 DEF Unpointed

\* Statements of the migrations before those that make these tables do not make them.
LEMMA NotYetMade ==
  ASSUME NEW after, NEW S, NEW s, NEW n, Traces(after, S, s, n), NEW m \in 1..27, AllSuit(s, m),
         NEW t, m < TableLevel(t), t \notin S.tables
  PROVE  t \notin Execute(S, s).tables
<1>1. n \in Nat /\ DOMAIN s = 1..n /\ after[0] = S /\ 0 \in 0..n
  BY DEF Traces
<1>2. ASSUME NEW k \in (0 + 1)..n PROVE s[k].do \in Making => s[k].table # t
  <2>1. Suits(s[k], m)
    BY <1>1 DEF AllSuit
  <2>2. s[k].do \in Making => TableLevel(s[k].table) <= m
    BY <2>1 DEF Suits, Makable
  <2> QED
    BY <2>2, LevelsAreNumbers
<1> QED
  BY <1>1, <1>2, TableStaysAway

LEMMA IndexesStayAway ==
  ASSUME NEW after, NEW S, NEW s, NEW n, Traces(after, S, s, n), NEW m \in 1..27, AllSuit(s, m),
         m < 18, m # 11, \A i \in S.idx : i[1] # "metatrader_accounts"
  PROVE  \A i \in Execute(S, s).idx : i[1] # "metatrader_accounts"
<1> SUFFICES ASSUME NEW i \in Execute(S, s).idx, i \notin S.idx PROVE FALSE
  OBVIOUS
<1>1. n \in Nat /\ DOMAIN s = 1..n /\ n \in 0..n /\ after[n] = Execute(S, s)
  BY DEF Traces
<1>2. PICK k \in 1..n : Lays(s[k], i)
  BY <1>1, IndexesComeFrom
<1>3. Suits(s[k], m)
  BY <1>1, <1>2 DEF AllSuit
<1>4. s[k].do # "index" /\ (s[k].do = "add if table" => s[k].idx = {})
  BY <1>3, SuitLimits
<1> QED
  BY <1>2, <1>4 DEF Lays

LEMMA StaysAnchored ==
  ASSUME NEW after, NEW S, NEW s, NEW n, Traces(after, S, s, n), NEW m \in 1..27, AllSuit(s, m),
         m # 18, Anchored(S)
  PROVE  Anchored(Execute(S, s))
<1>1. n \in Nat /\ DOMAIN s = 1..n
  BY DEF Traces
<1>2. ASSUME NEW k \in 1..n PROVE Tied(after[k - 1], s[k])
  <2>1. Suits(s[k], m)
    BY <1>1 DEF AllSuit
  <2>2. s[k].do # "reference once"
    BY <2>1, SuitLimits
  <2> QED
    BY <2>2 DEF Tied
<1> QED
  BY <1>2, AnchorsHold

LEMMA LocationStaysAway ==
  ASSUME NEW after, NEW S, NEW s, NEW n, Traces(after, S, s, n), NEW m \in 1..27, AllSuit(s, m),
         m < 22, Location \notin S.cols
  PROVE  Location \notin Execute(S, s).cols
<1>1. n \in Nat /\ DOMAIN s = 1..n /\ after[0] = S /\ 0 \in 0..n
  BY DEF Traces
<1>2. PICK c : c = Location /\ c[1] = "sessions" /\ c[2] = "location" /\ c[2] \notin {Rest, AsText, AsBinaryJson}
  BY DEF Location, Rest, AsText, AsBinaryJson
<1>3. ASSUME NEW k \in (0 + 1)..n PROVE Withholds(s[k], c)
  <2>1. PICK st : st = s[k] /\ Suits(st, m)
    BY <1>1 DEF AllSuit
  <2>2. st.do \in Making /\ st.table = "sessions" => st.cols = {}
    BY <2>1 DEF Suits, Makable
  <2>3. st.do \in Widening => st.table # "sessions"
    BY <2>1, SuitLimits
  <2>4. Withholds(st, c)
    BY <1>2, <2>2, <2>3 DEF Withholds
  <2> QED
    BY <2>1, <2>4
<1>4. c \notin Execute(S, s).cols
  BY <1>1, <1>2, <1>3, ColumnStaysAway
<1> QED
  BY <1>2, <1>4

LEMMA ReferencedOnce ==
  \A k \in 1..20 : Release[18].up[k].do = "reference once" => Release[18].up[k].table = "metatrader_accounts"
<1> DEFINE Fine(st) == st.do = "reference once" => st.table = "metatrader_accounts"
<1>1. \A t, cols, to : Fine(Create(t, cols, to))
  BY DEF Create
<1>2. \A t, name : Fine(Index(t, name))
  BY DEF Index
<1>3. \A t, to : Fine(Reference(t, to))
  BY DEF Reference
<1>4. Fine(ReferenceOnce("metatrader_accounts", "users"))
  BY DEF ReferenceOnce
<1> DEFINE up == Release[18].up
<1> HIDE DEF Fine
<1>5. /\ Fine(up[1]) /\ Fine(up[2]) /\ Fine(up[3]) /\ Fine(up[4])
      /\ \A i \in 1..5 : Fine(up[4 + i]) /\ Fine(up[9 + i])
      /\ \A i \in 1..6 : Fine(up[14 + i])
  BY <1>1, <1>2, <1>3, <1>4, TokyoUps
<1> HIDE DEF up
<1>6. \A i \in 1..20 : \/ i \in {1, 2, 3, 4}
                       \/ i - 4 \in 1..5 /\ i = 4 + (i - 4)
                       \/ i - 9 \in 1..5 /\ i = 9 + (i - 9)
                       \/ i - 14 \in 1..6 /\ i = 14 + (i - 14)
  OBVIOUS
<1>7. \A i \in 1..20 : Fine(up[i])
  BY <1>5, <1>6
<1> QED
  BY <1>7 DEF Fine, up

LEMMA LinkStays ==
  ASSUME NEW m \in 1..27, m < 18, m # 4, NEW S, NEW s, s = Release[m].up, NEW n, NEW after,
         Traces(after, S, s, n), Whole(S, Link)
  PROVE  Whole(Execute(S, s), Link)
<1>1. n \in Nat /\ DOMAIN s = 1..n /\ after[0] = S /\ 0 \in 0..n
  BY DEF Traces
<1>5. AllSuit(s, m)
  BY UpsSuit
<1>2. PICK c : c = Link /\ c[1] = "metatrader_accounts" /\ c[2] = LinkColumn /\ c = <<c[1], c[2]>>
  BY DEF Link
<1>3. ASSUME NEW k \in (0 + 1)..n PROVE Spares(s[k], c)
  <2>1. PICK st : st = s[k] /\ Suits(st, m)
    BY <1>1, <1>5 DEF AllSuit
  <2>2. st.do \in Narrowing => st.table = "user_settings"
    <3>1. k \in DOMAIN s
      BY <1>1
    <3> QED
      BY <2>1, <3>1, UpsDrop
  <2>3. st.do \in Making => st.table # "metatrader_accounts"
    <3>1. st.do \in Making => TableLevel(st.table) <= m
      BY <2>1, Zenon DEF Suits, Makable
    <3> QED
      BY <3>1, TableLevels
  <2>4. st.do \notin Rewriting
    <3>1. m # 19
      OBVIOUS
    <3> QED
      BY <2>1, <3>1, SuitLimits
  <2>5. Spares(st, c)
    BY <1>2, <2>2, <2>3, <2>4 DEF Spares
  <2> QED
    BY <2>1, <2>5
<1>4. Whole(Execute(S, s), c)
  BY <1>1, <1>2, <1>3, ColumnArrives
<1> QED
  BY <1>2, <1>4

\* Accounts linked to participants already are given no index again.
LEMMA LinkedOnce ==
  ASSUME NEW S, IsSchema(S), Housed(S), \A i \in S.idx : i[1] # "metatrader_accounts",
         "metatrader_accounts" \in S.tables => Link \in S.cols
  PROVE  \A i \in Execute(S, Release[11].up).idx : i[1] # "metatrader_accounts"
<1>1. PICK st : st = AddIfTable("metatrader_accounts", {LinkColumn}, {LinkIndex})
  OBVIOUS
<1>2. st.do = "add if table" /\ st.table = "metatrader_accounts" /\ st.cols = {LinkColumn}
  BY <1>1 DEF AddIfTable
<1>3. PICK E : E = Execute(S, Release[11].up) /\ MovesLinks(S, st, E)
  <2>1. Lists1(Release[11].up, st)
    BY <1>1, UpsAre
  <2>2. Moves(S, st, Exec(S, st)) /\ Execute(S, Release[11].up) = Exec(S, st)
    BY <2>1, OneStatement
  <2> QED
    BY <2>2 DEF Moves
<1>4. "metatrader_accounts" \in S.tables => {LinkColumn} \subseteq ColumnsOf(S, "metatrader_accounts")
  <2>1. Link[1] = "metatrader_accounts" /\ Link[2] = LinkColumn
    BY DEF Link
  <2> QED
    BY <2>1 DEF ColumnsOf
<1>5. \A i \in E.idx : i \in S.idx
  BY <1>2, <1>3, <1>4 DEF MovesLinks
<1> QED
  BY <1>3, <1>5

\* The first statement of the eighteenth makes the table the fourth gives a foreign key.
LEMMA TokyoStaysAnchored ==
  ASSUME NEW S, IsSchema(S), Housed(S), Anchored(S), Execute(S, Release[18].up).ok
  PROVE  Anchored(Execute(S, Release[18].up))
<1>1. PICK s : s = Release[18].up /\ DOMAIN s = 1..20
  BY TokyoUps
<1>2. PICK after : Traces(after, S, s, 20)
  BY <1>1, ExecuteTraces
<1>3. MovesTables(after[0], s[1], after[1]) /\ after[1].ok
  <2>1. 1 \in 1..20 /\ 1 \in 0..20 /\ 1 - 1 = 0
    OBVIOUS
  <2>2. Moves(after[1 - 1], s[1], after[1]) /\ (after[20].ok => after[1].ok) /\ after[20] = Execute(S, s)
    BY <1>2, <2>1 DEF Traces
  <2> QED
    BY <1>1, <2>1, <2>2 DEF Moves
<1>4. s[1].do = "create" /\ s[1].table = "metatrader_accounts"
  <2>1. s[1] = Create("metatrader_accounts", {LinkColumn}, {})
    BY <1>1, TokyoUps
  <2> QED
    BY <2>1 DEF Create
<1>5. "metatrader_accounts" \in after[1].tables
  BY <1>3, <1>4 DEF MovesTables
<1>6. ASSUME NEW k \in 1..20 PROVE Tied(after[k - 1], s[k])
  <2>1. CASE k = 1
    BY <1>4, <2>1 DEF Tied
  <2>2. CASE k # 1
    <3>1. k - 1 \in 1..20 /\ 1 \in 0..20
      BY <2>2
    <3>2. ASSUME NEW j \in (1 + 1)..(k - 1) PROVE Leaves(s[j], "metatrader_accounts")
      <4>1. j \in DOMAIN s
        BY <1>1
      <4>2. 18 \in 1..27 /\ 18 # 4 /\ j \in DOMAIN Release[18].up
        BY <1>1, <4>1
      <4>3. LET x == Release[18].up[j] IN x.do \in {"drop table", "drop old profiles"} => x.table \in Retired
        BY <4>2, UpsDrop
      <4>4. s[j].do \in {"drop table", "drop old profiles"} => s[j].table \in Retired
        BY <1>1, <4>3
      <4> QED
        BY <4>4 DEF Leaves, Retired
    <3>3. "metatrader_accounts" \in after[k - 1].tables
      BY <1>2, <1>5, <3>1, <3>2, TableStays
    <3>4. s[k].do = "reference once" => s[k].table = "metatrader_accounts"
      BY <1>1, ReferencedOnce
    <3> QED
      BY <3>3, <3>4 DEF Tied
  <2> QED
    BY <2>1, <2>2
<1> QED
  BY <1>1, <1>2, <1>6, AnchorsHold

\* Three of the lists that revert.
LEMMA ThirdDownFails ==
  ASSUME NEW S, IsSchema(S), Housed(S)
  PROVE  ~Execute(S, Release[3].down).ok
<1>1. Lists1(Release[3].down, Throw)
  BY DownsAre
<1>2. Execute(S, Release[3].down) = Exec(S, Throw)
  BY <1>1, OneStatement
<1>3. Fails(S, Throw)
  BY DEF Fails, Throw
<1>4. PICK E : E = Exec(S, Throw)
  OBVIOUS
<1>5. CASE S.ok
  <2>1. E = [S EXCEPT !.ok = FALSE]
    BY <1>3, <1>4, <1>5 DEF Exec
  <2> QED
    BY <1>2, <1>4, <2>1 DEF IsSchema, Fields
<1>6. CASE ~S.ok
  BY <1>2, <1>6 DEF Exec
<1> QED
  BY <1>5, <1>6

LEMMA UnlinkedKeepsIndexes ==
  ASSUME NEW S, IsSchema(S), Housed(S), \A i \in S.idx : i[1] # "metatrader_accounts"
  PROVE  \A i \in Execute(S, Release[11].down).idx : i[1] # "metatrader_accounts"
<1>1. PICK st : st = DropIfThere("metatrader_accounts", {LinkColumn})
  OBVIOUS
<1>2. st.do = "drop columns"
  BY <1>1 DEF DropIfThere
<1>3. PICK E : E = Execute(S, Release[11].down) /\ MovesLinks(S, st, E)
  <2>1. Lists1(Release[11].down, st)
    BY <1>1, DownsAre
  <2>2. Moves(S, st, Exec(S, st)) /\ Execute(S, Release[11].down) = Exec(S, st)
    BY <2>1, OneStatement
  <2> QED
    BY <2>2 DEF Moves
<1>4. \A i \in E.idx : i \in S.idx
  BY <1>2, <1>3 DEF MovesLinks
<1> QED
  BY <1>3, <1>4

LEMMA LocationDropped ==
  ASSUME NEW S, IsSchema(S), Housed(S), Execute(S, Release[22].down).ok
  PROVE  Location \notin Execute(S, Release[22].down).cols
<1>1. PICK st : st = DropExisting("sessions", {"location"})
  OBVIOUS
<1>2. st.do = "drop existing" /\ st.table = "sessions" /\ st.cols = {"location"}
  BY <1>1 DEF DropExisting
<1>3. PICK E : E = Execute(S, Release[22].down) /\ MovesColumns(S, st, E) /\ E.ok
  <2>1. Lists1(Release[22].down, st)
    BY <1>1, DownsAre
  <2>2. Moves(S, st, Exec(S, st)) /\ Execute(S, Release[22].down) = Exec(S, st)
    BY <2>1, OneStatement
  <2> QED
    BY <2>2 DEF Moves
<1>4. Location \in {st.table} \X st.cols /\ st.do \in Narrowing
  BY <1>2 DEF Location, Narrowing
<1>5. Location \notin E.cols
  BY <1>3, <1>4 DEF MovesColumns
<1> QED
  BY <1>3, <1>5

LEMMA UpStaysReady ==
  ASSUME NEW m \in 1..27, m # 4, NEW S, NEW O, NEW r, IsSchema(S), Housed(S), Fit(O, r),
         Ready(m - 1, S, O), Execute(S, Release[m].up).ok
  PROVE  Ready(m, Execute(S, Release[m].up), O)
<1>1. PICK s : s = Release[m].up
  OBVIOUS
<1>2. AllSuit(s, m)
  BY <1>1, UpTraces
<1>3a. PICK n \in Nat : \E after : Traces(after, S, s, n)
  BY <1>1, UpTraces
<1>3. PICK after : n \in Nat /\ Traces(after, S, s, n)
  BY <1>3a
<1>4. PICK E : E = Execute(S, s) /\ E.ok
  BY <1>1
<1>5. \A u \in E.refs : u.to \notin Retired
  <2>1. n \in 0..n /\ after[n] = E
    BY <1>3, <1>4 DEF Traces
  <2>2. \A u \in S.refs : u.to \notin Retired
    BY DEF Ready
  <2> QED
    BY <1>2, <1>3, <2>1, <2>2, NothingRetired
<1>6. ReadyForKeys(m, E)
  <2> SUFFICES ASSUME m < 3 PROVE ReadyForKeys(0, E)
    BY DEF ReadyForKeys
  <2>1. ReadyForKeys(0, S)
    BY DEF Ready, ReadyForKeys
  <2> QED
    BY <1>2, <1>3, <1>4, <2>1, KeysStayReady
<1>7. ReadyForTokyo(m, E, O)
  <2> SUFFICES ASSUME m < 18
               PROVE  /\ E.tables \cap TokyoNames = {}
                      /\ "metatrader_accounts" \in E.tables => "metatrader_accounts" \in O.tables /\ Link \in E.cols
                      /\ \A i \in E.idx : i[1] # "metatrader_accounts"
    BY DEF ReadyForTokyo
  <2>1. /\ S.tables \cap TokyoNames = {}
        /\ "metatrader_accounts" \in S.tables => "metatrader_accounts" \in O.tables /\ Link \in S.cols
        /\ \A i \in S.idx : i[1] # "metatrader_accounts"
    BY DEF Ready, ReadyForTokyo
  <2>2. \A t \in TokyoNames : t \notin E.tables
    BY <1>2, <1>3, <1>4, <2>1, NotYetMade, TableLevels
  <2>3. ASSUME "metatrader_accounts" \in E.tables
        PROVE  "metatrader_accounts" \in O.tables /\ Link \in E.cols
    <3>1. "metatrader_accounts" \in S.tables
      BY <1>2, <1>3, <1>4, <2>3, NotYetMade, TableLevels
    <3>2. Whole(E, Link)
      BY <1>1, <1>3, <1>4, <2>1, <3>1, LinkStays DEF Whole
    <3> QED
      BY <2>1, <2>3, <3>1, <3>2 DEF Whole, Link
  <2>4. CASE m = 11
    BY <1>1, <1>4, <2>1, <2>2, <2>3, <2>4, LinkedOnce
  <2>5. CASE m # 11
    <3>1. \A i \in E.idx : i[1] # "metatrader_accounts"
      BY <1>2, <1>3, <1>4, <2>1, <2>5, IndexesStayAway
    <3> QED
      BY <2>2, <2>3, <3>1
  <2> QED
    BY <2>4, <2>5
<1>8. ReadyForSettings(m, E)
  <2> SUFFICES ASSUME m < 20 PROVE E.tables \cap SettingsNames = {} /\ Anchored(E)
    BY DEF ReadyForSettings
  <2>1. S.tables \cap SettingsNames = {} /\ Anchored(S)
    BY DEF Ready, ReadyForSettings
  <2>2. \A t \in SettingsNames : t \notin E.tables
    BY <1>2, <1>3, <1>4, <2>1, NotYetMade, TableLevels
  <2>3. CASE m = 18
    BY <1>1, <1>4, <2>1, <2>2, <2>3, TokyoStaysAnchored
  <2>4. CASE m # 18
    <3>1. Anchored(E)
      BY <1>2, <1>3, <1>4, <2>1, <2>4, StaysAnchored
    <3> QED
      BY <2>2, <3>1
  <2> QED
    BY <2>3, <2>4
<1>9. m < 22 => Location \notin E.cols
  <2> SUFFICES ASSUME m < 22 PROVE Location \notin E.cols
    OBVIOUS
  <2>1. Location \notin S.cols
    BY DEF Ready
  <2> QED
    BY <1>2, <1>3, <1>4, <2>1, LocationStaysAway
<1>11. ReadyForUsers(m, E, O)
  <2>1. CASE m = 3
    <3>1. Ready(2, S, O)
      BY <2>1
    <3>2. Unpointed(E)
      BY <1>1, <1>4, <2>1, <3>1, ThirdSettles
    <3> QED
      BY <2>1, <3>2 DEF ReadyForUsers
  <2>2. CASE m # 3
    <3>1. ReadyForUsers(m - 1, S, O) /\ (m < 3 => m < 3 /\ m - 1 < 3)
      BY DEF Ready
    <3> QED
      BY <1>1, <1>2, <1>3, <1>4, <2>2, <3>1, UsersStayReady
  <2> QED
    BY <2>1, <2>2
<1>10. Ready(m, E, O)
  BY <1>11, <1>5, <1>6, <1>7, <1>8, <1>9 DEF Ready
<1> QED
  BY <1>1, <1>4, <1>10

LEMMA FourthStaysReady ==
  ASSUME NEW S, NEW O, Ready(3, S, O)
  PROVE  Ready(4, S, O)
BY DEF Ready, ReadyForKeys, ReadyForUsers, ReadyForTokyo, ReadyForSettings

\* What reverts a migration leaves a database the migrations were written for ready for it again.
LEMMA DownStaysReady ==
  ASSUME NEW m \in 1..27, m \notin {18, 20}, NEW S, NEW O, IsSchema(S), Housed(S), Ready(m, S, O),
         "metatrader_accounts" \notin O.tables, Execute(S, Release[m].down).ok
  PROVE  Ready(m - 1, Execute(S, Release[m].down), O)
<1>1. PICK s : s = Release[m].down
  OBVIOUS
<1>2. AllSuit(s, m)
  BY <1>1, DownTraces
<1>3a. PICK n \in Nat : \E after : Traces(after, S, s, n)
  BY <1>1, DownTraces
<1>3. PICK after : n \in Nat /\ Traces(after, S, s, n)
  BY <1>3a
<1>4. PICK E : E = Execute(S, s) /\ E.ok
  BY <1>1
<1>5. \A r \in E.refs : r.to \notin Retired
  <2>1. n \in 0..n /\ after[n] = E
    BY <1>3, <1>4 DEF Traces
  <2>2. \A r \in S.refs : r.to \notin Retired
    BY DEF Ready
  <2> QED
    BY <1>2, <1>3, <2>1, <2>2, NothingRetired
<1>6. ReadyForKeys(m - 1, E)
  <2> SUFFICES ASSUME m - 1 < 3 PROVE ReadyForKeys(0, E)
    BY DEF ReadyForKeys
  <2>1. m # 3
    BY <1>1, <1>4, ThirdDownFails
  <2>2. CASE m < 3
    <3>1. ReadyForKeys(0, S)
      BY <2>2 DEF Ready, ReadyForKeys
    <3> QED
      BY <1>2, <1>3, <1>4, <2>2, <3>1, KeysStayReady
  <2> QED
    BY <2>1, <2>2
<1>7. ReadyForTokyo(m - 1, E, O)
  <2> SUFFICES ASSUME m < 18
               PROVE  /\ E.tables \cap TokyoNames = {} /\ "metatrader_accounts" \notin E.tables
                      /\ \A i \in E.idx : i[1] # "metatrader_accounts"
    BY DEF ReadyForTokyo
  <2>1. /\ S.tables \cap TokyoNames = {} /\ "metatrader_accounts" \notin S.tables
        /\ \A i \in S.idx : i[1] # "metatrader_accounts"
    BY DEF Ready, ReadyForTokyo
  <2>2. \A t \in TokyoNames : t \notin E.tables
    BY <1>2, <1>3, <1>4, <2>1, NotYetMade, TableLevels
  <2>3. "metatrader_accounts" \notin E.tables
    BY <1>2, <1>3, <1>4, <2>1, NotYetMade, TableLevels
  <2>4. CASE m = 11
    BY <1>1, <1>4, <2>1, <2>2, <2>3, <2>4, UnlinkedKeepsIndexes
  <2>5. CASE m # 11
    <3>1. \A i \in E.idx : i[1] # "metatrader_accounts"
      BY <1>2, <1>3, <1>4, <2>1, <2>5, IndexesStayAway
    <3> QED
      BY <2>2, <2>3, <3>1
  <2> QED
    BY <2>4, <2>5
<1>8. ReadyForSettings(m - 1, E)
  <2> SUFFICES ASSUME m < 20 PROVE E.tables \cap SettingsNames = {} /\ Anchored(E)
    BY DEF ReadyForSettings
  <2>1. S.tables \cap SettingsNames = {} /\ Anchored(S)
    BY DEF Ready, ReadyForSettings
  <2>2. \A t \in SettingsNames : t \notin E.tables
    BY <1>2, <1>3, <1>4, <2>1, NotYetMade, TableLevels
  <2>3. Anchored(E)
    BY <1>2, <1>3, <1>4, <2>1, StaysAnchored
  <2> QED
    BY <2>2, <2>3
<1>9. m - 1 < 22 => Location \notin E.cols
  <2>1. CASE m < 22
    <3>1. Location \notin S.cols
      BY <2>1 DEF Ready
    <3> QED
      BY <1>2, <1>3, <1>4, <2>1, <3>1, LocationStaysAway
  <2>2. CASE m = 22
    BY <1>1, <1>4, <2>2, LocationDropped
  <2> QED
    BY <2>1, <2>2
<1>11. ReadyForUsers(m - 1, E, O)
  <2>1. m # 3
    BY <1>1, <1>4, ThirdDownFails
  <2>2. ReadyForUsers(m, S, O) /\ (m - 1 < 3 => m < 3 /\ m < 3)
    BY <2>1 DEF Ready
  <2> QED
    BY <1>1, <1>2, <1>3, <1>4, <2>1, <2>2, UsersStayReady
<1>10. Ready(m - 1, E, O)
  BY <1>11, <1>5, <1>6, <1>7, <1>8, <1>9 DEF Ready
<1> QED
  BY <1>1, <1>4, <1>10

------------------------------------------------------------------------------
(***************************************************************************)
(* Migrations that are ready succeed.                                      *)
(***************************************************************************)

\* Statements that never fail.
Sure(st) ==
  st.do \in {"create", "create if tables", "add if table", "drop columns", "reference if tables"}

LEMMA SureNeverFails == ASSUME NEW st, Sure(st) PROVE \A S : ~Fails(S, st)
BY DEF Sure, Fails

LEMMA SureAre ==
  /\ \A t, cols, to : Sure(Create(t, cols, to))
  /\ \A t, to : Sure(CreateIfTables(t, to)) /\ Sure(ReferenceIfTables(t, to))
  /\ \A t, cols, idx : Sure(AddIfTable(t, cols, idx))
  /\ \A t, cols : Sure(DropIfThere(t, cols))
<1>1. \A t, cols, to : Sure(Create(t, cols, to))
  BY DEF Sure, Create
<1>2. \A t, to : Sure(CreateIfTables(t, to))
  BY DEF Sure, CreateIfTables
<1>4. \A t, to : Sure(ReferenceIfTables(t, to))
  BY DEF Sure, ReferenceIfTables
<1>5. \A t, cols, idx : Sure(AddIfTable(t, cols, idx))
  BY DEF Sure, AddIfTable
<1>6. \A t, cols : Sure(DropIfThere(t, cols))
  BY DEF Sure, DropIfThere
<1> QED
  BY <1>1, <1>2, <1>4, <1>5, <1>6

LEMMA SureSucceeds ==
  ASSUME NEW S, IsSchema(S), Housed(S), S.ok, NEW s, NEW n \in Nat, DOMAIN s = 1..n, \A k \in 1..n : Sure(s[k])
  PROVE  Execute(S, s).ok
<1>1. PICK after : Traces(after, S, s, n)
  BY ExecuteTraces
<1>2. \A k \in 1..n : ~Fails(after[k - 1], s[k])
  BY SureNeverFails
<1> QED
  BY <1>1, <1>2, NothingFails

LEMMA OneSucceeds ==
  ASSUME NEW S, IsSchema(S), Housed(S), S.ok, NEW s, NEW st, Lists1(s, st), ~Fails(S, st)
  PROVE  Execute(S, s).ok
<1>1. Execute(S, s) = Exec(S, st)
  BY OneStatement
<1>2. Exec(S, st) = Effect(S, st) /\ Effect(S, st).ok = S.ok
  BY EffectsAre DEF Exec, Does
<1> QED
  BY <1>1, <1>2

SureUps == {1, 2, 7, 8, 9, 10, 11, 12, 13, 15, 21, 23, 27}

LEMMA SureUpsSucceed ==
  ASSUME NEW S, IsSchema(S), Housed(S), S.ok, NEW m \in SureUps
  PROVE  Execute(S, Release[m].up).ok
<1> DEFINE Fine(s) == \E n \in Nat : DOMAIN s = 1..n /\ \A k \in 1..n : Sure(s[k])
<1>1. \A s : Lists0(s) => Fine(s)
  <2> SUFFICES ASSUME NEW s, Lists0(s) PROVE Fine(s)
    OBVIOUS
  <2>1. DOMAIN s = 1..0 /\ 0 \in Nat /\ \A k \in 1..0 : Sure(s[k])
    BY DEF Lists0
  <2> QED
    BY <2>1
<1>2. \A s, a : Lists1(s, a) /\ Sure(a) => Fine(s)
  <2> SUFFICES ASSUME NEW s, NEW a, Lists1(s, a), Sure(a) PROVE Fine(s)
    OBVIOUS
  <2>1. DOMAIN s = 1..1 /\ 1 \in Nat /\ \A k \in 1..1 : Sure(s[k])
    BY DEF Lists1
  <2> QED
    BY <2>1
<1>3. \A s, a, b : Lists2(s, a, b) /\ Sure(a) /\ Sure(b) => Fine(s)
  <2> SUFFICES ASSUME NEW s, NEW a, NEW b, Lists2(s, a, b), Sure(a), Sure(b) PROVE Fine(s)
    OBVIOUS
  <2>1. DOMAIN s = 1..2 /\ 2 \in Nat /\ \A k \in 1..2 : Sure(s[k])
    BY DEF Lists2
  <2> QED
    BY <2>1
<1>4. \A s, a, b, c : Lists3(s, a, b, c) /\ Sure(a) /\ Sure(b) /\ Sure(c) => Fine(s)
  <2> SUFFICES ASSUME NEW s, NEW a, NEW b, NEW c, Lists3(s, a, b, c), Sure(a), Sure(b), Sure(c) PROVE Fine(s)
    OBVIOUS
  <2>1. DOMAIN s = 1..3 /\ 3 \in Nat /\ \A k \in 1..3 : Sure(s[k])
    BY DEF Lists3
  <2> QED
    BY <2>1
<1> HIDE DEF Fine
<1>5. /\ Fine(Release[1].up) /\ Fine(Release[2].up) /\ Fine(Release[7].up) /\ Fine(Release[8].up)
      /\ Fine(Release[9].up) /\ Fine(Release[11].up) /\ Fine(Release[15].up) /\ Fine(Release[21].up)
      /\ Fine(Release[23].up) /\ Fine(Release[27].up)
  BY <1>1, <1>2, UpsAre, SureAre
<1>6. Fine(Release[10].up)
  BY <1>3, UpsAre, SureAre
<1>7. Fine(Release[12].up) /\ Fine(Release[13].up)
  BY <1>4, UpsAre, SureAre
<1>8. Fine(Release[m].up)
  BY <1>5, <1>6, <1>7 DEF SureUps
<1> QED
  BY <1>8, SureSucceeds DEF Fine

LEMMA BuiltHas ==
  ASSUME NEW k, NEW S, NEW O, Built(k, S, O), NEW t, t \notin Retired, t # "withdrawals",
         TableLevel(t) # 0, TableLevel(t) <= k
  PROVE  t \in S.tables
BY DEF Built, BuiltTables, Present

\* Columns are added to tables that were made before.
LEMMA AddMissingSucceeds ==
  ASSUME NEW S, IsSchema(S), Housed(S), S.ok, NEW s, NEW t, NEW cols, Lists1(s, AddMissing(t, cols)), t \in S.tables
  PROVE  Execute(S, s).ok
<1>1. PICK st : st = AddMissing(t, cols)
  OBVIOUS
<1>2. st.do = "add missing" /\ st.table = t
  BY <1>1 DEF AddMissing
<1>3. ~Fails(S, st)
  BY <1>2 DEF Fails
<1> QED
  BY <1>1, <1>3, OneSucceeds

LEMMA ColumnUpsSucceed ==
  ASSUME NEW m \in {14, 16, 17, 24, 25, 26}, NEW S, NEW O, IsSchema(S), Housed(S), S.ok, Built(m - 1, S, O)
  PROVE  Execute(S, Release[m].up).ok
<1>1. \A t \in {"users", "marathons", "virtual_wallets", "marathon_participants"} : t \notin Retired /\ t # "withdrawals"
  BY DEF Retired
<1>2. CASE m = 14
  <2>1. "marathons" \in S.tables
    BY <1>1, <1>2, TableLevels, BuiltHas
  <2> QED
    BY <1>2, <2>1, UpsAre, AddMissingSucceeds
<1>3. CASE m = 16
  <2>1. "users" \in S.tables
    BY <1>1, <1>3, TableLevels, BuiltHas
  <2> QED
    BY <1>3, <2>1, UpsAre, AddMissingSucceeds
<1>4. CASE m = 17
  <2>1. "virtual_wallets" \in S.tables
    BY <1>1, <1>4, TableLevels, BuiltHas
  <2> QED
    BY <1>4, <2>1, UpsAre, AddMissingSucceeds
<1>5. CASE m = 24
  <2>1. "users" \in S.tables
    BY <1>1, <1>5, TableLevels, BuiltHas
  <2> QED
    BY <1>5, <2>1, UpsAre, AddMissingSucceeds
<1>6. CASE m = 25
  <2>1. "marathon_participants" \in S.tables
    BY <1>1, <1>6, TableLevels, BuiltHas
  <2> QED
    BY <1>6, <2>1, UpsAre, AddMissingSucceeds
<1>7. CASE m = 26
  <2>1. "marathon_participants" \in S.tables
    BY <1>1, <1>7, TableLevels, BuiltHas
  <2> QED
    BY <1>7, <2>1, UpsAre, AddMissingSucceeds
<1> QED
  BY <1>2, <1>3, <1>4, <1>5, <1>6, <1>7

LEMMA RekeySucceeds ==
  ASSUME NEW S, NEW O, IsSchema(S), Housed(S), S.ok, Built(2, S, O), ReadyForKeys(2, S)
  PROVE  Execute(S, Release[3].up).ok
<1>1. PICK s, a, b : s = Release[3].up /\ a = Create("profile", {}, {}) /\ b = Rekey
  OBVIOUS
<1>2. DOMAIN s = 1..2 /\ s[1] = a /\ s[2] = b /\ 2 \in Nat
  BY <1>1, UpsAre DEF Lists2
<1>3. a.do = "create" /\ a.table = "profile" /\ Sure(a)
  BY <1>1 DEF Create, Sure
<1>4. b.do = "rekey" /\ b.table = "users"
  BY <1>1 DEF Rekey
<1>5. PICK after : Traces(after, S, s, 2)
  BY <1>2, ExecuteTraces
<1>6. PICK X : X = after[1] /\ Moves(S, a, X)
  <2>1. 1 \in 1..2 /\ 1 - 1 = 0
    OBVIOUS
  <2>2. Moves(after[1 - 1], s[1], after[1]) /\ after[0] = S
    BY <1>5, <2>1 DEF Traces
  <2> QED
    BY <1>2, <2>1, <2>2
<1>7. "users" \in X.tables
  <2>1. "users" \in S.tables
    BY BuiltHas, TableLevels DEF Retired
  <2> QED
    BY <1>3, <1>6, <2>1 DEF Moves, MovesTables, Dropping
<1>8. ~(X.uuid /\ \E c \in X.rows : c[1] \in Related)
  <2>1. X.uuid = S.uuid
    BY <1>3, <1>6 DEF Moves
  <2>2. X.rows \subseteq S.rows
    BY <1>3, <1>6 DEF Moves, MovesColumns, Rewriting
  <2> QED
    BY <2>1, <2>2 DEF ReadyForKeys
<1>9. ~Fails(X, b)
  BY <1>4, <1>7, <1>8 DEF Fails
<1>10. ASSUME NEW k \in 1..2 PROVE ~Fails(after[k - 1], s[k])
  <2>1. CASE k = 1
    BY <1>2, <1>3, <2>1, SureNeverFails
  <2>2. CASE k = 2
    <3>1. k - 1 = 1
      BY <2>2
    <3> QED
      BY <1>2, <1>6, <1>9, <2>2, <3>1
  <2> QED
    BY <2>1, <2>2
<1>11. Execute(S, s).ok
  BY <1>5, <1>10, NothingFails
<1> QED
  BY <1>1, <1>11

\* No table refers to the retired ones.
LEMMA DropRetired ==
  ASSUME NEW S, NEW t \in Retired, \A r \in S.refs : r.to \notin Retired
  PROVE  ~Fails(S, DropTable(t))
<1>1. PICK st : st = DropTable(t)
  OBVIOUS
<1>2. st.do = "drop table" /\ st.table = t
  BY <1>1 DEF DropTable
<1>3. ~Fails(S, st)
  BY <1>2 DEF Fails
<1> QED
  BY <1>1, <1>3

LEMMA RetiringSucceeds ==
  ASSUME NEW m \in {5, 6}, NEW S, IsSchema(S), Housed(S), S.ok, \A r \in S.refs : r.to \notin Retired
  PROVE  Execute(S, Release[m].up).ok
<1>1. "social_media" \in Retired /\ "meta_trader_accounts" \in Retired
  BY DEF Retired
<1>2. CASE m = 6
  BY <1>1, <1>2, UpsAre, DropRetired, OneSucceeds
<1>3. CASE m = 5
  <2>1. PICK s : s = Release[5].up
    OBVIOUS
  <2>2. /\ DOMAIN s = 1..3 /\ 3 \in Nat
        /\ Sure(s[1]) /\ Sure(s[2]) /\ s[3] = DropTable("social_media")
    BY <2>1, UpsAre, SureAre DEF Lists3
  <2>3. PICK after : Traces(after, S, s, 3)
    BY <2>2, ExecuteTraces
  <2>4. AllSuit(s, 5)
    <3>1. 5 \in 1..27 /\ 5 # 4
      OBVIOUS
    <3> QED
      BY <2>1, <3>1, UpsSuit
  <2>5. \A r \in after[2].refs : r.to \notin Retired
    <3>1. 5 \in 1..27 /\ 2 \in 0..3
      OBVIOUS
    <3> QED
      BY <2>3, <2>4, <3>1, NothingRetired
  <2>6. ASSUME NEW k \in 1..3 PROVE ~Fails(after[k - 1], s[k])
    <3>1. CASE k \in {1, 2}
      BY <2>2, <3>1, SureNeverFails
    <3>2. CASE k = 3
      <4>1. k - 1 = 2
        BY <3>2
      <4>2. ~Fails(after[2], DropTable("social_media"))
        BY <1>1, <2>5, DropRetired
      <4> QED
        BY <2>2, <3>2, <4>1, <4>2
    <3> QED
      BY <3>1, <3>2
  <2>7. Execute(S, s).ok
    BY <2>3, <2>6, NothingFails
  <2> QED
    BY <1>3, <2>1, <2>7
<1> QED
  BY <1>2, <1>3

LEMMA TranslateSucceeds ==
  ASSUME NEW S, IsSchema(S), Housed(S), S.ok, FaqsJson \notin S.cols
  PROVE  Execute(S, Release[19].up).ok
<1>1. PICK st : st = Translate
  OBVIOUS
<1>2. st.do = "translate" /\ st.table = "faqs"
  BY <1>1 DEF Translate
<1>3. AsJson \notin ColumnsOf(S, "faqs")
  <2> SUFFICES ASSUME NEW c \in S.cols, c[1] = "faqs", c[2] = AsJson PROVE FALSE
    BY DEF ColumnsOf
  <2>1. c = FaqsJson
    BY DEF Housed, FaqsJson
  <2> QED
    BY <2>1
<1>4. ~Fails(S, st)
  BY <1>2, <1>3 DEF Fails
<1> QED
  BY <1>1, <1>4, UpsAre, OneSucceeds

LEMMA LocationSucceeds ==
  ASSUME NEW S, IsSchema(S), Housed(S), S.ok, Location \notin S.cols, "sessions" \in S.tables
  PROVE  Execute(S, Release[22].up).ok
<1>1. PICK st : st = AddNew("sessions", {"location"})
  OBVIOUS
<1>2. st.do = "add new" /\ st.table = "sessions" /\ st.cols = {"location"}
  BY <1>1 DEF AddNew
<1>3. "location" \notin ColumnsOf(S, "sessions")
  <2> SUFFICES ASSUME NEW c \in S.cols, c[1] = "sessions", c[2] = "location" PROVE FALSE
    BY DEF ColumnsOf
  <2>1. c = Location
    BY DEF Housed, Location
  <2> QED
    BY <2>1
<1>4. ~Fails(S, st)
  BY <1>2, <1>3 DEF Fails
<1> QED
  BY <1>1, <1>4, UpsAre, OneSucceeds

\* A statement for a table that an earlier one of the list made, and that makes an index
\* or a foreign key neither the list nor anyone before made.
MadeEarlier(s, k) ==
  \E i \in 1..(k - 1) : s[i].do = "create" /\ s[i].table = s[k].table /\ s[k].table \notin Retired

NewIndex(S, s, k) ==
  /\ s[k].do = "index" /\ MadeEarlier(s, k)
  /\ <<s[k].table, s[k].name>> \notin S.idx
  /\ \A j \in 1..(k - 1) : ~Lays(s[j], <<s[k].table, s[k].name>>)

NewReference(S, s, k) ==
  /\ s[k].do = "reference" /\ MadeEarlier(s, k) /\ s[k].table \notin S.astray
  /\ \A r \in S.refs : r.table # s[k].table
  /\ \A j \in 1..(k - 1) : \A r : Aims(s[j], r.to) /\ Bears(s[j], r) => r.table # s[k].table

\* A foreign key no id that is astray can keep from being made.
Guarded(S, s, k) == s[k].do = "reference once" /\ s[k].table \notin S.astray

\* A table made by a statement of a list that drops none is there for those that follow.
LEMMA MadeBefore ==
  ASSUME NEW m \in {18, 20}, NEW S, NEW s, s = Release[m].up, NEW after, NEW n, Traces(after, S, s, n),
         NEW k \in 1..n, \A j \in 0..(k - 1) : after[j].ok, MadeEarlier(s, k)
  PROVE  s[k].table \in after[k - 1].tables
<1>0. PICK t : t = s[k].table
  OBVIOUS
<1>1. PICK i \in 1..(k - 1) : s[i].do = "create" /\ s[i].table = t /\ t \notin Retired
  BY <1>0 DEF MadeEarlier
<1>2. n \in Nat /\ DOMAIN s = 1..n
  BY DEF Traces
<1>3. i \in 1..n /\ i \in 0..n /\ k - 1 \in i..n
  BY <1>2
<1>4. Moves(after[i - 1], s[i], after[i])
  BY <1>3 DEF Traces
<1>5. after[i].ok
  BY <1>3
<1>6. t \in after[i].tables
  BY <1>1, <1>4, <1>5 DEF Moves, MovesTables
<1>7. ASSUME NEW j \in (i + 1)..(k - 1) PROVE Leaves(s[j], t)
  <2>1. m \in 1..27 /\ m # 4
    OBVIOUS
  <2>2. j \in DOMAIN Release[m].up
    BY <1>2, <1>3
  <2>3. s[j].do \in {"drop table", "drop old profiles"} => s[j].table \in Retired
    BY <2>1, <2>2, UpsDrop
  <2> QED
    BY <1>1, <2>3 DEF Leaves
<1>8. t \in after[k - 1].tables
  BY <1>3, <1>6, <1>7, TableStays
<1> QED
  BY <1>0, <1>8

LEMMA IndexSucceeds ==
  ASSUME NEW X, NEW st, st.do = "index", st.table \in X.tables, <<st.table, st.name>> \notin X.idx
  PROVE  ~Fails(X, st)
BY DEF Fails

LEMMA ReferenceSucceeds ==
  ASSUME NEW X, NEW st, st.do = "reference", st.table \in X.tables, st.table \notin X.astray,
         \A r \in X.refs : r.table # st.table
  PROVE  ~Fails(X, st)
<1>1. Ref(st.table, Generated, st.to).table = st.table
  BY DEF Ref
<1>2. Ref(st.table, Generated, st.to) \notin X.refs
  BY <1>1
<1> QED
  BY <1>2 DEF Fails

LEMMA OnceSucceeds ==
  ASSUME NEW X, NEW st, st.do = "reference once", st.table \notin X.astray
  PROVE  ~Fails(X, st)
BY DEF Fails

LEMMA NewSucceeds ==
  ASSUME NEW m \in {18, 20}, NEW S, IsSchema(S), Housed(S), S.ok, NEW s, s = Release[m].up,
         NEW n \in Nat, DOMAIN s = 1..n,
         \A k \in 1..n : Sure(s[k]) \/ NewIndex(S, s, k) \/ NewReference(S, s, k) \/ Guarded(S, s, k)
  PROVE  Execute(S, s).ok
<1>1. PICK after : Traces(after, S, s, n)
  BY ExecuteTraces
<1>3. ASSUME NEW k \in 1..n PROVE s[k].do # "rekey"
  BY <1>3 DEF Sure, NewIndex, NewReference, Guarded
<1>2. ASSUME NEW k \in 1..n, \A j \in 0..(k - 1) : after[j].ok PROVE ~Fails(after[k - 1], s[k])
  <2>1. k - 1 \in 0..n
    OBVIOUS
  <2>5. after[k - 1].astray \subseteq S.astray
    BY <1>1, <1>3, <2>1, StraysComeFrom
  <2>2. CASE Sure(s[k])
    BY <2>2, SureNeverFails
  <2>3. CASE NewIndex(S, s, k)
    <3>1. s[k].table \in after[k - 1].tables
      BY <1>1, <1>2, <2>3, MadeBefore DEF NewIndex
    <3>2. <<s[k].table, s[k].name>> \notin after[k - 1].idx
      BY <1>1, <2>1, <2>3, IndexesComeFrom DEF NewIndex
    <3> QED
      BY <2>3, <3>1, <3>2, IndexSucceeds DEF NewIndex
  <2>4. CASE NewReference(S, s, k)
    <3>1. s[k].table \in after[k - 1].tables
      BY <1>1, <1>2, <2>4, MadeBefore DEF NewReference
    <3>2. \A r \in after[k - 1].refs : r.table # s[k].table
      BY <1>1, <2>1, <2>4, LinksComeFrom DEF NewReference
    <3>3. s[k].table \notin after[k - 1].astray
      BY <2>4, <2>5 DEF NewReference
    <3> QED
      BY <2>4, <3>1, <3>2, <3>3, ReferenceSucceeds DEF NewReference
  <2>6. CASE Guarded(S, s, k)
    <3>1. s[k].table \notin after[k - 1].astray
      BY <2>5, <2>6 DEF Guarded
    <3> QED
      BY <2>6, <3>1, OnceSucceeds DEF Guarded
  <2> QED
    BY <2>2, <2>3, <2>4, <2>6
<1> QED
  BY <1>1, <1>2, NothingFails

LEMMA NamesNotRetired == (TokyoNames \cup SettingsNames \cup {"metatrader_accounts"}) \cap Retired = {}
BY DEF TokyoNames, SettingsNames, Retired

\* What the statements of the two long lists do, and to which table.
Makes(st, t) == st.do = "create" /\ st.table = t /\ st.to = {}
Points(st, t) == st.do = "reference" /\ st.table = t
Indexes(st, i) == st.do = "index" /\ <<st.table, st.name>> = i

LEMMA TokyoDoes ==
  LET up == Release[18].up IN
  /\ Makes(up[1], "metatrader_accounts")
  /\ Indexes(up[2], <<"metatrader_accounts", "IDX_metatrader_accounts_userId">>)
  /\ Indexes(up[3], <<"metatrader_accounts", LinkIndex>>)
  /\ up[4].do = "reference once" /\ up[4].table = "metatrader_accounts"
  /\ \A i \in 1..5 : Makes(up[4 + i], TokyoTables[i])
  /\ \A i \in 1..5 : Points(up[9 + i], TokyoTables[i])
  /\ \A i \in 1..6 : Indexes(up[14 + i], TokyoIndex(i))
<1>1. PICK up : up = Release[18].up
  OBVIOUS
<1>2. \A t, cols : Makes(Create(t, cols, {}), t)
  BY DEF Makes, Create
<1>3. \A t, to : Points(Reference(t, to), t)
  BY DEF Points, Reference
<1>4. \A t, x : Indexes(Index(t, x), <<t, x>>)
  BY DEF Indexes, Index
<1>5. Makes(up[1], "metatrader_accounts")
  BY <1>1, <1>2, TokyoUps
<1>6. Indexes(up[2], <<"metatrader_accounts", "IDX_metatrader_accounts_userId">>)
  BY <1>1, <1>4, TokyoUps
<1>7. Indexes(up[3], <<"metatrader_accounts", LinkIndex>>)
  BY <1>1, <1>4, TokyoUps
<1>8. up[4].do = "reference once" /\ up[4].table = "metatrader_accounts"
  <2>1. PICK st : st = ReferenceOnce("metatrader_accounts", "users")
    OBVIOUS
  <2>2. st.do = "reference once" /\ st.table = "metatrader_accounts"
    BY <2>1 DEF ReferenceOnce
  <2>3. up[4] = st
    BY <1>1, <2>1, TokyoUps
  <2> QED
    BY <2>2, <2>3, Zenon
<1>9. \A i \in 1..5 : Makes(up[4 + i], TokyoTables[i])
  BY <1>1, <1>2, TokyoUps
<1>10. \A i \in 1..5 : Points(up[9 + i], TokyoTables[i])
  BY <1>1, <1>3, TokyoUps
<1>11. \A i \in 1..6 : Indexes(up[14 + i], TokyoIndex(i))
  <2> SUFFICES ASSUME NEW i \in 1..6 PROVE Indexes(up[14 + i], TokyoIndex(i))
    OBVIOUS
  <2>1. up[14 + i] = Index(TokyoIndex(i)[1], TokyoIndex(i)[2])
    BY <1>1, TokyoUps
  <2>2. TokyoIndex(i) = <<TokyoIndex(i)[1], TokyoIndex(i)[2]>>
    BY DEF TokyoIndex
  <2> QED
    BY <1>4, <2>1, <2>2
<1> QED
  BY <1>1, <1>5, <1>6, <1>7, <1>8, <1>9, <1>10, <1>11

LEMMA SettingsDoes ==
  LET up == Release[20].up IN
  /\ \A i \in 1..3 : Makes(up[i], SettingsTables[i])
  /\ \A i \in 1..3 : Points(up[3 + i], SettingsTables[i])
  /\ \A i \in 1..4 : Indexes(up[6 + i], SettingsIndex(i))
<1>1. PICK up : up = Release[20].up
  OBVIOUS
<1>2. \A t, cols : Makes(Create(t, cols, {}), t)
  BY DEF Makes, Create
<1>3. \A t, to : Points(Reference(t, to), t)
  BY DEF Points, Reference
<1>4. \A t, x : Indexes(Index(t, x), <<t, x>>)
  BY DEF Indexes, Index
<1>5. \A i \in 1..3 : Makes(up[i], SettingsTables[i])
  <2>1. SettingsTables[1] = "user_settings" /\ SettingsTables[2] = "sessions" /\ SettingsTables[3] = "login_history"
    BY DEF SettingsTables
  <2>2. /\ up[1] = Create(SettingsTables[1], RetiredSettings, {})
        /\ up[2] = Create(SettingsTables[2], {}, {}) /\ up[3] = Create(SettingsTables[3], {}, {})
    BY <1>1, <2>1, SettingsUps
  <2>3. Makes(up[1], SettingsTables[1]) /\ Makes(up[2], SettingsTables[2]) /\ Makes(up[3], SettingsTables[3])
    BY <1>2, <2>2
  <2>4. \A i \in 1..3 : i = 1 \/ i = 2 \/ i = 3
    OBVIOUS
  <2> QED
    BY <2>3, <2>4
<1>6. \A i \in 1..3 : Points(up[3 + i], SettingsTables[i])
  BY <1>1, <1>3, SettingsUps
<1>7. \A i \in 1..4 : Indexes(up[6 + i], SettingsIndex(i))
  <2> SUFFICES ASSUME NEW i \in 1..4 PROVE Indexes(up[6 + i], SettingsIndex(i))
    OBVIOUS
  <2>1. up[6 + i] = Index(SettingsIndex(i)[1], SettingsIndex(i)[2])
    BY <1>1, SettingsUps
  <2>2. SettingsIndex(i) = <<SettingsIndex(i)[1], SettingsIndex(i)[2]>>
    BY DEF SettingsIndex
  <2> QED
    BY <1>4, <2>1, <2>2
<1> QED
  BY <1>1, <1>5, <1>6, <1>7

\* Only a statement that makes an index lays it, and only one that makes a foreign key bears it.
LEMMA WhatTheyLay ==
  /\ \A st, t, i : Makes(st, t) \/ Points(st, t) => ~Lays(st, i)
  /\ \A st, i, j : Indexes(st, i) /\ Lays(st, j) => i = j
  /\ \A st, t, u : Makes(st, t) => ~Aims(st, u)
  /\ \A st, i, u : Indexes(st, i) => ~Aims(st, u)
  /\ \A st, t, r : Points(st, t) /\ Bears(st, r) => r.table = t
  /\ \A st, i : st.do = "reference once" => ~Lays(st, i)
  /\ \A st, r : st.do = "reference once" /\ Bears(st, r) => r.table = st.table
BY DEF Makes, Points, Indexes, Lays, Aims, Bears, Making, Referring

\* The tables and indexes of accounts' data are made for the first time.
LEMMA TokyoSucceeds ==
  ASSUME NEW S, NEW O, IsSchema(S), Housed(S), S.ok, Anchored(S), ReadyForTokyo(17, S, O), Unpointed(S)
  PROVE  Execute(S, Release[18].up).ok
<1>1. PICK s : s = Release[18].up
  OBVIOUS
<1>2. DOMAIN s = 1..20 /\ 20 \in Nat
  BY <1>1, TokyoUps
<1>3. /\ Makes(s[1], "metatrader_accounts")
      /\ Indexes(s[2], <<"metatrader_accounts", "IDX_metatrader_accounts_userId">>)
      /\ Indexes(s[3], <<"metatrader_accounts", LinkIndex>>)
      /\ s[4].do = "reference once" /\ s[4].table = "metatrader_accounts"
  BY <1>1, TokyoDoes
<1>4. \A i \in 1..5 : Makes(s[4 + i], TokyoTables[i])
  BY <1>1, TokyoDoes
<1>5. \A i \in 1..5 : Points(s[9 + i], TokyoTables[i])
  BY <1>1, TokyoDoes
<1>6. \A i \in 1..6 : Indexes(s[14 + i], TokyoIndex(i))
  BY <1>1, TokyoDoes
<1>7. /\ \A i \in S.idx : i[1] \notin TokyoNames \cup {"metatrader_accounts"}
      /\ \A r \in S.refs : r.table \notin TokyoNames
  BY DEF Anchored, ReadyForTokyo
<1>8. \A k \in 1..20 : \/ k \in {1, 2, 3, 4} \/ k - 4 \in 1..5 \/ k - 9 \in 1..5 \/ k - 14 \in 1..6
  OBVIOUS
<1>9. "metatrader_accounts" \notin TokyoNames
  BY DEF TokyoNames
<1>17. \A t \in TokyoNames \cup {"metatrader_accounts"} : t \notin S.astray
  BY DEF Unpointed, Pointed, LeftOut, TokyoNames
\* What comes before a statement.
<1>10. ASSUME NEW k \in 1..20 PROVE k = 1 \/ k - 4 \in 1..5 => Sure(s[k])
  <2>1. \A st, t : Makes(st, t) => Sure(st)
    BY DEF Makes, Sure
  <2>2. k - 4 \in 1..5 => Makes(s[4 + (k - 4)], TokyoTables[k - 4]) /\ 4 + (k - 4) = k
    BY <1>4
  <2> QED
    BY <1>3, <2>1, <2>2
<1>18. Guarded(S, s, 4)
  BY <1>3, <1>17 DEF Guarded
<1>11. ASSUME NEW k \in 1..20, k - 9 \in 1..5 PROVE NewReference(S, s, k)
  <2>1. PICK i \in 1..5 : i = k - 9 /\ k = 9 + i
    BY <1>11
  <2>2. Points(s[k], TokyoTables[i]) /\ TokyoTables[i] \in TokyoNames
    BY <1>5, <2>1, NamesAre
  <2>3. s[k].do = "reference" /\ s[k].table = TokyoTables[i]
    BY <2>2 DEF Points
  <2>4. MadeEarlier(s, k)
    <3>1. 4 + i \in 1..(k - 1) /\ Makes(s[4 + i], TokyoTables[i])
      BY <1>4, <2>1
    <3> QED
      BY <2>2, <2>3, <3>1, NamesNotRetired DEF MadeEarlier, Makes
  <2>5. ASSUME NEW j \in 1..(k - 1), NEW r, Aims(s[j], r.to), Bears(s[j], r) PROVE r.table # TokyoTables[i]
    <3>1. j \in 1..20 /\ ~(j - 14 \in 1..6)
      BY <2>1
    <3>2. CASE j \in {1, 2, 3}
      BY <1>3, <2>5, <3>2, WhatTheyLay
    <3>3. CASE j = 4
      <4>1. PICK st : st = s[4] /\ st.do = "reference once" /\ st.table = "metatrader_accounts"
        BY <1>3
      <4>2. r.table = st.table
        BY <2>5, <3>3, <4>1, WhatTheyLay
      <4> QED
        BY <1>9, <2>2, <4>1, <4>2
    <3>4. CASE j - 4 \in 1..5
      <4>1. Makes(s[4 + (j - 4)], TokyoTables[j - 4]) /\ 4 + (j - 4) = j
        BY <1>4, <3>4
      <4> QED
        BY <2>5, <4>1, WhatTheyLay
    <3>5. CASE j - 9 \in 1..5
      <4>1. PICK h \in 1..5 : h = j - 9 /\ j = 9 + h /\ h # i
        BY <2>1, <3>5
      <4>2. Points(s[j], TokyoTables[h])
        BY <1>5, <4>1
      <4>3. r.table = TokyoTables[h]
        BY <2>5, <4>2, WhatTheyLay
      <4> QED
        BY <4>1, <4>3, NamesAre
    <3> QED
      BY <1>8, <3>1, <3>2, <3>3, <3>4, <3>5
  <2> QED
    BY <1>7, <1>17, <2>2, <2>3, <2>4, <2>5 DEF NewReference
<1>12. ASSUME NEW j \in 1..14, NEW x, Lays(s[j], x) PROVE j \in {2, 3} /\ x[1] = "metatrader_accounts"
  <2>1. j \in 1..20 /\ ~(j - 14 \in 1..6)
    OBVIOUS
  <2>2. CASE j \in {1, 4}
    BY <1>3, <1>12, <2>2, WhatTheyLay
  <2>3. CASE j \in {2, 3}
    <3>1. x = <<"metatrader_accounts", "IDX_metatrader_accounts_userId">> \/ x = <<"metatrader_accounts", LinkIndex>>
      BY <1>3, <1>12, <2>3, WhatTheyLay
    <3> QED
      BY <2>3, <3>1
  <2>4. CASE j - 4 \in 1..5
    <3>1. Makes(s[4 + (j - 4)], TokyoTables[j - 4]) /\ 4 + (j - 4) = j
      BY <1>4, <2>4
    <3> QED
      BY <1>12, <3>1, WhatTheyLay
  <2>5. CASE j - 9 \in 1..5
    <3>1. Points(s[9 + (j - 9)], TokyoTables[j - 9]) /\ 9 + (j - 9) = j
      BY <1>5, <2>5
    <3> QED
      BY <1>12, <3>1, WhatTheyLay
  <2> QED
    BY <1>8, <2>1, <2>2, <2>3, <2>4, <2>5
<1>13. ASSUME NEW k \in 1..20, k - 14 \in 1..6 PROVE NewIndex(S, s, k)
  <2>1. PICK i \in 1..6 : i = k - 14 /\ k = 14 + i
    BY <1>13
  <2>2. Indexes(s[k], TokyoIndex(i)) /\ TokyoIndexes[i][1] \in 1..5 /\ TokyoIndex(i)[1] \in TokyoNames
    BY <1>6, <2>1, IndexesAre
  <2>3. s[k].do = "index" /\ <<s[k].table, s[k].name>> = TokyoIndex(i)
    BY <2>2 DEF Indexes
  <2>4. s[k].table = TokyoIndex(i)[1] /\ TokyoIndex(i)[1] = TokyoTables[TokyoIndexes[i][1]]
    BY <2>3 DEF TokyoIndex
  <2>5. MadeEarlier(s, k)
    <3>1. PICK h \in 1..5 : h = TokyoIndexes[i][1]
      BY <2>2
    <3>2. 4 + h \in 1..(k - 1) /\ Makes(s[4 + h], TokyoTables[h])
      BY <1>4, <2>1
    <3> QED
      BY <2>2, <2>4, <3>1, <3>2, NamesNotRetired DEF MadeEarlier, Makes
  <2>6. ASSUME NEW j \in 1..(k - 1), Lays(s[j], TokyoIndex(i)) PROVE FALSE
    <3>1. CASE j \in 1..14
      BY <1>9, <1>12, <2>2, <2>6, <3>1
    <3>2. CASE j \notin 1..14
      <4>1. PICK h \in 1..6 : h = j - 14 /\ j = 14 + h /\ h # i
        BY <2>1, <3>2
      <4>2. TokyoIndex(h) = TokyoIndex(i)
        BY <1>6, <2>6, <4>1, WhatTheyLay
      <4> QED
        BY <4>1, <4>2, IndexesAre
    <3> QED
      BY <3>1, <3>2
  <2>7. TokyoIndex(i) \notin S.idx
    BY <1>7, <2>2
  <2> QED
    BY <2>3, <2>5, <2>6, <2>7 DEF NewIndex
<1>14. ASSUME NEW k \in {2, 3} PROVE NewIndex(S, s, k)
  <2>1. PICK x : Indexes(s[k], x) /\ x[1] = "metatrader_accounts"
               /\ (k = 3 => ~Lays(s[2], x))
    <3>1. PICK a, b : /\ a = <<"metatrader_accounts", "IDX_metatrader_accounts_userId">>
                      /\ b = <<"metatrader_accounts", LinkIndex>>
      OBVIOUS
    <3>2. a # b /\ a[1] = "metatrader_accounts" /\ b[1] = "metatrader_accounts"
      BY <3>1 DEF LinkIndex
    <3>3. Indexes(s[2], a) /\ Indexes(s[3], b)
      BY <1>3, <3>1
    <3>4. ~Lays(s[2], b)
      BY <3>2, <3>3, WhatTheyLay
    <3> QED
      BY <3>2, <3>3, <3>4
  <2>2. s[k].do = "index" /\ <<s[k].table, s[k].name>> = x
    BY <2>1 DEF Indexes
  <2>3. s[k].table = "metatrader_accounts"
    BY <2>1, <2>2
  <2>4. MadeEarlier(s, k)
    <3>1. 1 \in 1..(k - 1)
      OBVIOUS
    <3> QED
      BY <1>3, <2>3, <3>1, NamesNotRetired DEF MadeEarlier, Makes
  <2>5. ASSUME NEW j \in 1..(k - 1) PROVE ~Lays(s[j], x)
    <3>1. j = 1 \/ (k = 3 /\ j = 2)
      OBVIOUS
    <3> QED
      BY <1>3, <2>1, <3>1, WhatTheyLay
  <2> QED
    BY <1>7, <2>1, <2>2, <2>4, <2>5 DEF NewIndex
<1>15. \A k \in 1..20 : Sure(s[k]) \/ NewIndex(S, s, k) \/ NewReference(S, s, k) \/ Guarded(S, s, k)
  BY <1>8, <1>10, <1>11, <1>13, <1>14, <1>18
<1>16. Execute(S, s).ok
  <2>1. 18 \in {18, 20}
    OBVIOUS
  <2> QED
    BY <1>1, <1>2, <1>15, <2>1, NewSucceeds
<1> QED
  BY <1>1, <1>16

\* So are those of the settings.
LEMMA SettingsSucceeds ==
  ASSUME NEW S, IsSchema(S), Housed(S), S.ok, ReadyForSettings(19, S), Unpointed(S)
  PROVE  Execute(S, Release[20].up).ok
<1>1. PICK s : s = Release[20].up
  OBVIOUS
<1>2. DOMAIN s = 1..10 /\ 10 \in Nat
  BY <1>1, SettingsUps
<1>3. \A i \in 1..3 : Makes(s[i], SettingsTables[i])
  BY <1>1, SettingsDoes
<1>4. \A i \in 1..3 : Points(s[3 + i], SettingsTables[i])
  BY <1>1, SettingsDoes
<1>5. \A i \in 1..4 : Indexes(s[6 + i], SettingsIndex(i))
  BY <1>1, SettingsDoes
<1>6. /\ \A i \in S.idx : i[1] \notin SettingsNames
      /\ \A r \in S.refs : r.table \notin SettingsNames
  BY DEF Anchored, ReadyForSettings
<1>7. \A k \in 1..10 : \/ k \in 1..3 \/ k - 3 \in 1..3 \/ k - 6 \in 1..4
  OBVIOUS
<1>14. \A t \in SettingsNames : t \notin S.astray
  BY DEF Unpointed, Pointed
<1>8. \A k \in 1..3 : Sure(s[k])
  <2>1. \A st, t : Makes(st, t) => Sure(st)
    BY DEF Makes, Sure
  <2> QED
    BY <1>3, <2>1
<1>9. ASSUME NEW k \in 1..10, k - 3 \in 1..3 PROVE NewReference(S, s, k)
  <2>1. PICK i \in 1..3 : i = k - 3 /\ k = 3 + i
    BY <1>9
  <2>2. Points(s[k], SettingsTables[i]) /\ SettingsTables[i] \in SettingsNames
    BY <1>4, <2>1, NamesAre
  <2>3. s[k].do = "reference" /\ s[k].table = SettingsTables[i]
    BY <2>2 DEF Points
  <2>4. MadeEarlier(s, k)
    <3>1. i \in 1..(k - 1) /\ Makes(s[i], SettingsTables[i])
      BY <1>3, <2>1
    <3> QED
      BY <2>2, <2>3, <3>1, NamesNotRetired DEF MadeEarlier, Makes
  <2>5. ASSUME NEW j \in 1..(k - 1), NEW r, Aims(s[j], r.to), Bears(s[j], r) PROVE r.table # SettingsTables[i]
    <3>1. j \in 1..3 \/ j - 3 \in 1..3
      BY <2>1
    <3>2. CASE j \in 1..3
      BY <1>3, <2>5, <3>2, WhatTheyLay
    <3>3. CASE j - 3 \in 1..3
      <4>1. PICK h \in 1..3 : h = j - 3 /\ j = 3 + h /\ h # i
        BY <2>1, <3>3
      <4>2. Points(s[j], SettingsTables[h])
        BY <1>4, <4>1
      <4>3. r.table = SettingsTables[h]
        BY <2>5, <4>2, WhatTheyLay
      <4> QED
        BY <4>1, <4>3, NamesAre
    <3> QED
      BY <3>1, <3>2, <3>3
  <2> QED
    BY <1>6, <1>14, <2>2, <2>3, <2>4, <2>5 DEF NewReference
<1>10. ASSUME NEW j \in 1..6, NEW x PROVE ~Lays(s[j], x)
  <2>1. CASE j \in 1..3
    BY <1>3, <2>1, WhatTheyLay
  <2>2. CASE j - 3 \in 1..3
    <3>1. Points(s[3 + (j - 3)], SettingsTables[j - 3]) /\ 3 + (j - 3) = j
      BY <1>4, <2>2
    <3> QED
      BY <3>1, WhatTheyLay
  <2> QED
    BY <2>1, <2>2
<1>11. ASSUME NEW k \in 1..10, k - 6 \in 1..4 PROVE NewIndex(S, s, k)
  <2>1. PICK i \in 1..4 : i = k - 6 /\ k = 6 + i
    BY <1>11
  <2>2. Indexes(s[k], SettingsIndex(i)) /\ SettingsIndexes[i][1] \in 1..3 /\ SettingsIndex(i)[1] \in SettingsNames
    BY <1>5, <2>1, IndexesAre
  <2>3. s[k].do = "index" /\ <<s[k].table, s[k].name>> = SettingsIndex(i)
    BY <2>2 DEF Indexes
  <2>4. s[k].table = SettingsIndex(i)[1] /\ SettingsIndex(i)[1] = SettingsTables[SettingsIndexes[i][1]]
    BY <2>3 DEF SettingsIndex
  <2>5. MadeEarlier(s, k)
    <3>1. PICK h \in 1..3 : h = SettingsIndexes[i][1]
      BY <2>2
    <3>2. h \in 1..(k - 1) /\ Makes(s[h], SettingsTables[h])
      BY <1>3, <2>1
    <3> QED
      BY <2>2, <2>4, <3>1, <3>2, NamesNotRetired DEF MadeEarlier, Makes
  <2>6. ASSUME NEW j \in 1..(k - 1), Lays(s[j], SettingsIndex(i)) PROVE FALSE
    <3>1. CASE j \in 1..6
      BY <1>10, <2>6, <3>1
    <3>2. CASE j \notin 1..6
      <4>1. PICK h \in 1..4 : h = j - 6 /\ j = 6 + h /\ h # i
        BY <2>1, <3>2
      <4>2. SettingsIndex(h) = SettingsIndex(i)
        BY <1>5, <2>6, <4>1, WhatTheyLay
      <4> QED
        BY <4>1, <4>2, IndexesAre
    <3> QED
      BY <3>1, <3>2
  <2>7. SettingsIndex(i) \notin S.idx
    BY <1>6, <2>2
  <2> QED
    BY <2>3, <2>5, <2>6, <2>7 DEF NewIndex
<1>12. \A k \in 1..10 : Sure(s[k]) \/ NewIndex(S, s, k) \/ NewReference(S, s, k) \/ Guarded(S, s, k)
  BY <1>7, <1>8, <1>9, <1>11
<1>13. Execute(S, s).ok
  <2>1. 20 \in {18, 20}
    OBVIOUS
  <2> QED
    BY <1>1, <1>2, <1>12, <2>1, NewSucceeds
<1> QED
  BY <1>1, <1>13

\* A migration succeeds on a database the migrations were written for.
LEMMA UpSucceeds ==
  ASSUME NEW m \in 1..27, m # 4, NEW S, NEW O, NEW r, IsSchema(S), Housed(S), S.ok,
         Fit(O, r), Built(m - 1, S, O), Ready(m - 1, S, O)
  PROVE  Execute(S, Release[m].up).ok
<1>1. \A u \in S.refs : u.to \notin Retired
  BY DEF Ready
<1>2. CASE m \in SureUps
  BY <1>2, SureUpsSucceed
<1>3. CASE m \in {14, 16, 17, 24, 25, 26}
  BY <1>3, ColumnUpsSucceed
<1>4. CASE m = 3
  <2>1. Built(2, S, O) /\ ReadyForKeys(2, S)
    BY <1>4 DEF Ready
  <2> QED
    BY <1>4, <2>1, RekeySucceeds
<1>5. CASE m \in {5, 6}
  BY <1>1, <1>5, RetiringSucceeds
<1>6. CASE m = 18
  <2>1. Ready(17, S, O)
    BY <1>6
  <2>2. Anchored(S) /\ ReadyForTokyo(17, S, O) /\ Unpointed(S)
    BY <2>1 DEF Ready, ReadyForSettings, ReadyForUsers
  <2> QED
    BY <1>6, <2>2, TokyoSucceeds
<1>7. CASE m = 19
  <2>1. Built(18, S, O)
    BY <1>7
  <2>2. FaqsJson \notin S.cols
    BY <2>1 DEF Built, BuiltFaqs, Fit
  <2> QED
    BY <1>7, <2>2, TranslateSucceeds
<1>8. CASE m = 20
  <2>1. ReadyForSettings(19, S) /\ Unpointed(S)
    BY <1>8 DEF Ready, ReadyForUsers
  <2> QED
    BY <1>8, <2>1, SettingsSucceeds
<1>9. CASE m = 22
  <2>1. Built(21, S, O) /\ Ready(21, S, O)
    BY <1>9
  <2>2. Location \notin S.cols
    BY <2>1 DEF Ready
  <2>3. "sessions" \in S.tables
    <3>1. "sessions" \in SettingsNames /\ "sessions" \notin Retired /\ "sessions" # "withdrawals"
      BY DEF SettingsNames, Retired
    <3>2. TableLevel("sessions") = 20
      BY <3>1, TableLevels
    <3> QED
      BY <2>1, <3>1, <3>2, BuiltHas
  <2> QED
    BY <1>9, <2>2, <2>3, LocationSucceeds
<1>10. m \in SureUps \cup {14, 16, 17, 24, 25, 26, 3, 5, 6, 18, 19, 20, 22}
  BY DEF SureUps
<1> QED
  BY <1>2, <1>3, <1>4, <1>5, <1>6, <1>7, <1>8, <1>9, <1>10

------------------------------------------------------------------------------
(***************************************************************************)
(* The pending migrations, one after the other.                            *)
(***************************************************************************)

\* a[k] is what the first k statements of s make of S.
StepsOf(a, S, s, n) ==
  /\ a[0] = S
  /\ \A k \in 1..n : a[k] = Exec(a[k - 1], s[k])
  /\ Execute(S, s) = a[n]

LEMMA ExecuteSteps ==
  ASSUME NEW S, NEW s, NEW n \in Nat, DOMAIN s = 1..n
  PROVE  \E a : StepsOf(a, S, s, n)
<1>1. PICK t : t = s
  OBVIOUS
<1>2. DOMAIN t = 1..n
  BY <1>1
<1>3. PICK after : /\ after[0] = S
                   /\ \A k \in 1..n : after[k] = Exec(after[k - 1], t[k])
                   /\ Execute(S, t) = after[n]
  BY <1>2, ExecuteInSteps
<1>4. StepsOf(after, S, s, n)
  BY <1>1, <1>3 DEF StepsOf
<1> QED
  BY <1>4

LEMMA ExecuteConcat ==
  ASSUME NEW S, NEW s, NEW t, NEW k \in Nat, NEW n \in Nat, IsList(s, k), IsList(t, n)
  PROVE  Execute(S, s \o t) = Execute(Execute(S, s), t)
<1>1. PICK M, both : M = Execute(S, s) /\ both = s \o t
  OBVIOUS
<1>2. Joins(both, s, t, k, n)
  BY <1>1, ConcatElements
<1>3. DOMAIN s = 1..k /\ DOMAIN t = 1..n /\ DOMAIN both = 1..(k + n) /\ k + n \in Nat
  BY <1>2 DEF IsList, Joins
<1>4. PICK a : StepsOf(a, S, s, k)
  BY <1>3, ExecuteSteps
<1>5. PICK b : StepsOf(b, M, t, n)
  BY <1>3, ExecuteSteps
<1>6. PICK c : StepsOf(c, S, both, k + n)
  BY <1>3, ExecuteSteps
<1>7. c[k] = a[k]
  <2> DEFINE G == {j \in 0..k : c[j] = a[j]}
  <2>1. 0 \in G
    BY <1>4, <1>6 DEF StepsOf
  <2>2. ASSUME NEW j \in (0 + 1)..k, j - 1 \in G PROVE j \in G
    <3>1. j \in 1..k /\ j \in 1..(k + n) /\ both[j] = s[j]
      BY <1>2 DEF Joins
    <3>2. c[j] = Exec(c[j - 1], s[j]) /\ a[j] = Exec(a[j - 1], s[j]) /\ c[j - 1] = a[j - 1]
      BY <1>4, <1>6, <2>2, <3>1 DEF StepsOf
    <3> QED
      BY <3>1, <3>2
  <2>3. k \in G
    <3>1. 0 \in 0..k
      OBVIOUS
    <3> HIDE DEF G
    <3> QED
      BY <2>1, <2>2, <3>1, StepsReach
  <2> QED
    BY <2>3
<1>8. c[k + n] = b[n]
  <2> DEFINE G == {j \in 0..n : c[k + j] = b[j]}
  <2>1. 0 \in G
    BY <1>1, <1>4, <1>5, <1>7 DEF StepsOf
  <2>2. ASSUME NEW j \in (0 + 1)..n, j - 1 \in G PROVE j \in G
    <3>1. j \in 1..n /\ k + j \in 1..(k + n) /\ both[k + j] = t[j]
      BY <1>2 DEF Joins
    <3>2. (k + j) - 1 = k + (j - 1)
      OBVIOUS
    <3>3. c[k + j] = Exec(c[k + (j - 1)], t[j])
      BY <1>6, <3>1, <3>2 DEF StepsOf
    <3>4. b[j] = Exec(b[j - 1], t[j]) /\ c[k + (j - 1)] = b[j - 1]
      BY <1>5, <2>2, <3>1 DEF StepsOf
    <3> QED
      BY <3>1, <3>3, <3>4
  <2>3. n \in G
    <3>1. 0 \in 0..n
      OBVIOUS
    <3> HIDE DEF G
    <3> QED
      BY <2>1, <2>2, <3>1, StepsReach
  <2> QED
    BY <2>3
<1> QED
  BY <1>1, <1>5, <1>6, <1>8 DEF StepsOf

LEMMA UpsAreLists == \A m \in 1..27 : \E n \in Nat : IsList(Release[m].up, n)
<1> SUFFICES ASSUME NEW m \in 1..27 PROVE \E n \in Nat : IsList(Release[m].up, n)
  OBVIOUS
<1>1. PICK s : s = Release[m].up
  OBVIOUS
<1>2. s \in Seq(Range(s))
  <2>1. CASE m # 4
    BY <1>1, <2>1, MigrationsGoUp DEF MildUps
  <2>2. CASE m = 4
    <3>1. s \in Seq({DropOldProfiles})
      <4>1. s = <<DropOldProfiles>>
        BY <1>1, <2>2, MigrationsGoUp
      <4> QED
        BY <4>1
    <3> QED
      BY <3>1, SeqOfRange
  <2> QED
    BY <2>1, <2>2
<1>3. Len(s) \in Nat /\ s \in [1..Len(s) -> Range(s)]
  BY <1>2, LenProperties
<1>4. IsList(s, Len(s))
  BY <1>3 DEF IsList
<1> QED
  BY <1>1, <1>3, <1>4

\* at[m] is what the migrations after from up to m make of S.
Climbs(at, S, from, to) ==
  /\ at[from] = S /\ at[to] = Execute(S, Ups(from, to))
  /\ \A m \in (from + 1)..to : at[m] = Execute(at[m - 1], Release[m].up)

LEMMA UpsClimb ==
  ASSUME NEW S, NEW from \in 0..27, NEW to \in 0..27, from <= to
  PROVE  \E at : Climbs(at, S, from, to)
<1> DEFINE n == to - from
           seqs == [i \in 1..n |-> Release[from + i].up]
<1>1. n \in Nat /\ Len(seqs) = n /\ DOMAIN seqs = 1..n
  OBVIOUS
<1>2. CASE n = 0
  <2>1. Ups(from, to) = <<>>
    BY <1>1, <1>2 DEF Ups, FlattenSeq
  <2>2. PICK none : none = <<>> /\ DOMAIN none = 1..0 /\ 0 \in Nat
    OBVIOUS
  <2>3. Execute(S, none) = S
    <3>1. PICK after : after[0] = S /\ Execute(S, none) = after[0]
      BY <2>2, ExecuteInSteps
    <3> QED
      BY <3>1
  <2>4. from = to
    BY <1>2
  <2>5. PICK at : at = [m \in {from} |-> S]
    OBVIOUS
  <2>6. at[from] = S
    BY <2>5
  <2>7. Climbs(at, S, from, to)
    BY <2>1, <2>2, <2>3, <2>4, <2>6 DEF Climbs
  <2> QED
    BY <2>7
<1>3. CASE n # 0
  <2>1. PICK upTo : /\ upTo[1] = seqs[1]
                    /\ \A i \in 2..n : upTo[i] = upTo[i - 1] \o seqs[i]
                    /\ FlattenSeq(seqs) = upTo[n]
    <3> HIDE DEF n, seqs
    <3> QED
      BY <1>1, <1>3, FlattenInSteps
  <2>2. Ups(from, to) = upTo[n]
    BY <2>1 DEF Ups
  <2>3. \A i \in 1..n : seqs[i] = Release[from + i].up
    OBVIOUS
  <2>4. \A i \in 1..n : from + i \in 1..27
    OBVIOUS
  <2> HIDE DEF seqs
  <2>5. ASSUME NEW i \in 1..n PROVE \E k \in Nat : IsList(upTo[i], k)
    <3> DEFINE G == {j \in 1..i : \E k \in Nat : IsList(upTo[j], k)}
    <3>1. 1 \in G
      <4>1. upTo[1] = Release[from + 1].up /\ 1 \in 1..n
        BY <1>1, <1>3, <2>1, <2>3
      <4>2. \E k \in Nat : IsList(Release[from + 1].up, k)
        BY <2>4, <4>1, UpsAreLists
      <4> QED
        BY <4>1, <4>2
    <3>2. ASSUME NEW j \in (1 + 1)..i, j - 1 \in G PROVE j \in G
      <4>1. j \in 2..n /\ j \in 1..n /\ from + j \in 1..27
        BY <1>1, <2>4
      <4>2. PICK k \in Nat : IsList(upTo[j - 1], k)
        BY <3>2
      <4>3. PICK h \in Nat : IsList(Release[from + j].up, h)
        BY <4>1, UpsAreLists
      <4>4. IsList(upTo[j - 1] \o Release[from + j].up, k + h)
        BY <4>2, <4>3, ConcatElements DEF Joins
      <4>5. upTo[j] = upTo[j - 1] \o Release[from + j].up
        BY <2>1, <2>3, <4>1
      <4>6. k + h \in Nat
        OBVIOUS
      <4>7. IsList(upTo[j], k + h)
        BY <4>4, <4>5, Zenon
      <4> QED
        BY <4>6, <4>7
    <3>3. i \in G
      <4>1. i \in Nat /\ 1 \in 0..i
        BY <1>1
      <4> HIDE DEF G
      <4> QED
        BY <3>1, <3>2, <4>1, StepsReach
    <3> QED
      BY <3>3
  <2>6. PICK at : at = [m \in from..to |-> IF m = from THEN S ELSE Execute(S, upTo[m - from])]
    OBVIOUS
  <2>7. at[from] = S /\ at[to] = Execute(S, Ups(from, to))
    BY <1>3, <2>2, <2>6
  <2>8. ASSUME NEW m \in (from + 1)..to PROVE at[m] = Execute(at[m - 1], Release[m].up)
    <3>1. PICK i \in 1..n : i = m - from /\ m = from + i
      BY <1>1
    <3>2. at[m] = Execute(S, upTo[i])
      BY <2>6, <3>1
    <3>3. CASE i = 1
      <4>1. upTo[i] = Release[m].up
        BY <1>1, <2>1, <2>3, <3>1, <3>3
      <4>2. m - 1 = from /\ at[m - 1] = S
        BY <2>7, <3>1, <3>3
      <4> QED
        BY <3>2, <4>1, <4>2
    <3>4. CASE i # 1
      <4>1. PICK h \in 1..n : h = i - 1 /\ i \in 2..n /\ m - 1 = from + h
        BY <1>1, <3>1, <3>4
      <4>2. at[m - 1] = Execute(S, upTo[h])
        BY <2>6, <4>1
      <4>3. upTo[i] = upTo[h] \o Release[m].up
        BY <2>1, <2>3, <3>1, <4>1
      <4>4. PICK k \in Nat : IsList(upTo[h], k)
        BY <2>5
      <4>5. PICK l \in Nat : IsList(Release[m].up, l)
        BY <2>4, <3>1, UpsAreLists
      <4>6. Execute(S, upTo[h] \o Release[m].up) = Execute(Execute(S, upTo[h]), Release[m].up)
        BY <4>4, <4>5, ExecuteConcat
      <4> QED
        BY <3>2, <4>2, <4>3, <4>6
    <3> QED
      BY <3>3, <3>4
  <2>9. Climbs(at, S, from, to)
    BY <2>7, <2>8 DEF Climbs
  <2> QED
    BY <2>9
<1> QED
  BY <1>2, <1>3

\* Whatever comes before it, the fourth is one statement.
LEMMA UpTraced ==
  ASSUME NEW m \in 1..27, NEW S, IsSchema(S), Housed(S)
  PROVE  \E n \in Nat : \E after : Traces(after, S, Release[m].up, n)
<1>1. CASE m # 4
  BY <1>1, UpTraces
<1>2. CASE m = 4
  <2>1. PICK s : s = Release[4].up
    OBVIOUS
  <2>2. DOMAIN s = 1..1 /\ 1 \in Nat
    BY <2>1, UpsAre DEF Lists1
  <2>3. PICK after : Traces(after, S, s, 1)
    BY <2>2, ExecuteTraces
  <2> QED
    BY <1>2, <2>1, <2>2, <2>3
<1> QED
  BY <1>1, <1>2

\* Statements that make tables of the migrations only, give nothing the type the first
\* questions had, and leave payments as they are.
Frugal(st) ==
  /\ st.do \in Making => /\ TableLevel(st.table) # 0
                         /\ st.table = "withdrawals" => st.do = "create if tables" /\ "wallets" \in st.to
  /\ Withholds(st, FaqsJson)
  /\ st.do \in Rewriting => st.table # "payment"

LEMMA UpsAreFrugal ==
  ASSUME NEW m \in 1..27, NEW i \in DOMAIN Release[m].up
  PROVE  Frugal(Release[m].up[i])
<1>1. PICK st : st = Release[m].up[i]
  OBVIOUS
<1>2. CASE m = 4
  <2>1. st = DropOldProfiles
    BY <1>1, <1>2, UpsAre DEF Lists1
  <2>2. st.do = "drop old profiles"
    BY <2>1 DEF DropOldProfiles
  <2>3. Frugal(st)
    BY <2>2 DEF Frugal, Withholds, Making, Widening, Rewriting
  <2> QED
    BY <1>1, <2>3
<1>3. CASE m = 19
  <2>1. st = Translate
    BY <1>1, <1>3, UpsAre DEF Lists1
  <2>2. st.do = "translate" /\ st.table = "faqs"
    BY <2>1 DEF Translate
  <2>3. FaqsJson \notin {"faqs"} \X {AsText, AsBinaryJson}
    BY DEF FaqsJson, AsJson, AsText, AsBinaryJson
  <2>4. Frugal(st)
    BY <2>2, <2>3 DEF Frugal, Withholds, Making, Widening, Rewriting
  <2> QED
    BY <1>1, <2>4
<1>4. CASE m \notin {4, 19}
  <2>1. Suits(st, m)
    BY <1>1, <1>4, UpsSuit DEF AllSuit
  <2>2. Withholds(st, FaqsJson)
    BY <1>4, <2>1, SuitSpares DEF FaqsJson
  <2>3. st.do \notin Rewriting
    BY <1>4, <2>1, SuitLimits
  <2>4. st.do \in Making => Makable(st, m)
    BY <2>1, Zenon DEF Suits
  <2>5. Frugal(st)
    BY <2>2, <2>3, <2>4 DEF Frugal, Makable
  <2> QED
    BY <1>1, <2>5
<1> QED
  BY <1>2, <1>3, <1>4

\* The tables of a schema are inherited ones and those of migrations.
Bounded(S, O) ==
  /\ \A t \in S.tables : \/ t \in O.tables
                         \/ TableLevel(t) # 0 /\ (t = "withdrawals" => "wallets" \in O.tables)
  /\ FaqsJson \in S.cols => FaqsJson \in O.cols

LEMMA FrugalBounds ==
  ASSUME NEW X, NEW st, NEW E, NEW O, Moves(X, st, E), Frugal(st), Bounded(X, O)
  PROVE  Bounded(E, O)
<1>1. ASSUME NEW t \in E.tables, t \notin O.tables
      PROVE  TableLevel(t) # 0 /\ (t = "withdrawals" => "wallets" \in O.tables)
  <2>1. CASE t \in X.tables
    BY <1>1, <2>1 DEF Bounded
  <2>2. CASE t \notin X.tables
    <3>1. t = st.table /\ st.do \in Making /\ Allowed(X, st)
      BY <2>2 DEF Moves, MovesTables
    <3>2. TableLevel(t) # 0
      BY <3>1 DEF Frugal
    <3>3. ASSUME t = "withdrawals" PROVE "wallets" \in O.tables
      <4>1. "wallets" \in X.tables
        BY <3>1, <3>3 DEF Frugal, Allowed
      <4>2. TableLevel("wallets") = 0
        BY TableLevels
      <4> QED
        BY <4>1, <4>2 DEF Bounded
    <3> QED
      BY <3>2, <3>3
  <2> QED
    BY <2>1, <2>2
<1>2. FaqsJson \in E.cols => FaqsJson \in X.cols
  BY DEF Moves, MovesColumns, Frugal, Withholds
<1> QED
  BY <1>1, <1>2 DEF Bounded

PaymentRest == <<"payment", Rest>>

\* What a migration leaves as it was, whatever it is.
LEMMA UpLeaves ==
  ASSUME NEW m \in 1..27, NEW S, NEW O, IsSchema(S), Housed(S)
  PROVE  LET E == Execute(S, Release[m].up) IN
         /\ IsSchema(E) /\ Housed(E)
         /\ E.ok => S.ok
         /\ S.uuid => E.uuid
         /\ Bounded(S, O) => Bounded(E, O)
         /\ PaymentRest \notin S.rows => PaymentRest \notin E.rows
         /\ NoNamed(S) => NoNamed(E)
<1>1. PICK s : s = Release[m].up
  OBVIOUS
<1>2a. PICK n \in Nat : \E after : Traces(after, S, s, n)
  BY <1>1, UpTraced
<1>2. PICK after : n \in Nat /\ Traces(after, S, s, n)
  BY <1>2a
<1>3. PICK E : E = Execute(S, s)
  OBVIOUS
<1>4. DOMAIN s = 1..n /\ after[0] = S /\ after[n] = E /\ 0 \in 0..n /\ n \in 0..n
  BY <1>2, <1>3 DEF Traces
<1>5. IsSchema(E) /\ Housed(E) /\ (E.ok => S.ok)
  BY <1>2, <1>4 DEF Traces
<1>6. S.uuid => E.uuid
  BY <1>3, <1>4, ExecuteKeepsUuids
<1>7. \A k \in 1..n : Frugal(s[k])
  BY <1>1, <1>4, UpsAreFrugal
<1>8. ASSUME Bounded(S, O) PROVE Bounded(E, O)
  <2> DEFINE G == {k \in 0..n : Bounded(after[k], O)}
  <2>1. 0 \in G
    BY <1>4, <1>8
  <2>2. ASSUME NEW k \in (0 + 1)..n, k - 1 \in G PROVE k \in G
    <3>1. k \in 1..n
      OBVIOUS
    <3>2. Moves(after[k - 1], s[k], after[k])
      BY <1>2, <3>1 DEF Traces
    <3>3. Frugal(s[k]) /\ Bounded(after[k - 1], O)
      BY <1>7, <2>2, <3>1
    <3>4. Bounded(after[k], O)
      BY <3>2, <3>3, FrugalBounds
    <3> QED
      BY <3>1, <3>4
  <2>3. n \in G
    <3> HIDE DEF G
    <3> QED
      BY <1>4, <2>1, <2>2, StepsReach
  <2> QED
    BY <1>4, <2>3
<1>9. PaymentRest \notin S.rows => PaymentRest \notin E.rows
  <2>1. \A k \in 1..n : s[k].do \in Rewriting => s[k].table # PaymentRest[1]
    BY <1>7 DEF Frugal, PaymentRest
  <2> QED
    BY <1>2, <1>3, <2>1, RowsComeFrom
<1>10. ASSUME NoNamed(S) PROVE NoNamed(E)
  <2>1. CASE m # 4
    <3>1. AllSuit(s, m)
      BY <1>1, <2>1, UpsSuit
    <3> QED
      BY <1>2, <1>3, <1>10, <3>1, NamesStayGenerated
  <2>2. CASE m = 4
    <3>1. PICK st : st = DropOldProfiles
      OBVIOUS
    <3>2. \A u : ~Aims(st, u)
      BY <3>1 DEF DropOldProfiles, Aims, Making, Referring
    <3>3. E = Exec(S, st) /\ Moves(S, st, Exec(S, st))
      BY <1>1, <1>3, <2>2, <3>1, UpsAre, OneStatement
    <3>4. \A r \in E.refs : r \in S.refs
      BY <3>2, <3>3 DEF Moves, MovesLinks
    <3> QED
      BY <1>10, <3>4 DEF NoNamed
  <2> QED
    BY <2>1, <2>2
<1> QED
  BY <1>1, <1>3, <1>5, <1>6, <1>8, <1>9, <1>10

LEMMA ThirdGivesUuids ==
  ASSUME NEW S, IsSchema(S), Housed(S), Execute(S, Release[3].up).ok
  PROVE  Execute(S, Release[3].up).uuid
<1>1. PICK s, st : s = Release[3].up /\ st = Rekey
  OBVIOUS
<1>2. DOMAIN s = 1..2 /\ s[2] = st /\ 2 \in Nat
  BY <1>1, UpsAre DEF Lists2
<1>3. PICK after : Traces(after, S, s, 2)
  BY <1>2, ExecuteTraces
<1>4. st.do = "rekey"
  BY <1>1 DEF Rekey
<1>5. PICK X : X = after[1]
  OBVIOUS
<1>6. IsSchema(X) /\ after[2] = Exec(X, st) /\ after[2] = Execute(S, s)
  <2>1. 1 \in 0..2 /\ 2 \in 1..2 /\ 2 - 1 = 1
    OBVIOUS
  <2> QED
    BY <1>2, <1>3, <1>5, <2>1 DEF Traces
<1>7. Exec(X, st).ok => Exec(X, st).uuid
  BY <1>4, <1>6, ExecIs
<1> QED
  BY <1>1, <1>6, <1>7

\* One more migration of those that are pending, and what they were written for.
LEMMA UpArrives ==
  ASSUME NEW m \in 1..27, NEW S, NEW O, IsSchema(S), Housed(S), Housed(O),
         Built(m - 1, S, O), m > 3 => S.uuid, Execute(S, Release[m].up).ok
  PROVE  /\ Built(m, Execute(S, Release[m].up), O)
         /\ m >= 3 => Execute(S, Release[m].up).uuid
<1>1. CASE m = 4
  <2>1. S.uuid /\ Execute(S, Release[4].up) = S
    BY <1>1, FourthUp
  <2>2. Built(3, S, O)
    BY <1>1
  <2>3. Built(4, S, O)
    BY <2>2, FourthBuilds
  <2> QED
    BY <1>1, <2>1, <2>3
<1>2. CASE m # 4
  <2>1. Built(m, Execute(S, Release[m].up), O)
    BY <1>2, UpBuilds
  <2>2. m > 3 => Execute(S, Release[m].up).uuid
    BY UpLeaves
  <2>3. m = 3 => Execute(S, Release[m].up).uuid
    BY ThirdGivesUuids
  <2> QED
    BY <2>1, <2>2, <2>3
<1> QED
  BY <1>1, <1>2

LEMMA UpFits ==
  ASSUME NEW m \in 1..27, NEW S, NEW O, NEW r, IsSchema(S), Housed(S), S.ok,
         Built(m - 1, S, O), m > 3 => S.uuid, Fit(O, r), Ready(m - 1, S, O)
  PROVE  Execute(S, Release[m].up).ok /\ Ready(m, Execute(S, Release[m].up), O)
<1>1. CASE m = 4
  <2>1. S.uuid /\ Execute(S, Release[4].up) = S
    BY <1>1, FourthUp
  <2>2. Ready(3, S, O)
    BY <1>1
  <2>3. Ready(4, S, O)
    BY <2>2, FourthStaysReady
  <2> QED
    BY <1>1, <2>1, <2>3
<1>2. CASE m # 4
  <2>1. Execute(S, Release[m].up).ok
    BY <1>2, UpSucceeds
  <2> QED
    BY <1>2, <2>1, UpStaysReady
<1> QED
  BY <1>1, <1>2

\* All pending migrations.
LEMMA UpsLeave ==
  ASSUME NEW S, NEW O, NEW from \in 0..27, NEW to \in 0..27, from <= to, IsSchema(S), Housed(S)
  PROVE  LET E == Execute(S, Ups(from, to)) IN
         /\ IsSchema(E) /\ Housed(E)
         /\ Bounded(S, O) => Bounded(E, O)
         /\ PaymentRest \notin S.rows => PaymentRest \notin E.rows
         /\ NoNamed(S) => NoNamed(E)
<1>1. PICK at : Climbs(at, S, from, to)
  BY UpsClimb
<1> DEFINE Unchanged(X) == /\ IsSchema(X) /\ Housed(X)
                           /\ Bounded(S, O) => Bounded(X, O)
                           /\ PaymentRest \notin S.rows => PaymentRest \notin X.rows
                           /\ NoNamed(S) => NoNamed(X)
           G == {m \in from..to : Unchanged(at[m])}
<1>2. from \in G
  BY <1>1 DEF Climbs
<1>3. ASSUME NEW m \in (from + 1)..to, m - 1 \in G PROVE m \in G
  <2>1. PICK X, E : X = at[m - 1] /\ E = Execute(X, Release[m].up)
    OBVIOUS
  <2>2. Unchanged(X)
    BY <1>3, <2>1
  <2>3. m \in 1..27 /\ m \in from..to
    OBVIOUS
  <2>4. /\ IsSchema(E) /\ Housed(E)
        /\ Bounded(X, O) => Bounded(E, O)
        /\ PaymentRest \notin X.rows => PaymentRest \notin E.rows
        /\ NoNamed(X) => NoNamed(E)
    BY <2>1, <2>2, <2>3, UpLeaves
  <2>5. at[m] = E
    BY <1>1, <2>1 DEF Climbs
  <2> QED
    BY <2>2, <2>3, <2>4, <2>5
<1>4. to \in G
  <2>1. to \in Nat /\ from \in 0..to
    OBVIOUS
  <2> HIDE DEF G
  <2> QED
    BY <1>2, <1>3, <2>1, StepsReach
<1> QED
  BY <1>1, <1>4 DEF Climbs

LEMMA UpsArrive ==
  ASSUME NEW S, NEW O, NEW from \in 0..27, NEW to \in 0..27, from <= to, IsSchema(S), Housed(S), Housed(O),
         Built(from, S, O), from >= 3 => S.uuid, Execute(S, Ups(from, to)).ok
  PROVE  Built(to, Execute(S, Ups(from, to)), O)
<1>1. PICK at : Climbs(at, S, from, to)
  BY UpsClimb
<1> DEFINE Arrived(m) == /\ IsSchema(at[m]) /\ Housed(at[m])
                         /\ at[m].ok => Built(m, at[m], O) /\ (m >= 3 => at[m].uuid)
           G == {m \in from..to : Arrived(m)}
<1>2. from \in G
  BY <1>1 DEF Climbs
<1>3. ASSUME NEW m \in (from + 1)..to, m - 1 \in G PROVE m \in G
  <2>1. PICK X, E : X = at[m - 1] /\ E = Execute(X, Release[m].up)
    OBVIOUS
  <2>2. IsSchema(X) /\ Housed(X) /\ (X.ok => Built(m - 1, X, O) /\ (m > 3 => X.uuid))
    BY <1>3, <2>1
  <2>3. m \in 1..27 /\ m \in from..to
    OBVIOUS
  <2>4. IsSchema(E) /\ Housed(E) /\ (E.ok => X.ok)
    BY <2>1, <2>2, <2>3, UpLeaves
  <2>5. E.ok => Built(m, E, O) /\ (m >= 3 => E.uuid)
    BY <2>1, <2>2, <2>3, <2>4, UpArrives
  <2>6. at[m] = E
    BY <1>1, <2>1 DEF Climbs
  <2> QED
    BY <2>3, <2>4, <2>5, <2>6
<1>4. to \in G
  <2>1. to \in Nat /\ from \in 0..to
    OBVIOUS
  <2> HIDE DEF G
  <2> QED
    BY <1>2, <1>3, <2>1, StepsReach
<1> QED
  BY <1>1, <1>4 DEF Climbs

LEMMA UpsFit ==
  ASSUME NEW S, NEW O, NEW r, NEW from \in 0..27, NEW to \in 0..27, from <= to, IsSchema(S), Housed(S), Housed(O),
         Built(from, S, O), from >= 3 => S.uuid, S.ok, Fit(O, r), Ready(from, S, O)
  PROVE  Execute(S, Ups(from, to)).ok /\ Ready(to, Execute(S, Ups(from, to)), O)
<1>1. PICK at : Climbs(at, S, from, to)
  BY UpsClimb
<1> DEFINE Fits(m) == /\ IsSchema(at[m]) /\ Housed(at[m]) /\ at[m].ok
                      /\ Built(m, at[m], O) /\ (m >= 3 => at[m].uuid)
                      /\ Ready(m, at[m], O)
           G == {m \in from..to : Fits(m)}
<1>2. from \in G
  BY <1>1 DEF Climbs
<1>3. ASSUME NEW m \in (from + 1)..to, m - 1 \in G PROVE m \in G
  <2>1. PICK X, E : X = at[m - 1] /\ E = Execute(X, Release[m].up)
    OBVIOUS
  <2>2. /\ IsSchema(X) /\ Housed(X) /\ X.ok
        /\ Built(m - 1, X, O) /\ (m > 3 => X.uuid)
        /\ Ready(m - 1, X, O)
    BY <1>3, <2>1
  <2>3. m \in 1..27 /\ m \in from..to
    OBVIOUS
  <2>4. IsSchema(E) /\ Housed(E)
    BY <2>1, <2>2, <2>3, UpLeaves
  <2>5. E.ok /\ Ready(m, E, O)
    BY <2>1, <2>2, <2>3, UpFits
  <2>6. Built(m, E, O) /\ (m >= 3 => E.uuid)
    BY <2>1, <2>2, <2>3, <2>5, UpArrives
  <2>7. at[m] = E
    BY <1>1, <2>1 DEF Climbs
  <2> QED
    BY <2>3, <2>4, <2>5, <2>6, <2>7
<1>4. to \in G
  <2>1. to \in Nat /\ from \in 0..to
    OBVIOUS
  <2> HIDE DEF G
  <2> QED
    BY <1>2, <1>3, <2>1, StepsReach
<1> QED
  BY <1>1, <1>4 DEF Climbs

------------------------------------------------------------------------------
(***************************************************************************)
(* What holds of the database at every moment.                             *)
(***************************************************************************)

\* A release that had withdrawals had wallets, and one that linked accounts gave users UUIDs.
Sound(O) ==
  /\ IsSchema(O) /\ Housed(O)
  /\ "withdrawals" \in O.tables => "wallets" \in O.tables
  /\ Link \in O.cols => O.uuid

\* All migrations recorded as executed have built what they are for, and what one that was
\* reverted had made is gone as far as the database the releases found lets it run again.
ArriveInv ==
  /\ schema.ok /\ Housed(schema) /\ Sound(origin) /\ reverts \in Nat
  /\ Built(executed, schema, origin)
  /\ NoNamed(schema)
  /\ Fit(origin, reverts) => Ready(executed, schema, origin)
  /\ stage \in {"migrated", "serving"} => executed = release
  /\ stage = "serving" => release = 27 /\ schema.astray = {}
  /\ reverts = 0 /\ Unfilled(schema) => Unfilled(origin)
  /\ stage = "exited" => Unsuitable

LEMMA NotFitUnsuitable == Sound(origin) /\ ~Fit(origin, reverts) => Unsuitable
<1> SUFFICES ASSUME Sound(origin), ~Fit(origin, reverts) PROVE Unsuitable
  OBVIOUS
<1>1. {TokyoTables[i] : i \in 1..5} = TokyoNames /\ {SettingsTables[i] : i \in 1..3} = SettingsNames
  <2>1. \A t : t \in {TokyoTables[i] : i \in 1..5} <=> t \in TokyoNames
    BY NamesAre
  <2>2. \A t : t \in {SettingsTables[i] : i \in 1..3} <=> t \in SettingsNames
    BY NamesAre
  <2> QED
    BY <2>1, <2>2
<1>2. CASE /\ "metatrader_accounts" \in origin.tables
           /\ ~(Link \in origin.cols /\ ~(reverts > 0)) \/ ~origin.uuid
  BY <1>2 DEF Unsuitable, Link, Sound
<1>3. ASSUME NEW t \in LeftOut, <<t, Rest>> \in origin.rows, origin.uuid \/ t \notin Authored
      PROVE  Unsuitable
  <2>0. PICK c : c = <<t, Rest>>
    OBVIOUS
  <2>1. c = <<t, Rest>> /\ c[1] = t
    BY <2>0
  <2>2. t \in origin.tables
    BY <1>3, <2>1 DEF Sound, IsSchema, Housed
  <2>3. t \in Stranded(origin)
    BY <1>3, <2>2 DEF Stranded
  <2> QED
    BY <1>3, <2>3 DEF Unsuitable
<1>4. CASE \/ origin.tables \cap (TokyoNames \cup SettingsNames) # {}
           \/ FaqsJson \in origin.cols
           \/ origin.uuid /\ \E c \in origin.rows : c[1] \in Related
  BY <1>1, <1>4 DEF Unsuitable, FaqsJson
<1> QED
  BY <1>2, <1>3, <1>4 DEF Fit

\* No entity refers to a retired table.
LEMMA EntitiesRefer == \A e \in Entities : \A u \in e.to : u \notin Retired
<1> DEFINE Fine(e) == \A u \in e.to : u \notin Retired
<1>1. /\ Fine(User) /\ Fine(EmailVerification) /\ Fine(PasswordReset) /\ Fine(Profile) /\ Fine(Wallet)
      /\ Fine(VirtualWallet) /\ Fine(VirtualWalletTransaction) /\ Fine(Withdrawal)
  BY DEF User, EmailVerification, PasswordReset, Profile, Wallet, VirtualWallet,
         VirtualWalletTransaction, Withdrawal, Entity, Retired
<1>2. /\ Fine(Payment) /\ Fine(Marathon) /\ Fine(MarathonParticipant) /\ Fine(PasswordRequest)
      /\ Fine(MetaTraderAccount) /\ Fine(Session) /\ Fine(LoginHistory) /\ Fine(UserSettings)
  BY DEF Payment, Marathon, MarathonParticipant, PasswordRequest, MetaTraderAccount, Session,
         LoginHistory, UserSettings, Entity, Retired
<1>3. /\ Fine(Notification) /\ Fine(Recipients) /\ Fine(ReadBy) /\ Fine(Department) /\ Fine(Ticket)
      /\ Fine(TicketMessage) /\ Fine(Faq)
  BY DEF Notification, Recipients, ReadBy, Department, Ticket, TicketMessage, Faq, Entity, Retired
<1>4. \A i \in 1..5 : Fine(TokyoEntity(i))
  BY DEF TokyoEntity, Entity, Retired
<1> HIDE DEF Fine
<1>5. \A e \in Entities : Fine(e)
  BY <1>1, <1>2, <1>3, <1>4 DEF Entities
<1> QED
  BY <1>5 DEF Fine

LEMMA FaqTypes == FaqsBinaryJson \notin EntityColumns /\ "faqs" \in EntityTables
<1>1. ColumnLevel(FaqsBinaryJson) = 28
  BY DEF ColumnLevel, FaqsBinaryJson, AsBinaryJson, Rest
<1>2. FaqsBinaryJson # FaqsJson
  BY DEF FaqsBinaryJson, FaqsJson, AsBinaryJson, AsJson
<1>3. ~(28 \in 0..27)
  OBVIOUS
<1>4. Faq \in Entities /\ Faq.table = "faqs"
  BY DEF Entities, Faq, Entity
<1> QED
  BY <1>1, <1>2, <1>3, <1>4, EntityColumnsAre DEF EntityTables

\* What an earlier release left.
Left(S, L) ==
  /\ IsSchema(S) /\ S.ok /\ S.tables = L /\ S.idx = {} /\ S.astray = {}
  /\ Link \in S.cols => S.uuid
  /\ \A c \in S.cols : /\ c = <<c[1], c[2]>> /\ c[1] \in L
                       /\ c \in EntityColumns \/ c[2] \in {Rest, AsText}
  /\ \A c \in EntityColumns : c[1] \in L /\ c[2] = Rest => c \in S.cols
  /\ \A r \in S.refs : r.name = Generated /\ r.table \in L /\ r.to \notin Retired

LEMMA InheritedIs ==
  ASSUME NEW L, NEW current \in BOOLEAN, NEW uuid \in BOOLEAN, NEW used \in BOOLEAN, current => uuid
  PROVE  Left(InheritedFrom(L, current, uuid, used), L)
<1> DEFINE cols(e) == IF current THEN e.cols ELSE IF e = Faq THEN {Rest, AsText} ELSE {Rest}
           old == {e \in Entities : e.table \in L}
           all == UNION {{e.table} \X cols(e) : e \in old}
           refs == UNION {{Ref(e.table, Generated, u) : u \in e.to \cap L} : e \in old}
<1>0. PICK S : S = InheritedFrom(L, current, uuid, used)
  OBVIOUS
<1>1. S = [Empty EXCEPT !.tables = L, !.cols = all, !.rows = IF used THEN all ELSE {}, !.uuid = uuid, !.refs = refs]
  BY <1>0, Zenon DEF InheritedFrom
<1>2. ASSUME NEW c \in all
      PROVE  c = <<c[1], c[2]>> /\ c[1] \in L /\ (c \in EntityColumns \/ c[2] \in {Rest, AsText})
  <2>1. PICK e \in old : c \in {e.table} \X cols(e)
    OBVIOUS
  <2>2. c = <<c[1], c[2]>> /\ c[1] \in L
    BY <2>1
  <2>3. c \in EntityColumns \/ c[2] \in {Rest, AsText}
    <3>1. CASE current
      BY <2>1, <3>1 DEF EntityColumns
    <3>2. CASE ~current
      BY <2>1, <3>2
    <3> QED
      BY <3>1, <3>2
  <2> QED
    BY <2>2, <2>3
<1>3. ASSUME NEW c \in EntityColumns, c[1] \in L, c[2] = Rest PROVE c \in all
  <2>1. PICK e \in Entities : c \in {e.table} \X e.cols
    BY DEF EntityColumns
  <2>2. e \in old /\ c[2] \in cols(e) /\ c = <<e.table, c[2]>>
    BY <1>3, <2>1
  <2> QED
    BY <2>2
<1>4. ASSUME NEW r \in refs PROVE r.name = Generated /\ r.table \in L /\ r.to \notin Retired
  <2>1. PICK e \in old : \E u \in e.to : r = Ref(e.table, Generated, u)
    OBVIOUS
  <2>2. PICK u \in e.to : r = Ref(e.table, Generated, u)
    BY <2>1
  <2> QED
    BY <2>1, <2>2, EntitiesRefer DEF Ref
<1>6. ASSUME Link \in all PROVE uuid
  <2>1. PICK e \in old : Link \in {e.table} \X cols(e)
    BY <1>6
  <2>2. Link[2] = LinkColumn /\ LinkColumn \notin {Rest, AsText}
    BY DEF Link, LinkColumn, Rest, AsText
  <2>3. LinkColumn \in cols(e)
    BY <2>1, <2>2
  <2> QED
    BY <2>2, <2>3
<1> HIDE DEF all, refs
<1>5. /\ S = [f \in Fields |-> S[f]] /\ S.rows \subseteq S.cols
      /\ S.ok /\ S.tables = L /\ S.idx = {} /\ S.cols = all /\ S.refs = refs /\ S.astray = {} /\ S.uuid = uuid
  BY <1>1 DEF Empty, Fields
<1> QED
  BY <1>0, <1>2, <1>3, <1>4, <1>5, <1>6 DEF IsSchema, Left

LEMMA ArriveInitially == SchemaInit => ArriveInv
<1> SUFFICES ASSUME NEW L \in Inherited, NEW current \in BOOLEAN, NEW uuid \in BOOLEAN, NEW used \in BOOLEAN,
                    current => uuid, Inheriting(L, current, uuid, used)
             PROVE  ArriveInv
  BY DEF SchemaInit
<1>1. /\ schema = InheritedFrom(L, current, uuid, used) /\ origin = schema
      /\ executed = 0 /\ release = 0 /\ stage = "stopped" /\ reverts = 0
  BY DEF Inheriting
<1>2. PICK S : S = InheritedFrom(L, current, uuid, used)
  OBVIOUS
<1>0. Left(S, L)
  BY <1>2, InheritedIs
<1>3. IsSchema(S) /\ S.ok /\ S.tables = L /\ S.idx = {} /\ S.astray = {} /\ (Link \in S.cols => S.uuid)
  BY <1>0 DEF Left
<1>4. \A c \in S.cols : /\ c = <<c[1], c[2]>> /\ c[1] \in L
                        /\ c \in EntityColumns \/ c[2] \in {Rest, AsText}
  BY <1>0 DEF Left
<1>5. \A c \in EntityColumns : c[1] \in L /\ c[2] = Rest => c \in S.cols
  BY <1>0 DEF Left
<1>6. \A r \in S.refs : r.name = Generated /\ r.table \in L /\ r.to \notin Retired
  BY <1>0 DEF Left
<1>7. Housed(S) /\ Sound(S)
  <2>1. Housed(S)
    BY <1>3, <1>4 DEF Housed
  <2> QED
    BY <1>3, <2>1, SchemaAssumption DEF Sound
<1>8. Built(0, S, S)
  <2>1. BuiltTables(0, S, S)
    <3> SUFFICES ASSUME NEW t, Present(t, 0, S) PROVE t \in S.tables
      BY DEF BuiltTables
    <3>1. TableLevel(t) # 0 => ~(TableLevel(t) <= 0)
      BY LevelsAreNumbers
    <3> QED
      BY <3>1 DEF Present
  <2>2. BuiltColumns(0, S)
    <3> SUFFICES ASSUME NEW c \in EntityColumns, ColumnLevel(c) <= 0, c[1] \in S.tables PROVE c \in S.cols
      BY DEF BuiltColumns, Whole
    <3>1. ColumnLevel(c) = 0
      BY LevelsAreNumbers
    <3>2. c[2] = Rest
      BY <3>1 DEF ColumnLevel
    <3> QED
      BY <1>3, <1>5, <3>2
  <2>3. BuiltFaqs(0, S, S)
    <3>1. FaqsBinaryJson \notin S.cols
      <4>1. FaqsBinaryJson[2] \notin {Rest, AsText}
        BY DEF FaqsBinaryJson, AsBinaryJson, AsText, Rest
      <4> QED
        BY <1>4, <4>1, FaqTypes
    <3>2. OneType(S, "faqs")
      BY <3>1 DEF OneType, FaqsBinaryJson
    <3> QED
      BY <3>2 DEF BuiltFaqs, Whole
  <2> QED
    BY <2>1, <2>2, <2>3 DEF Built
<1>9. NoNamed(S)
  BY <1>6 DEF NoNamed, Generated
<1>10. ASSUME Fit(S, 0) PROVE Ready(0, S, S)
  <2>1. L \cap (TokyoNames \cup SettingsNames) = {} /\ ("metatrader_accounts" \in L => Link \in S.cols)
    BY <1>3, <1>10 DEF Fit
  <2>2. ReadyForKeys(0, S)
    BY <1>10 DEF ReadyForKeys, Fit
  <2>3. ReadyForTokyo(0, S, S)
    BY <1>3, <2>1 DEF ReadyForTokyo
  <2>4. ReadyForSettings(0, S)
    BY <1>3, <1>6, <2>1 DEF ReadyForSettings, Anchored
  <2>5. Location \notin S.cols
    BY <1>4, <2>1 DEF Location, SettingsNames
  <2>6. ReadyForUsers(0, S, S)
    BY <1>3 DEF ReadyForUsers, Unpointed
  <2> QED
    BY <1>6, <2>2, <2>3, <2>4, <2>5, <2>6 DEF Ready
<1> QED
  BY <1>1, <1>2, <1>3, <1>7, <1>8, <1>9, <1>10 DEF ArriveInv

LEMMA PaymentHasType == <<"payment", "paymentType">> \in EntityColumns
<1>1. Payment \in Entities
  BY DEF Entities
<1>2. Payment.table = "payment" /\ "paymentType" \in Payment.cols
  BY DEF Payment, Entity, ProviderColumns
<1> QED
  BY <1>1, <1>2 DEF EntityColumns

LEMMA RunMigrationsArrive ==
  ASSUME SchemaInv, ArriveInv, RunMigrations
  PROVE  ArriveInv'
<1>1. PICK S, O, from, to : S = schema /\ O = origin /\ from = executed /\ to = release
  OBVIOUS
<1>2. PICK E : E = Execute(S, Ups(from, to))
  OBVIOUS
<1>3. from \in 0..27 /\ to \in 0..27 /\ from <= to /\ IsSchema(S) /\ (from >= 3 => S.uuid)
  BY <1>1 DEF SchemaInv
<1>4. /\ S.ok /\ Housed(S) /\ Sound(O) /\ Built(from, S, O) /\ NoNamed(S)
      /\ reverts \in Nat
  BY <1>1 DEF ArriveInv
<1>5. Housed(O)
  BY <1>4 DEF Sound
<1>6. /\ IsSchema(E) /\ Housed(E) /\ NoNamed(E)
      /\ PaymentRest \notin S.rows => PaymentRest \notin E.rows
  BY <1>2, <1>3, <1>4, UpsLeave
<1>7. origin' = origin /\ release' = release /\ reverts' = reverts
  BY DEF RunMigrations
<1>8. CASE E.ok
  <2>1. schema' = E /\ executed' = release /\ stage' = "migrated"
    BY <1>1, <1>2, <1>8 DEF RunMigrations
  <2>2. Built(to, E, O)
    BY <1>2, <1>3, <1>4, <1>5, <1>8, UpsArrive
  <2>3. ASSUME Fit(O, reverts) PROVE Ready(to, E, O)
    <3>1. Ready(from, S, O)
      BY <1>1, <2>3 DEF ArriveInv
    <3> QED
      BY <1>2, <1>3, <1>4, <1>5, <2>3, <3>1, UpsFit
  <2>4. ASSUME reverts = 0, Unfilled(E) PROVE Unfilled(O)
    <3>1. S.rows \cap EntityColumns \subseteq E.rows
      BY <1>2, <1>3, <1>8, UpsKeepData
    <3>2. <<"payment", "paymentType">> \in EntityColumns
      BY PaymentHasType
    <3>3. Unfilled(S)
      BY <1>6, <2>4, <3>1, <3>2 DEF Unfilled, PaymentRest
    <3> QED
      BY <1>1, <2>4, <3>3 DEF ArriveInv
  <2> QED
    BY <1>1, <1>4, <1>6, <1>7, <1>8, <2>1, <2>2, <2>3, <2>4 DEF ArriveInv
<1>9. CASE ~E.ok
  <2>1. schema' = schema /\ executed' = executed /\ stage' = "exited"
    BY <1>1, <1>2, <1>9 DEF RunMigrations
  <2>2. ~Fit(O, reverts)
    <3> SUFFICES ASSUME Fit(O, reverts) PROVE FALSE
      OBVIOUS
    <3>1. Ready(from, S, O)
      BY <1>1 DEF ArriveInv
    <3> QED
      BY <1>2, <1>3, <1>4, <1>5, <1>9, <3>1, UpsFit
  <2>3. Unsuitable
    BY <1>1, <1>4, <2>2, NotFitUnsuitable
  <2>4. Unsuitable'
    BY <1>7, <2>1, <2>3 DEF Unsuitable, Unfilled
  <2> QED
    BY <1>7, <2>1, <2>4 DEF ArriveInv
<1> QED
  BY <1>8, <1>9

\* What synchronisation makes of a schema, whatever it was.
LEMMA SynchronisedArrives ==
  ASSUME NEW S, NEW O, IsSchema(S), Housed(S), S.ok, Built(27, S, O), NoNamed(S)
  PROVE  LET E == Synchronised(S) IN
         /\ E.ok /\ Housed(E) /\ Built(27, E, O) /\ NoNamed(E) /\ E.astray = {}
         /\ (\A r \in S.refs : r.to \notin Retired) => \A r \in E.refs : r.to \notin Retired
         /\ Unfilled(E) => Unfilled(S)
<1> DEFINE kept == {c \in S.cols : c[1] \in EntityTables => c \in EntityColumns}
           refs == {r \in S.refs : r.table \notin EntityTables}
                     \cup UNION {{Ref(e.table, Generated, u) : u \in e.to} : e \in Entities}
<1>1. PICK E : E = Synchronised(S)
  OBVIOUS
<1>2. E = [S EXCEPT !.tables = S.tables \cup EntityTables, !.cols = kept \cup EntityColumns,
                    !.rows = S.rows \cap kept, !.idx = {}, !.astray = {}, !.refs = refs]
  BY <1>1, Zenon DEF Synchronised
<1>3. ASSUME NEW r \in refs
      PROVE  /\ (r \in S.refs /\ r.table \notin EntityTables) \/ r.name = Generated
             /\ r \in S.refs \/ r.to \notin Retired
  <2>1. CASE r \in S.refs /\ r.table \notin EntityTables
    BY <2>1
  <2>2. CASE \E e \in Entities : r \in {Ref(e.table, Generated, u) : u \in e.to}
    <3>1. PICK e \in Entities : \E u \in e.to : r = Ref(e.table, Generated, u)
      BY <2>2
    <3>2. PICK u \in e.to : r = Ref(e.table, Generated, u)
      BY <3>1
    <3>3. r.name = Generated /\ r.to = u
      BY <3>2 DEF Ref
    <3> QED
      BY <3>1, <3>3, EntitiesRefer
  <2> QED
    BY <2>1, <2>2
<1> HIDE DEF kept, refs
<1>4. /\ E.ok /\ E.tables = S.tables \cup EntityTables /\ E.cols = kept \cup EntityColumns
      /\ E.rows = S.rows \cap kept /\ E.refs = refs /\ E.astray = {}
  BY <1>2 DEF IsSchema, Fields
<1>5. kept \subseteq S.cols /\ (\A c \in kept : c[1] \in EntityTables => c \in EntityColumns)
  BY DEF kept
<1>6. \A c \in EntityColumns : c = <<c[1], c[2]>> /\ c[1] \in EntityTables
  <2> SUFFICES ASSUME NEW c \in EntityColumns PROVE c = <<c[1], c[2]>> /\ c[1] \in EntityTables
    OBVIOUS
  <2>1. PICK e \in Entities : c \in {e.table} \X e.cols
    BY DEF EntityColumns
  <2> QED
    BY <2>1 DEF EntityTables
<1>7. Housed(E)
  BY <1>4, <1>5, <1>6 DEF Housed
<1>8. Built(27, E, O)
  <2>1. BuiltTables(27, E, O)
    BY <1>4 DEF Built, BuiltTables
  <2>2. BuiltColumns(27, E)
    BY <1>4 DEF BuiltColumns, Whole
  <2>3. FaqsJson \notin O.cols
    <3>1. ~(27 < 19)
      OBVIOUS
    <3> QED
      BY <3>1 DEF Built, BuiltFaqs
  <2>4. FaqsBinaryJson \notin E.cols
    <3>1. FaqsBinaryJson[1] = "faqs"
      BY DEF FaqsBinaryJson
    <3> QED
      BY <1>4, <1>5, <3>1, FaqTypes
  <2>5. BuiltFaqs(27, E, O)
    BY <2>3, <2>4 DEF BuiltFaqs, OneType, FaqsBinaryJson
  <2> QED
    BY <2>1, <2>2, <2>5 DEF Built
<1>9. NoNamed(E)
  BY <1>3, <1>4 DEF NoNamed, Generated
<1>10. (\A r \in S.refs : r.to \notin Retired) => \A r \in E.refs : r.to \notin Retired
  BY <1>3, <1>4
<1>11. Unfilled(E) => Unfilled(S)
  <2>1. <<"payment", "paymentType">> \in EntityColumns
    BY PaymentHasType
  <2>2. S.rows \cap EntityColumns \subseteq E.rows
    BY <1>1, SynchronisedIs
  <2> QED
    BY <1>4, <2>1, <2>2 DEF Unfilled
<1> QED
  BY <1>1, <1>4, <1>7, <1>8, <1>9, <1>10, <1>11

LEMMA SynchronizeArrives ==
  ASSUME SchemaInv, ArriveInv, Synchronize
  PROVE  ArriveInv'
<1>1. stage = "migrated" /\ release = 27 /\ executed = 27
  BY ReleaseHas DEF Synchronize, ArriveInv
<1>2. origin' = origin /\ executed' = executed /\ release' = release /\ reverts' = reverts
  BY DEF Synchronize
<1>3. CASE Unfilled(schema) \/ Dangling(schema)
  <2>1. stage' = "exited" /\ schema' = schema
    BY <1>3 DEF Synchronize
  <2>2. Unsuitable
    <3>1. CASE Unfilled(schema)
      BY <3>1 DEF ArriveInv, Unsuitable
    <3>2. CASE Dangling(schema)
      <4>1. ~Unpointed(schema)
        BY <3>2 DEF Dangling, Unpointed
      <4>2. ~Fit(origin, reverts)
        BY <4>1 DEF ArriveInv, Ready, ReadyForUsers
      <4> QED
        BY <4>2, NotFitUnsuitable DEF ArriveInv
    <3> QED
      BY <1>3, <3>1, <3>2
  <2>3. Unsuitable'
    BY <1>2, <2>1, <2>2 DEF Unsuitable, Unfilled
  <2> QED
    BY <1>2, <2>1, <2>3 DEF ArriveInv
<1>4. CASE ~Unfilled(schema) /\ ~Dangling(schema)
  <2>1. stage' = "serving" /\ schema' = Synchronised(schema)
    BY <1>4 DEF Synchronize
  <2>2. PICK S, O, E : S = schema /\ O = origin /\ E = Synchronised(S)
    OBVIOUS
  <2>3. IsSchema(S) /\ Housed(S) /\ S.ok /\ Built(27, S, O) /\ NoNamed(S)
    BY <1>1, <2>2 DEF SchemaInv, ArriveInv
  <2>4. /\ E.ok /\ Housed(E) /\ Built(27, E, O) /\ NoNamed(E) /\ E.astray = {}
        /\ (\A r \in S.refs : r.to \notin Retired) => \A r \in E.refs : r.to \notin Retired
        /\ Unfilled(E) => Unfilled(S)
    BY <2>2, <2>3, SynchronisedArrives
  <2>5. ASSUME Fit(O, reverts) PROVE Ready(27, E, O)
    <3>1. Ready(27, S, O)
      BY <1>1, <2>2, <2>5 DEF ArriveInv
    <3>2. ~(27 < 3) /\ ~(27 < 18) /\ ~(27 < 20) /\ ~(27 < 22)
      OBVIOUS
    <3> QED
      BY <2>4, <3>1, <3>2 DEF Ready, ReadyForKeys, ReadyForUsers, Unpointed, ReadyForTokyo, ReadyForSettings
  <2> QED
    BY <1>1, <1>2, <1>4, <2>1, <2>2, <2>4, <2>5 DEF ArriveInv
<1> QED
  BY <1>3, <1>4

LEMMA OperateArrives ==
  ASSUME SchemaInv, ArriveInv, Operate
  PROVE  ArriveInv'
<1>1. /\ schema' = [schema EXCEPT !.rows = @ \cup EntityColumns]
      /\ stage = "serving" /\ stage' = stage /\ executed = 27
      /\ origin' = origin /\ executed' = executed /\ release' = release /\ reverts' = reverts
  BY DEF Operate, ArriveInv
<1>2. PICK S, E, O : S = schema /\ E = schema' /\ O = origin
  OBVIOUS
<1>3. /\ E.ok = S.ok /\ E.tables = S.tables /\ E.cols = S.cols /\ E.refs = S.refs
      /\ E.rows = S.rows \cup EntityColumns /\ E.astray = {}
  BY <1>1, <1>2 DEF SchemaInv, ArriveInv, IsSchema, Fields
<1>4. Housed(E) /\ Built(27, E, O) /\ NoNamed(E) /\ E.ok
  BY <1>1, <1>2, <1>3 DEF ArriveInv, Housed, Built, BuiltTables, BuiltColumns, BuiltFaqs, Whole,
       OneType, NoNamed
<1>5. ~Unfilled(E)
  <2>1. <<"payment", "paymentType">> \in EntityColumns
    BY PaymentHasType
  <2> QED
    BY <1>3, <2>1 DEF Unfilled
<1>6. ASSUME Fit(O, reverts) PROVE Ready(27, E, O)
  <2>1. Ready(27, S, O)
    BY <1>1, <1>2, <1>6 DEF ArriveInv
  <2>2. ~(27 < 3) /\ ~(27 < 18) /\ ~(27 < 20) /\ ~(27 < 22)
    OBVIOUS
  <2> QED
    BY <1>3, <2>1, <2>2 DEF Ready, ReadyForKeys, ReadyForUsers, Unpointed, ReadyForTokyo, ReadyForSettings
<1> QED
  BY <1>1, <1>2, <1>3, <1>4, <1>5, <1>6 DEF ArriveInv

LEMMA RevertArrives ==
  ASSUME SchemaInv, ArriveInv, Revert
  PROVE  ArriveInv'
<1>1. PICK S, O, m, E : S = schema /\ O = origin /\ m = executed /\ E = Execute(S, Release[m].down)
  OBVIOUS
<1>2. /\ m \in 1..27 /\ IsSchema(S) /\ S.ok /\ Housed(S) /\ Built(m, S, O) /\ NoNamed(S)
      /\ reverts \in Nat
  BY <1>1 DEF SchemaInv, ArriveInv, Revert
<1>3. /\ stage = "stopped" /\ stage' = stage /\ reverts' = reverts + 1
      /\ origin' = origin /\ release' = release
  BY DEF Revert
<1>4. Fit(O, reverts + 1) => Fit(O, reverts) /\ "metatrader_accounts" \notin O.tables
  <2>1. reverts + 1 > 0
    BY <1>2
  <2> QED
    BY <2>1 DEF Fit
<1>5. CASE E.ok
  <2>1. schema' = E /\ executed' = m - 1
    BY <1>1, <1>5 DEF Revert
  <2>2. m \notin {18, 20}
    BY <1>1, <1>2, <1>5, TwoDownsFail
  <2>3. Built(m - 1, E, O)
    BY <1>1, <1>2, <1>5, <2>2, DownBuilds
  <2>4. Housed(E) /\ NoNamed(E)
    <3>1. PICK s : s = Release[m].down
      OBVIOUS
    <3>2a. PICK n \in Nat : \E after : Traces(after, S, s, n)
      BY <1>2, <3>1, DownTraces
    <3>2. PICK after : n \in Nat /\ Traces(after, S, s, n)
      BY <3>2a
    <3>3. AllSuit(s, m)
      BY <1>2, <2>2, <3>1, DownsSuit
    <3>4. E = Execute(S, s)
      BY <1>1, <3>1
    <3>5. NoNamed(E)
      BY <1>2, <3>2, <3>3, <3>4, NamesStayGenerated
    <3>6. n \in 0..n /\ after[n] = E
      BY <3>2, <3>4 DEF Traces
    <3>7. Housed(after[n])
      BY <3>2, <3>6 DEF Traces
    <3> QED
      BY <3>5, <3>6, <3>7
  <2>5. ASSUME Fit(O, reverts + 1) PROVE Ready(m - 1, E, O)
    <3>1. Ready(m, S, O)
      BY <1>1, <1>4, <2>5 DEF ArriveInv
    <3> QED
      BY <1>1, <1>2, <1>4, <1>5, <2>2, <2>5, <3>1, DownStaysReady
  <2>6. reverts + 1 # 0 /\ reverts + 1 \in Nat
    BY <1>2
  <2>7. Sound(O)
    BY <1>1 DEF ArriveInv
  <2> QED
    BY <1>1, <1>3, <1>5, <2>1, <2>3, <2>4, <2>5, <2>6, <2>7 DEF ArriveInv
<1>6. CASE ~E.ok
  <2>1. schema' = schema /\ executed' = executed
    BY <1>1, <1>6 DEF Revert
  <2>2. reverts + 1 # 0 /\ reverts + 1 \in Nat
    BY <1>2
  <2> QED
    BY <1>1, <1>3, <1>4, <2>1, <2>2 DEF ArriveInv
<1> QED
  BY <1>5, <1>6

LEMMA ArriveKept == SchemaInv /\ ArriveInv /\ [SchemaNext]_schemaVars => ArriveInv'
<1> SUFFICES ASSUME SchemaInv, ArriveInv, [SchemaNext]_schemaVars PROVE ArriveInv'
  OBVIOUS
<1>1. CASE Deploy
  BY <1>1 DEF Deploy, ArriveInv, Unfilled
<1>2. CASE RunMigrations
  BY <1>2, RunMigrationsArrive
<1>3. CASE Synchronize
  BY <1>3, SynchronizeArrives
<1>4. CASE Operate
  BY <1>4, OperateArrives
<1>5. CASE Stop
  BY <1>5 DEF Stop, ArriveInv, Unfilled
<1>6. CASE Revert
  BY <1>6, RevertArrives
<1>7. CASE UNCHANGED schemaVars
  BY <1>7 DEF schemaVars, ArriveInv, Unfilled, Unsuitable
<1> QED
  BY <1>1, <1>2, <1>3, <1>4, <1>5, <1>6, <1>7 DEF SchemaNext

\* What a straight upgrade makes is there already.
LEMMA InvArrives == SchemaInv /\ ArriveInv => StartsArrive
<1> SUFFICES ASSUME SchemaInv, ArriveInv PROVE StartsArrive
  OBVIOUS
<1>1. stage = "exited" => Unsuitable
  BY DEF ArriveInv
<1>2. ASSUME stage \in {"migrated", "serving"}, release = 27
      PROVE  Execute(origin, Ups(0, 27)).cols \cap EntityColumns \subseteq schema.cols
  <2>1. PICK O, straight : O = origin /\ straight = Execute(O, Ups(0, 27))
    OBVIOUS
  <2>2. Sound(O) /\ Built(27, schema, O)
    BY <1>2, <2>1 DEF ArriveInv
  <2>3. Bounded(O, O)
    BY DEF Bounded
  <2>4. Housed(straight) /\ Bounded(straight, O)
    <3>1. 0 \in 0..27 /\ 27 \in 0..27 /\ 0 <= 27
      OBVIOUS
    <3>2. IsSchema(O) /\ Housed(O)
      BY <2>2 DEF Sound
    <3> QED
      BY <2>1, <2>3, <3>1, <3>2, UpsLeave
  <2>5. ASSUME NEW c \in straight.cols, c \in EntityColumns PROVE c \in schema.cols
    <3>1. c[1] \in straight.tables /\ c[1] \notin Retired
      BY <2>4, <2>5, EntityColumnsAre DEF Housed
    <3>2. Present(c[1], 27, O)
      <4>1. TableLevel(c[1]) <= 27
        BY LevelsAreNumbers
      <4>2. CASE TableLevel(c[1]) = 0
        BY <2>4, <3>1, <4>2 DEF Bounded, Present
      <4>3. CASE TableLevel(c[1]) # 0
        BY <2>2, <2>4, <3>1, <4>1, <4>3 DEF Bounded, Present, Sound
      <4> QED
        BY <4>2, <4>3
    <3>3. c[1] \in schema.tables
      BY <2>2, <3>1, <3>2 DEF Built, BuiltTables
    <3>4. c # FaqsJson
      <4>1. ~(27 < 19)
        OBVIOUS
      <4> QED
        BY <2>2, <2>4, <2>5, <4>1 DEF Bounded, Built, BuiltFaqs
    <3>5. ColumnLevel(c) <= 27
      <4>1. ColumnLevel(c) \in 0..27
        BY <2>5, <3>4, EntityColumnsAre
      <4> QED
        BY <4>1
    <3> QED
      BY <2>2, <2>5, <3>3, <3>5 DEF Built, BuiltColumns, Whole
  <2> QED
    BY <2>1, <2>5
<1> QED
  BY <1>1, <1>2, ReleaseHas DEF StartsArrive

\* Whatever was reverted before, a start of the last release arrives at all columns of the
\* entities that a straight upgrade of the database the first release found makes, and it
\* exits with an error only if that database was none the migrations were written for, or
\* reverts have made it such a one.
THEOREM SchemaStartsArrive == SchemaSpec => []StartsArrive
<1>1. SchemaInit => ArriveInv
  BY ArriveInitially
<1>2. SchemaInv /\ ArriveInv /\ [SchemaNext]_schemaVars => ArriveInv'
  BY ArriveKept
<1>3. SchemaInv /\ ArriveInv => StartsArrive
  BY InvArrives
<1> QED
  BY <1>1, <1>2, <1>3, SchemaInvAlways, PTL DEF SchemaSpec
==============================================================================
