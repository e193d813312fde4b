------------------------------- MODULE Schema -------------------------------
(***************************************************************************)
(* The database's schema: the 27 migrations, what main.ts does with them   *)
(* and with TypeORM's synchronisation at every start, and the command that *)
(* reverts the last one.                                                   *)
(*                                                                         *)
(* A table is the set of those of its columns that some migration adds or  *)
(* drops apart from the table; the columns a table is created with and     *)
(* keeps are the column Rest.  Of the indexes and foreign keys there are   *)
(* those that make a statement fail when they are there, or are not.       *)
(* Enumeration types are left out: a type is only dropped after the        *)
(* columns that have it.                                                   *)
(***************************************************************************)
EXTENDS Integers, Sequences, FiniteSets, SequencesExt

CONSTANTS
  Inherited,    \* bound: sets of tables a database may have from before the first migration
  Releases,     \* bound: numbers of migrations of the releases before this one
  MaxReverts    \* bound on the reverts

\* A release that had withdrawals had the wallets they are paid to.
ASSUME SchemaAssumption ==
  /\ MaxReverts \in Nat
  /\ \A L \in Inherited : "withdrawals" \in L => "wallets" \in L

Rest == "rest"

------------------------------------------------------------------------------
(***************************************************************************)
(* Statements.  Those a guard protects do nothing where they do not apply; *)
(* the others fail, and the transaction of all pending migrations, or of   *)
(* the revert, with them.                                                  *)
(***************************************************************************)

Create(t, cols, to) == [do |-> "create", table |-> t, cols |-> cols, to |-> to]
AddIfTable(t, cols, idx) == [do |-> "add if table", table |-> t, cols |-> cols, idx |-> idx]
AddMissing(t, cols) == [do |-> "add missing", table |-> t, cols |-> cols]
AddNew(t, cols) == [do |-> "add new", table |-> t, cols |-> cols]
DropIfThere(t, cols) == [do |-> "drop columns", table |-> t, cols |-> cols]
DropExisting(t, cols) == [do |-> "drop existing", table |-> t, cols |-> cols]
DropTable(t) == [do |-> "drop table", table |-> t]
DropOldProfiles == [do |-> "drop old profiles", table |-> "profile"]
Alter(t) == [do |-> "alter", table |-> t]
Index(t, name) == [do |-> "index", table |-> t, name |-> name]
DropIndex(t, name) == [do |-> "drop index", table |-> t, name |-> name]
Reference(t, to) == [do |-> "reference", table |-> t, to |-> to]
ReferenceOnce(t, to) == [do |-> "reference once", table |-> t, to |-> to]
DropReference(t, name) == [do |-> "drop reference", table |-> t, name |-> name]
CreateIfTables(t, to) == [do |-> "create if tables", table |-> t, cols |-> {}, to |-> to]
ReferenceIfTables(t, to) == [do |-> "reference if tables", table |-> t, to |-> to]
Translate == [do |-> "translate", table |-> "faqs"]
Untranslate == [do |-> "untranslate", table |-> "faqs"]
Rekey == [do |-> "rekey", table |-> "users"]
Throw == [do |-> "throw", table |-> ""]

\* A schema that nothing was done to yet.
Empty ==
  [ok |-> TRUE,       \* no statement has failed
   tables |-> {},     \* tables
   cols |-> {},       \* <<table, column>>
   idx |-> {},        \* <<table, index>>
   refs |-> {},       \* foreign keys: table, name and the table they refer to
   uuid |-> FALSE,    \* users have UUIDs
   astray |-> {},     \* tables whose ids of users cannot become a foreign key to users
   rows |-> {}]       \* columns that hold data

ColumnsOf(S, t) == {c[2] : c \in {d \in S.cols : d[1] = t}}

\* createForeignKey without a name gives one that only depends on table and column.
Generated == "generated"
Ref(t, name, to) == [table |-> t, name |-> name, to |-> to]

\* What refers to users and is given their new ids.
Related == {"profile", "wallets", "marathon_participants", "notification_users", "notification_read_by"}

\* What refers to users too, and keeps the ids they had when users are given new ones.
\* An integer column is made anew by the synchronisation: only where the id is optional
\* that works with rows, and they lose it.
LeftOut == {"payment", "metatrader_accounts", "tickets", "ticket_messages", "withdrawals",
            "virtual_wallets", "password_requests", "sessions", "login_history", "user_settings"}
Authored == {"tickets", "ticket_messages"}

Stranded(S) ==
  {t \in LeftOut \cap S.tables : IF S.uuid THEN <<t, Rest>> \in S.rows ELSE t \notin Authored}

\* The types of the questions and answers.  JSON has no equality to compare it with.
AsText == "text"
AsJson == "json"
AsBinaryJson == "jsonb"

Added(S, t, cols) ==
  [S EXCEPT !.tables = @ \cup {t}, !.cols = @ \cup ({t} \X cols)]

LinkColumn == "marathonParticipantId"
LinkIndex == "IDX_metatrader_accounts_marathonParticipantId"

Without(S, t, cols) ==
  [S EXCEPT !.cols = @ \ ({t} \X cols), !.rows = @ \ ({t} \X cols),
            !.idx = IF LinkColumn \in cols THEN @ \ {<<t, LinkIndex>>} ELSE @]

\* A column of another type, with the data of the old one.
Retyped(S, t, from, to) ==
  [Without(Added(S, t, {to}), t, {from}) EXCEPT
     !.rows = IF <<t, from>> \in S.rows THEN @ \cup {<<t, to>>} ELSE @]

WithoutTable(S, t) ==
  [Without(S, t, ColumnsOf(S, t)) EXCEPT
     !.tables = @ \ {t},
     !.astray = @ \ {t},
     !.idx = {i \in @ : i[1] # t},
     !.refs = {r \in @ : r.table # t /\ r.to # t}]

\* A table others refer to cannot be dropped.
Fails(S, st) ==
  LET t == st.table there == t \in S.tables IN
  CASE st.do = "throw" -> TRUE
    [] st.do \in {"alter", "add missing"} -> ~there
    [] st.do = "add new" -> ~there \/ st.cols \cap ColumnsOf(S, t) # {}
    [] st.do = "drop existing" -> ~ st.cols \subseteq ColumnsOf(S, t)
    [] st.do = "drop table" -> \E r \in S.refs : r.to = t /\ r.table # t
    [] st.do = "index" -> ~there \/ <<t, st.name>> \in S.idx
    [] st.do = "drop index" -> <<t, st.name>> \notin S.idx
    [] st.do = "reference" ->
         ~there \/ Ref(t, Generated, st.to) \in S.refs \/ (st.to = "users" /\ t \in S.astray)
    [] st.do = "reference once" ->
         st.to = "users" /\ t \in S.astray /\ \A r \in S.refs : r.table # t \/ r.to # st.to
    [] st.do = "drop reference" -> \A r \in S.refs : r.table # t \/ r.name # st.name
    [] st.do = "translate" -> AsJson \in ColumnsOf(S, t)
    [] st.do = "untranslate" -> AsText \in ColumnsOf(S, t)
    [] st.do = "rekey" -> ~there \/ (S.uuid /\ \E c \in S.rows : c[1] \in Related)
    [] OTHER -> FALSE

Effect(S, st) ==
  LET t == st.table there == t \in S.tables IN
  CASE ~there /\ (st.do = "create" \/ (st.do = "create if tables" /\ st.to \subseteq S.tables)) ->
         [Added(S, t, st.cols \cup {Rest}) EXCEPT !.refs = @ \cup {Ref(t, "named", u) : u \in st.to}]
    [] st.do = "add if table" /\ there ->
         [Added(S, t, st.cols) EXCEPT
            !.idx = IF st.cols \subseteq ColumnsOf(S, t) THEN @ ELSE @ \cup ({t} \X st.idx)]
    [] st.do \in {"add missing", "add new"} -> Added(S, t, st.cols)
    [] st.do \in {"drop columns", "drop existing"} -> Without(S, t, st.cols)
    [] st.do = "drop table" -> WithoutTable(S, t)
    [] st.do = "drop old profiles" /\ "users" \in S.tables /\ ~S.uuid -> WithoutTable(S, t)
    [] st.do = "index" -> [S EXCEPT !.idx = @ \cup {<<t, st.name>>}]
    [] st.do = "drop index" -> [S EXCEPT !.idx = @ \ {<<t, st.name>>}]
    [] st.do = "reference" \/ (st.do = "reference once" /\ \A r \in S.refs : r.table # t \/ r.to # st.to) ->
         [S EXCEPT !.refs = @ \cup {Ref(t, Generated, st.to)}]
    [] st.do = "reference if tables" /\ {t, st.to} \subseteq S.tables ->
         [S EXCEPT !.refs = @ \cup {Ref(t, "named", st.to)}]
    [] st.do = "translate" /\ AsText \in ColumnsOf(S, t) -> Retyped(S, t, AsText, AsBinaryJson)
    [] st.do = "untranslate" /\ AsBinaryJson \in ColumnsOf(S, t) -> Retyped(S, t, AsBinaryJson, AsText)
    [] st.do = "untranslate" /\ AsJson \in ColumnsOf(S, t) -> Retyped(S, t, AsJson, AsText)
    [] st.do = "drop reference" -> [S EXCEPT !.refs = {r \in @ : r.table # t \/ r.name # st.name}]
    [] st.do = "rekey" ->
         [S EXCEPT !.uuid = TRUE, !.astray = Stranded(S),
                   !.refs = {r \in @ : r.to # "users"} \cup {Ref(u, "named", "users") : u \in Related \cap S.tables}]
    [] OTHER -> S

Exec(S, st) ==
  IF ~S.ok THEN S ELSE IF Fails(S, st) THEN [S EXCEPT !.ok = FALSE] ELSE Effect(S, st)

Execute(S, statements) == FoldLeft(Exec, S, statements)

------------------------------------------------------------------------------
(***************************************************************************)
(* The migrations, named as their classes: what up does, and what down.    *)
(***************************************************************************)

CreateUserRoleEnum == [up |-> <<>>, down |-> <<>>]

CreateUsersTable == [up |-> <<Create("users", {}, {})>>, down |-> <<DropTable("users")>>]

\* Makes integer keys UUIDs; where they are UUIDs already, the related rows keep the old ones.
UpdateUserAndProfileToUUID == [up |-> <<Create("profile", {}, {}), Rekey>>, down |-> <<Throw>>]

\* Mutant: profiles are dropped whatever keys users have.
DropProfilesAlways == [up |-> <<DropTable("profile")>>, down |-> <<Throw>>]

DropUsersAndProfiles == [up |-> <<DropOldProfiles>>, down |-> <<Throw>>]

SocialColumns == {"instagramUrl", "twitterUrl", "linkedinUrl", "telegramUrl"}

\* down ends with ADD CONSTRAINT IF NOT EXISTS, which PostgreSQL does not know.
AddSocialMediaToProfile ==
  [up |-> <<Create("profile", {}, {}), AddIfTable("profile", SocialColumns, {}), DropTable("social_media")>>,
   down |-> <<DropIfThere("profile", SocialColumns), Throw>>]

DropMetaTraderAccounts == [up |-> <<DropTable("meta_trader_accounts")>>, down |-> <<>>]

AddBalanceToProfile ==
  [up |-> <<AddIfTable("profile", {"balance"}, {})>>, down |-> <<DropIfThere("profile", {"balance"})>>]

AddTrackingIdToTickets ==
  [up |-> <<AddIfTable("tickets", {"tracking_id"}, {})>>, down |-> <<DropIfThere("tickets", {"tracking_id"})>>]

ProviderColumns == {"userId", "paymentType", "marathonId"}

\* down alters the table whether it is there or not.
UpdatePaymentEntityForNowPayments ==
  [up |-> <<AddIfTable("payment", ProviderColumns, {}), ReferenceIfTables("payment", "marathons")>>,
   down |-> <<Alter("payment"), DropIfThere("payment", ProviderColumns)>>]

AddIsTestToPayment ==
  [up |-> <<AddIfTable("payment", {"isTest"}, {})>>, down |-> <<DropIfThere("payment", {"isTest"})>>]

AddMarathonParticipantIdToMetaTraderAccounts ==
  [up |-> <<AddIfTable("metatrader_accounts", {LinkColumn}, {LinkIndex})>>,
   down |-> <<DropIfThere("metatrader_accounts", {LinkColumn})>>]

PrizeColumns == {"prizeStrategyType", "prizeStrategyConfig"}
CancelColumns == {"cancelledAt", "refundTransactionId"}

AddPrizeStrategyToMarathons ==
  [up |-> <<Create("marathons", PrizeColumns \cup {"status"}, {}),
            Create("marathon_participants", CancelColumns, {"marathons", "users"}),
            AddIfTable("marathons", PrizeColumns, {})>>,
   down |-> <<DropIfThere("marathons", PrizeColumns), DropTable("marathon_participants"), DropTable("marathons")>>]

\* Mutant: trusts an earlier migration to have made the columns down drops.
CreateVirtualWalletTablesOnly ==
  [up |-> <<Create("virtual_wallets", {}, {"users"}),
            Create("virtual_wallet_transactions", {}, {"virtual_wallets"})>>,
   down |-> <<DropIfThere("marathon_participants", CancelColumns),
              DropTable("virtual_wallet_transactions"), DropTable("virtual_wallets")>>]

CreateVirtualWalletTables ==
  [up |-> <<Create("virtual_wallets", {}, {"users"}),
            Create("virtual_wallet_transactions", {}, {"virtual_wallets"}),
            AddIfTable("marathon_participants", CancelColumns, {})>>,
   down |-> <<DropIfThere("marathon_participants", CancelColumns),
              DropTable("virtual_wallet_transactions"), DropTable("virtual_wallets")>>]

AddStatusToMarathons ==
  [up |-> <<AddMissing("marathons", {"status"})>>, down |-> <<DropIfThere("marathons", {"status"})>>]

CreateWithdrawalsTable ==
  [up |-> <<CreateIfTables("withdrawals", {"users", "wallets"})>>, down |-> <<DropTable("withdrawals")>>]

AddIsBannedToUsers ==
  [up |-> <<AddMissing("users", {"isBanned"})>>, down |-> <<DropIfThere("users", {"isBanned"})>>]

AddIsFrozenToVirtualWallets ==
  [up |-> <<AddMissing("virtual_wallets", {"isFrozen"})>>, down |-> <<DropIfThere("virtual_wallets", {"isFrozen"})>>]

\* The tables of an account's data, with the columns their indexes are named after.
MetatraderAccounts == <<Create("metatrader_accounts", {LinkColumn}, {}),
  Index("metatrader_accounts", "IDX_metatrader_accounts_userId"), Index("metatrader_accounts", LinkIndex),
  ReferenceOnce("metatrader_accounts", "users")>>
TokyoAccountData == <<Create("tokyo_account_data", {}, {})>>
TokyoTransactionHistory == <<Create("tokyo_transaction_history", {}, {})>>
TokyoPerformance == <<Create("tokyo_performance", {}, {})>>
TokyoBalanceHistory == <<Create("tokyo_balance_history", {}, {})>>
TokyoEquityHistory == <<Create("tokyo_equity_history", {}, {})>>

TokyoTables == <<"tokyo_account_data", "tokyo_transaction_history", "tokyo_performance",
                 "tokyo_balance_history", "tokyo_equity_history">>
TokyoIndexes == <<<<1, "updatedAt">>, <<2, "openTime">>, <<2, "closeTime">>, <<3, "updatedAt">>,
                  <<4, "time">>, <<5, "time">>>>

TokyoReferences == [i \in 1..5 |-> Reference(TokyoTables[i], "metatrader_accounts")]
CreateTokyoIndexes == [i \in 1..6 |-> Index(TokyoTables[TokyoIndexes[i][1]], TokyoIndexes[i][2])]

\* The references were made without a name; down drops them by one.
DropTokyoTables ==
  [i \in 1..6 |-> DropIndex(TokyoTables[TokyoIndexes[7 - i][1]], TokyoIndexes[7 - i][2])]
  \o <<DropIndex("metatrader_accounts", LinkIndex),
       DropIndex("metatrader_accounts", "IDX_metatrader_accounts_userId")>>
  \o [i \in 1..5 |-> DropReference(TokyoTables[6 - i], "named")]
  \o [i \in 1..5 |-> DropTable(TokyoTables[6 - i])] \o <<DropTable("metatrader_accounts")>>

CreateTokyoDataTables ==
  [up |-> MetatraderAccounts \o TokyoAccountData \o TokyoTransactionHistory \o TokyoPerformance
            \o TokyoBalanceHistory \o TokyoEquityHistory \o TokyoReferences \o CreateTokyoIndexes,
   down |-> DropTokyoTables]

UpdateFaqTableForMultilingual == [up |-> <<Translate>>, down |-> <<Untranslate>>]

RetiredSettings == {"inAppNotificationsEnabled", "showTradingInfo"}
SettingsTables == <<"user_settings", "sessions", "login_history">>
SettingsIndexes == <<<<2, "userId">>, <<2, "token">>, <<3, "userId">>, <<3, "ipAddress">>>>

CreateSettingsTables ==
  [up |-> <<Create("user_settings", RetiredSettings, {}), Create("sessions", {}, {}), Create("login_history", {}, {})>>
            \o [i \in 1..3 |-> Reference(SettingsTables[i], "users")]
            \o [i \in 1..4 |-> Index(SettingsTables[SettingsIndexes[i][1]], SettingsIndexes[i][2])],
   down |-> [i \in 1..4 |-> DropIndex(SettingsTables[SettingsIndexes[5 - i][1]], SettingsIndexes[5 - i][2])]
              \o [i \in 1..3 |-> DropReference(SettingsTables[4 - i], "named")]
              \o [i \in 1..3 |-> DropTable(SettingsTables[4 - i])]]

RemoveSettingsFields ==
  [up |-> <<DropIfThere("user_settings", RetiredSettings)>>,
   down |-> <<AddIfTable("user_settings", RetiredSettings, {})>>]

AddLocationToSessions ==
  [up |-> <<AddNew("sessions", {"location"})>>, down |-> <<DropExisting("sessions", {"location"})>>]

AnnouncementColumns == {"marathonAnnouncementsEmailEnabled", "marathonAnnouncementsSmsEnabled"}

AddMarathonAnnouncementsSettings ==
  [up |-> <<AddIfTable("user_settings", AnnouncementColumns, {})>>,
   down |-> <<DropIfThere("user_settings", AnnouncementColumns)>>]

BanColumns == {"banReason", "bannedAt", "bannedUntil"}

AddBanReasonAndBannedAtToUsers ==
  [up |-> <<AddMissing("users", BanColumns)>>, down |-> <<DropIfThere("users", BanColumns)>>]

AddStatusToMarathonParticipants ==
  [up |-> <<AddMissing("marathon_participants", {"status"})>>,
   down |-> <<DropIfThere("marathon_participants", {"status"})>>]

AddDisqualificationReasonToMarathonParticipants ==
  [up |-> <<AddMissing("marathon_participants", {"disqualificationReason"})>>,
   down |-> <<DropIfThere("marathon_participants", {"disqualificationReason"})>>]

CreatePasswordRequestsTable ==
  [up |-> <<Create("password_requests", {}, {"marathon_participants", "users"})>>,
   down |-> <<DropTable("password_requests")>>]

\* In the order of the time stamps in their names.
Release == <<
  CreateUserRoleEnum, CreateUsersTable, UpdateUserAndProfileToUUID, DropUsersAndProfiles,
  AddSocialMediaToProfile, DropMetaTraderAccounts, AddBalanceToProfile, AddTrackingIdToTickets,
  AddIsTestToPayment, UpdatePaymentEntityForNowPayments, AddMarathonParticipantIdToMetaTraderAccounts,
  AddPrizeStrategyToMarathons, CreateVirtualWalletTables, AddStatusToMarathons, CreateWithdrawalsTable,
  AddIsBannedToUsers, AddIsFrozenToVirtualWallets, CreateTokyoDataTables, UpdateFaqTableForMultilingual,
  CreateSettingsTables, RemoveSettingsFields, AddLocationToSessions, AddMarathonAnnouncementsSettings,
  AddBanReasonAndBannedAtToUsers, AddStatusToMarathonParticipants,
  AddDisqualificationReasonToMarathonParticipants, CreatePasswordRequestsTable>>

ASSUME ReleasesAssumption == Releases \subseteq 0 .. Len(Release)

------------------------------------------------------------------------------
(***************************************************************************)
(* The entities: the schema synchronisation makes of them.                 *)
(***************************************************************************)

Entity(t, cols, to) == [table |-> t, cols |-> cols, to |-> to]

User == Entity("users", {Rest, "isBanned"} \cup BanColumns, {})
EmailVerification == Entity("email_verifications", {Rest}, {})
PasswordReset == Entity("password_reset", {Rest}, {})
Profile == Entity("profile", {Rest, "balance"} \cup SocialColumns, {"users"})
Wallet == Entity("wallets", {Rest}, {"users"})
VirtualWallet == Entity("virtual_wallets", {Rest, "isFrozen"}, {"users"})
VirtualWalletTransaction == Entity("virtual_wallet_transactions", {Rest}, {"virtual_wallets"})
Withdrawal == Entity("withdrawals", {Rest}, {"users", "wallets"})
Payment == Entity("payment", {Rest, "isTest"} \cup ProviderColumns, {"users", "marathons"})
Marathon == Entity("marathons", {Rest, "status"} \cup PrizeColumns, {})
MarathonParticipant ==
  Entity("marathon_participants", {Rest, "status", "disqualificationReason"} \cup CancelColumns,
         {"marathons", "users", "metatrader_accounts"})
PasswordRequest == Entity("password_requests", {Rest}, {"marathon_participants", "users"})
MetaTraderAccount == Entity("metatrader_accounts", {Rest, LinkColumn}, {"users"})
TokyoEntity(i) == Entity(TokyoTables[i], {Rest}, {"metatrader_accounts"})
Session == Entity("sessions", {Rest, "location"}, {"users"})
LoginHistory == Entity("login_history", {Rest}, {"users"})
UserSettings == Entity("user_settings", {Rest} \cup AnnouncementColumns, {"users"})
Notification == Entity("notifications", {Rest}, {})
Recipients == Entity("notification_users", {Rest}, {"notifications", "users"})
ReadBy == Entity("notification_read_by", {Rest}, {"notifications", "users"})
Department == Entity("departments", {Rest}, {})
Ticket == Entity("tickets", {Rest, "tracking_id"}, {"departments", "users"})
TicketMessage == Entity("ticket_messages", {Rest}, {"tickets", "users"})
Faq == Entity("faqs", {Rest, AsJson}, {})

Entities ==
  {User, EmailVerification, PasswordReset, Profile, Wallet, VirtualWallet, VirtualWalletTransaction,
   Withdrawal, Payment, Marathon, MarathonParticipant, PasswordRequest, MetaTraderAccount, Session,
   LoginHistory, UserSettings, Notification, Recipients, ReadBy, Department, Ticket, TicketMessage, Faq}
  \cup {TokyoEntity(i) : i \in 1..5}

EntityTables == {e.table : e \in Entities}
EntityColumns == UNION {{e.table} \X e.cols : e \in Entities}

\* Columns of another type are dropped and made anew, empty.  Other tables stay.
Synchronised(S) ==
  LET kept == {c \in S.cols : c[1] \in EntityTables => c \in EntityColumns} IN
  [S EXCEPT !.tables = @ \cup EntityTables,
            !.cols = kept \cup EntityColumns,
            !.rows = @ \cap kept,
            !.idx = {},
            !.astray = {},
            !.refs = {r \in @ : r.table \notin EntityTables}
                       \cup UNION {{Ref(e.table, Generated, u) : u \in e.to} : e \in Entities}]

------------------------------------------------------------------------------
(***************************************************************************)
(* Starts and reverts.                                                     *)
(***************************************************************************)

VARIABLES
  schema,     \* what the database holds
  origin,     \* what it held before the first migration
  executed,   \* migrations recorded as executed
  release,    \* migrations the deployed release has
  stage,      \* of the process: stopped, migrated, serving, or exited with an error
  reverts     \* reverts so far

schemaVars == <<schema, origin, executed, release, stage, reverts>>

\* Before the first migration an earlier release synchronised its entities, which had
\* the columns of today's or only those no migration adds.
InheritedFrom(L, current, uuid, used) ==
  LET cols(e) == IF current THEN e.cols ELSE IF e = Faq THEN {Rest, AsText} ELSE {Rest}
      old == {e \in Entities : e.table \in L}
      all == UNION {{e.table} \X cols(e) : e \in old} IN
  [Empty EXCEPT !.tables = L, !.cols = all, !.rows = IF used THEN all ELSE {}, !.uuid = uuid,
                !.refs = UNION {{Ref(e.table, Generated, u) : u \in e.to \cap L} : e \in old}]

Inheriting(L, current, uuid, used) ==
  /\ schema = InheritedFrom(L, current, uuid, used)
  /\ origin = schema
  /\ executed = 0 /\ release = 0
  /\ stage = "stopped"
  /\ reverts = 0

SchemaInit ==
  \E L \in Inherited, current, uuid, used \in BOOLEAN :
    /\ (current => uuid) /\ (uuid => "users" \in L)
    /\ Inheriting(L, current, uuid, used)

Ups(from, to) == FlattenSeq([i \in 1..(to - from) |-> Release[from + i].up])

\* A later release, with more migrations.
Deploy ==
  /\ stage = "stopped"
  /\ \E r \in Releases \cup {Len(Release)} : r > release /\ release' = r
  /\ UNCHANGED <<schema, origin, executed, stage, reverts>>

\* All pending migrations run in one transaction.
RunMigrations ==
  /\ stage = "stopped" /\ release > 0
  /\ LET S == Execute(schema, Ups(executed, release)) IN
     IF S.ok THEN schema' = S /\ executed' = release /\ stage' = "migrated"
     ELSE stage' = "exited" /\ UNCHANGED <<schema, executed>>
  /\ UNCHANGED <<origin, release, reverts>>

\* The entities are those of the last release.  A required column that was added to a
\* table with rows and has no value in them makes the synchronisation fail, and so do
\* ids of users no user has.
Unfilled(S) == <<"payment", Rest>> \in S.rows /\ <<"payment", "paymentType">> \notin S.rows
Dangling(S) == \E t \in S.astray : <<t, Rest>> \in S.rows

Synchronize ==
  /\ stage = "migrated" /\ release = Len(Release)
  /\ IF Unfilled(schema) \/ Dangling(schema) THEN stage' = "exited" /\ UNCHANGED schema
     ELSE stage' = "serving" /\ schema' = Synchronised(schema)
  /\ UNCHANGED <<origin, executed, release, reverts>>

\* Requests write every column of the entities.
Operate ==
  /\ stage = "serving"
  /\ schema' = [schema EXCEPT !.rows = @ \cup EntityColumns]
  /\ UNCHANGED <<origin, executed, release, stage, reverts>>

Stop ==
  /\ stage # "stopped"
  /\ stage' = "stopped"
  /\ UNCHANGED <<schema, origin, executed, release, reverts>>

\* The command neither migrates nor synchronises first.
Revert ==
  /\ stage = "stopped" /\ executed > 0 /\ reverts < MaxReverts
  /\ reverts' = reverts + 1
  /\ LET S == Execute(schema, Release[executed].down) IN
     IF S.ok THEN schema' = S /\ executed' = executed - 1 ELSE UNCHANGED <<schema, executed>>
  /\ UNCHANGED <<origin, release, stage>>

SchemaNext == Deploy \/ RunMigrations \/ Synchronize \/ Operate \/ Stop \/ Revert

SchemaSpec == SchemaInit /\ [][SchemaNext]_schemaVars

------------------------------------------------------------------------------
(***************************************************************************)
(* Properties.                                                             *)
(***************************************************************************)

\* What the migrations were not written for: a table that 17 and 19 reference or index
\* again, questions of today's type, payments from before payments had a type or whose
\* types a revert dropped, users that had UUIDs already with rows that refer to them, and
\* rows of the tables left out when users are given new ids.
Unsuitable ==
  \/ origin.tables \cap ({TokyoTables[i] : i \in 1..5} \cup {SettingsTables[i] : i \in 1..3}) # {}
  \/ /\ "metatrader_accounts" \in origin.tables
     /\ <<"metatrader_accounts", LinkColumn>> \in origin.cols => reverts > 0
  \/ <<"faqs", AsJson>> \in origin.cols
  \/ Unfilled(origin) \/ (reverts > 0 /\ Unfilled(schema))
  \/ origin.uuid /\ \E c \in origin.rows : c[1] \in Related
  \/ \E t \in Stranded(origin) : <<t, Rest>> \in origin.rows

\* A start of the last release arrives at what a straight upgrade makes, whatever was
\* reverted before; it exits with an error only on a database that was unsuitable from the
\* start or that the reverts have made so.
StartsArrive ==
  /\ stage = "exited" => Unsuitable
  /\ stage \in {"migrated", "serving"} /\ release = Len(Release) =>
       Execute(origin, Ups(0, release)).cols \cap EntityColumns \subseteq schema.cols

\* A start drops no data of a column the entities have.  (Who wrote tickets and messages
\* while users had integer keys is part of their column Rest and not looked at: these ids
\* no user has any more, and the synchronisation drops them.)
StartsKeepData ==
  [][RunMigrations \/ Synchronize => schema.rows \cap EntityColumns \subseteq schema'.rows]_schemaVars

\* The migration's comment: existing data is migrated to the new structure.
\* It is, and the synchronisation that follows drops it.
Translations(S) == S.rows \cap ({"faqs"} \X {AsText, AsBinaryJson, AsJson})

QuestionsSurvive ==
  [][RunMigrations \/ Synchronize => (Translations(schema) # {} => Translations(schema') # {})]_schemaVars

=============================================================================
