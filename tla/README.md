# A verification project for the marathon API

The repository is the NestJS backend of a trading-competition platform. Users pay to
enter a *marathon* (a competition between MetaTrader accounts), get an account
assigned, trade under rules that may disqualify them, watch live data of the accounts,
may cancel before the start for a partial refund into a *virtual wallet*, and withdraw
from that wallet to a crypto wallet. The code stores its state in PostgreSQL through
TypeORM, receives webhooks of the payment provider NowPayments, consumes account data
from RabbitMQ and pushes it to browsers over socket.io, and runs cron jobs.

The modules here model what keeps state: money, places and accounts under concurrent
calls, webhooks and jobs; live data from the queue to the browsers; users and sessions;
imported account data and what is computed from it; and the schema of the database
itself. Paths below are relative to the repository.

- [The system](#the-system): inventory of components, state and hard behaviours
- [Modules](#modules): what each models and how it corresponds to the code
- [Runs](#runs): what TLC checks, the bounds and why they are enough
- [Fairness](#fairness), [Proofs](#proofs), [Findings](#findings)
- [Assumptions about libraries](#assumptions-about-libraries)
- [Not modelled](#not-modelled)

## The system

Every component runs in one Node.js process (several may be deployed), so calls
interleave at every `await`; all shared state is in PostgreSQL (READ COMMITTED, a pool
of 10 connections), except the maps of the gateway, of the RabbitMQ services, of
`LiveAccountDataService` and of the cron monitoring.

| Component (under `src/src`) | State | Operations | Talks to | Hard behaviour |
| --- | --- | --- | --- | --- |
| `virtual-wallet` | one row per user (balance, freeze flag), transactions | `credit`, `debit`, `getOrCreateWallet`, `freezeWallet`, `unfreezeWallet`, `assertSufficientBalance` | called by withdrawals and by cancellation with *their* transaction | locked adjustments beside unlocked `save()`s, repeated references |
| `withdrawals` | withdrawals with a unique number | `create`, listings | virtual wallet, crypto wallets | one transaction over both services, number from a count, second connection inside a transaction |
| `payment` | payments | `createWalletChargePayment`, `createMarathonPayment`, `handleWebhook`, `processWalletCharge`, `processMarathonJoin` | NowPayments, profile, marathon, MetaTrader accounts | repeated, late and overlapping webhooks, crash between status and processing |
| `profile` | `profile.balance` (another balance than the virtual wallet) | `addBalance`, `subtractBalance`, profile edits | payment | unlocked read-modify-write, string arithmetic |
| `marathon` (service) | marathons with `currentPlayers`, participants | `create`, `update`, `remove`, `joinMarathon`, `cancelParticipation`, `deployParticipantAccounts`, leaderboards and analyses | virtual wallet, accounts, Tokyo | capacity, refunds, cancel racing join, whole entities saved after awaits, the same trades counted in five places |
| `metatrader-accounts` | account rows, linked both ways with participants | `findAvailable`, `assignToParticipant`, `unassignFromParticipant`, CRUD | payment, marathon, jobs | the two sides of a link, taken accounts |
| `marathon/marathon-rules` | rule counters, disqualification on participants | `checkRules`, `disqualifyParticipant` (every 5 min and for live messages) | Tokyo data, notifications | history that is late, queries that fail, entity saved after several awaits |
| `cron-jobs` | marathon status, assigned accounts, metrics of the jobs | status synchronisation, provisioning, monitoring | accounts, Tokyo, marathon | saves marathons read earlier, overlapping runs |
| `marathon-live-data.gateway`, `live-account-data` | subscriptions of each socket, reference counts, snapshots, batches, caches | subscribe and unsubscribe to marathon, participant, my-live; disconnect; pushes | RabbitMQ consumer | counters changed across awaits, differences sent in batches |
| `rabbitmq` | connection, channel, consumers | connect, reconnect, `subscribeToMarathon`, `unsubscribe`, handle and retry messages | gateway | reconnection, double consumers, redelivery, lost dead letters |
| `auth`, `settings/session`, `users` | users, codes, reset tokens, sessions | register, login, refresh, logout, reset, ban, revoke, clean-up | e-mail | refresh racing revoke, secrets used twice, saves of whole users |
| `tokyo-data`, `tokyo` | snapshots, performance, histories of accounts | periodic and live update, deploy | external service | overlapping and late imports, partial failure |
| `migrations`, `config/data-source`, `main` | the schema | migrate and synchronise at every start, revert | - | reverts half way, databases of older releases |
| `tickets`, `notifications`, `faq`, `wallet` (crypto), `settings`, `stats`, `storage`, `email`, `i18n` | single rows | CRUD, I/O | - | little |

What makes each correct:

- *virtual wallet*: the transactions explain the balance, nothing is booked twice under
  one reference, nothing moves while frozen, no request is left waiting;
- *withdrawals*: a withdrawal exists exactly if its debit does; the numbers of a day are
  unique and, but for midnight, dense; requests end;
- *payments*: a paid charge reaches the profile once, a paid join once, whatever the
  provider repeats;
- *membership*: `currentPlayers` counts the active participants and stays within
  `maxPlayers`, every join is active or refunded, a user has one participant, account
  and participant name each other;
- *rules and jobs*: a participant is disqualified for what happened and for nothing
  else; marathons are closed and players provided with accounts in the end; no job
  undoes what another has written;
- *live data and messaging*: there is a RabbitMQ subscription exactly while somebody
  needs it, each message is settled, viewers end up seeing what was handled;
- *users and sessions*: what has been closed, banned or removed stays so, a secret works
  once, the newest token admits;
- *account data and analyses*: what is imported is stored once and not replaced by
  something older; what is shown is what was stored; prizes follow from how the award is
  split;
- *schema*: every start arrives at today's tables without losing data.

The list of places where these can go wrong, each with the properties that watch it,
is in `PROJECT.json` under `hazards`.

## Modules

```
Accounts            what a virtual wallet promises: accounts with atomic postings
   ^ implemented by
VirtualWallet       rows, row locks, save(): credit, debit, create, freeze, unfreeze
   ^ extended by                              proved in WithdrawalsProofs
Withdrawals         create: debit + withdrawal + number in one transaction, the pool
                                              proved in WithdrawalsProofs

Membership          join, account assignment, cancellation of one marathon
   ^ extended by
Payments            payments, provider, webhooks, charge of the profile
                                              both proved in PaymentsProofs

Lifecycle           one marathon from creation to end: edits, accounts, jobs
Rules               the rule checks of one participant
                                              both proved in MarathonsProofs

LiveData            subscriptions, reference counts, consumers, the AMQP connection
                                              proved in LiveDataProofs
Feed                messages from the queue to the browsers
                                              proved in MarathonsProofs

Registry            what sessions promise: closed for ever, one credential each
   ^ implemented by
Sessions            sign-in, refresh, validation, revocation, clean-up
Registration        codes, users, bans, reset tokens
                                              both proved in AccessProofs

Schema              migrations, synchronisation, reverts
                                              proved in SchemaProofs
AccountData         imports of one trading account
Monitoring          metrics of a job
                                              both proved in RecordsProofs
Analytics           leaderboards, prizes, analyses, dashboards
                                              proved in AnalyticsProofs
```

An `MC...` module gives each its bounds for TLC. `MCMarathons` (Lifecycle, Rules) and
`MCRecords` (Registration, Sessions, Schema, AccountData, Analytics, Monitoring) put
components that share no variable into one instance: the variable `subject` says which
of them a behaviour runs, and the others stay as they were. Each property is about one
component and is checked on all behaviours of it.

### Money and places

**VirtualWallet** (`virtual-wallet.service.ts`). `wallets`, `ledger` are the committed
rows of the two tables; `rowLock` is the `FOR UPDATE` lock of a row or the unique key
of a row being inserted; `pc`, `call`, `mem`, `dirty` are a request's place in the code,
its arguments, the entity it holds and the columns `save()` is about to write.
`BeginAdjust` and `FindForUpdate` are the locking read, `InsertOnAdjust` the insert of a
missing row, `AdjustBalance` the checks, the two saves and the commit: with the row
locked nobody sees the steps between them. A debit or credit that joins a caller's
transaction commits when the caller does: `Withdrawals` models that case.
`ReadWallet`, `CreateWallet` are `getOrCreateWallet`; `ReloadForSave` and
`UpdateColumns` the two halves of the `save()` of `freezeWallet` and `unfreezeWallet`,
which takes no lock and writes every column that differs, `balance` included.
`overwritten` (history) holds the users whose balance such a save has replaced.
Amounts come in tenths of a cent so that `Normalize` rounds; wallets hold cents.

**Accounts** is the abstract specification: `Post` and `Restore`. `Restore` is the
exception `freezeWallet` really makes: the administrator's switch may put back a
balance the account had before. The mapping is `Account` in `VirtualWallet`.

**Withdrawals** (`withdrawals.service.ts`, `create`). One action per statement of the
transaction. `Connected` is the set of requests that hold a connection of the pool
between two steps, and `ConnectionFree` guards every query that runs on a second
connection while the transaction is open (the crypto wallet, `assertSufficientBalance`,
the count, loading the result). `started` is the day the transaction began, which is
what PostgreSQL's `now()` default of `created_at` stores; `ReadDay` reads the clock the
number is made from, which `Midnight` moves, and `GenerateTransactionNumber` then waits for
a connection and the count. `InsertWithdrawal` waits for an open transaction with the same
number and fails when that one has committed. Freezes run beside it.

**Membership** (`processMarathonJoin`, `cancelParticipation`, `assignToParticipant`).
`ReadMarathon` reads without a lock into `seen`, `FindParticipant` locks the row or
finds none, `CommitJoin` writes `seen + 1`; `FindAvailable` and `AssignAccount` follow
the commit. `CancelParticipation` locks participant and marathon in one query,
`CommitCancel` writes account, participant, marathon and refund in one commit.
`AdminAssign` is the administrator's call. `joins`, `lost`, `doubled` are history.

**Payments** (`payment.service.ts`, `addBalance`). `CreatePayment`, `CancelExpired`,
`SavePayment` are the two create calls; consecutive reads of `createMarathonPayment`
are one step. `ProviderSends` is the provider's side, `ReceiveWebhook` to
`RejectPayment` is `handleWebhook` with every `await` a step, `ProcessJoin` lets the
join of Membership run for the payment, `Crash` ends a worker anywhere and keeps what
is committed. `Appended` and `Chargeable` are what `Number(profile.balance) + amount`
computes when `amount` is the string a decimal column is read as. `credited` (history)
counts what a payment bought, `upset` (history) are the payments whose webhooks
overlapped, came late or were interrupted.

### Marathons

**Lifecycle** (`marathon.service.ts`, `marathon-provisioning.service.ts`,
`metatrader-account.service.ts`, `disqualifyParticipant`). One marathon with its
participants and the accounts they trade with, from `create` to the end. What matters is
what each call read before it waits: `SaveMarathon` and `SaveAccount` write back the
whole entity, and insert it again if it is gone. Requests come in pairs of actions where
the code awaits in between: `UpdateRead`/`UpdateSave`, `JoinRead`/`JoinCommit` (then
`AutoAssign`), `UnassignRead`/`UnassignSave`, `RemoveRead`/`RemoveAccount`,
`ListParticipants`/`DeployListed`; `Cancel`, `RemoveMarathon`, `CreateAccount` and
`Assign` are one commit each. The jobs are `SyncRead`/`SyncSave`, `ProvisionRead`,
`ProvisionNext`, `ProvisionDeploy`, `Redeploy` with `ProvisionFails` anywhere, and
`RulesRead`/`SaveDisqualified`. A call waits between its steps, and any number of
others run meanwhile; jobs may overlap with themselves. History: `joined` (joins less
cancellations), `lost` (a save of the marathon overwrote another commit) and `torn`
(accounts whose link was written on one side only, over another one, or beside that of
another account of the participant). `Released` frees one account that names the
participant, as the `findOne` of the cancellation does, whichever the database returns.
The cancellation's locks and refund are in Membership; here it is its commit.

**Rules** (`marathon-rules.service.ts`). One participant, whose account's equity and
floating profit move with the clock, and whose trades are kept with the moment they were
closed at. `ImportHistory` and `ImportReport` make what has happened visible to the
job, `PushProfit` is a live message with a snapshot. A check is `BeginCheck`,
`ReadParticipant`, `ReadReport`, `MeasureTotal`, `MeasureDaily`, `Disqualify`: one action
per `await`, and each measure may fail and then counts as 0. `TotalDrawdown`,
`DailyDrawdown`, `FloatingRisk` and `Breaks` are the formulas (the floating risk is that of
a loss or of a gain, as in the code), `TooFewTrades` counts the report that is imported.
`SyncStatus` is the status job seen from here. History: `outdated` (a snapshot was measured
by a history that went on after it), `behind` (trades were counted by a report that missed
some).

### Live data

**LiveData** (`marathon-live-data.gateway.ts`, `live-account-data.service.ts`,
`rabbitmq-consumer.service.ts`). A *topic* is what a client subscribes to: a marathon, a
participant, or its own account in a marathon (my-live). `watch` is
`clientSubscriptions`, `count` the three maps of reference counts, `listening` is
`isListeningToUpdates`. The process is single-threaded, so an action is what runs
between two awaits: `Subscribe` or `FoundMember` (after the await of `subscribe_my_live`)
with `Increment`, `FoundHome`, then `RequestConsume`; and `Unsubscribe` or `Release`
(one turn of the loops of `handleDisconnect`) with `CountDown`, `Which`, `Decide`, then
`RequestCancel`, and `Finish` at the end of all of them. `consumer` is the `consumers`
map, with `subscribedMarathons`, which changes with it; `broker` is what RabbitMQ really
delivers to. Requests on the AMQP channel are answered in the order they were sent
(`channel`); `assertQueue`, `bindQueue` and `prefetch` are one request here. `LinkFails`
loses the connection or only the channel, and leaves `consumers` as it is.
`mishap` (history) records, per marathon, the causes by which consumer and counts are
known to part: `link` (connection lost), `lookup` (a query failed), `raced` (somebody
subscribed while the consumer was being given up), `evicted` (the marathon's own last
subscriber left, which cancels for all the others), `early` (given up while a subscription
was under way) and `overlap` (two subscriptions under way).

**Feed** (`handleMessage`, `LiveAccountDataService`, the pushes of the gateway). A
message is a batch of segments, and its number stands for the values it brings.
`Publish`, `Expire`, `Redeliver`, `Deliver`, `Requeued` are the marathon's queue with its
retry queue, dead letters, time-to-live and length; `Hear`, `Save`, `Settle`, `Fail`,
`Retry` are the handler with its segments; `Mark`, `Fetch`, `Show` push my-live to the
owner; `Flush` and `Compare` send the viewers what differs from `previousSnapshots`.
`LinkFails`, `Crash` and `Boot` lose a connection or the process anywhere:
`Acknowledge` on a closed channel throws, nobody catches it, and the process ends.

### Users, sessions and records

**Sessions** (`auth.service.ts`, `session.service.ts`, `jwt.strategy.ts`). An access
token is signed from the user and the second of its issue and has no other identity, so a
token here is that pair. `SignIn`, `CreateSession` are what every sign-in ends with;
`RefreshToken`, `OtherRefreshes`, `UpdateSessionToken` the refresh; `Present`, `Validate`,
`MarkExpired` the check of a request; `ReadToRevoke`, `RevokeSession`, `RevokeAllOthers`
and `CleanUp` what ends sessions. **Registry** is what they promise: one credential
admits to one open session, and what was closed never opens again.

**Registration** (`auth.service.ts`, `users.service.ts`). Verification codes, users,
profiles and reset tokens: `Initiate`/`InsertCode`, `VerifyEmail`,
`Complete`/`InsertUser`/`InsertProfile`, `Forgot`/`InsertReset`,
`Reset`/`SavePassword`/`MarkUsed`, and `ReadUser` with `SaveBan`, `SaveUpdate` or
`SoftDelete`. `SaveUser` writes every column it read but the password.

**Schema** (`migrations`, `data-source.ts`, `main.ts`). A table is the set of those of
its columns that some migration adds or drops apart from the table, and `rest`. Each
migration is its list of guarded and unguarded statements, up and down; `Fails` and
`Effect` say when a statement fails and what it does; `Execute` runs a list in one
transaction. `Rekey` gives users UUIDs: it drops every foreign key to them and carries five
tables over (`Related`); the others that refer to users (`LeftOut`) keep ids no user has,
and are `astray` until a synchronisation succeeds: a foreign key to users that is made for
one of them fails if it has rows. (Tickets and messages have an integer author while users
have integer keys, which the synchronisation makes anew and thereby forgets; that is part
of their column `rest` and not looked at by `StartsKeepData`.) `Deploy`, `RunMigrations`, `Synchronize`, `Operate`, `Stop` and `Revert` are
what happens to a database, which begins with tables of an older release or none.

**AccountData** (`tokyo-data.service.ts`). Upstream changes by trades that close; what an
import was handed is known by the number of trades closed by then. An import runs its
parts one after the other, each in a transaction of its own (`ReadSnapshot`/
`SaveSnapshot`, `ReadPerformance`/`SavePerformance`, `CheckItem` and `CommitItems` for
each history), and `BreakOff` is an error in one of them.

**Analytics** (`marathon.service.ts`, `marathon-leaderboard.service.ts`). Data arrives in
any order (`StoreTrade`, `StoreBalance`, `StoreEquity`, `StoreReport`, `Show`), an
administrator splits the award anew (`SplitBy`) and a restart forgets the live snapshots
(`Forget`). How an award is split is any list of placements that `PrizePlacementDto` lets
through, with shares in hundredths of a percent: the validator that wants them to add up to
100 % is attached to no field of a marathon. The type of a trade is stored as it comes, and
the dashboard and the live analysis read its side differently (`SidesOfAll`, `Sides`). The
answers are operators on what there
is: `LiveRanks`, `ReportRanks`, `Prize`, `MarathonTrades`, `ProfitAndLoss`, `Analysis` of
a participant, `AllAnalysis` of a user, `Dashboard`, `LiveAnalysis`. Equity of a snapshot
is positive, and an account has one balance point at a time.

**Monitoring** (`cron-monitoring.service.ts`). Records are objects that runs keep
references to: `BeginRun` takes the one in the map, `EndRun` changes it and puts a copy
of it there, `Ask` replaces it by a copy too.

`PROJECT.json` maps every definition to its lines. Definitions called "Faulty variant"
are plausible bugs: each property is known to fail when one of them replaces the
definition that follows it.

## Runs

| Run | Instance | Shows |
| --- | --- | --- |
| `wallet` | 1 user, 3 requests, amounts that are refused, round to 0 and to 2 cents, limit 3 cents, 1 reference | `TypeOK`, `LedgerExplainsBalance`, `OneEntryPerReference`, `NoPostingWhileFrozen`, `ImplementsAccounts`, `RequestsEnd` |
| `withdrawals` | 2 users, 3 requests, 3 connections, 2 days, freezes | `WithdrawalsTypeOK`, `EveryDebitIsOneWithdrawal`, `NumbersCountTheDay`, `OnlyPoolExhaustionHangs` |
| `membership` | 2 users, 3 calls, 2 places, 1 account | `MembershipTypeOK`, `LinksAreMutual`, `EachJoinIsActiveOrRefunded`, `PlayersCountsTheActive`, `OneRowPerUser`, `CallsEnd` |
| `capacity` | 1 place | violation of `CapacityIsRespected` |
| `payments` | 1 user, 4 calls, 2 payments, 1 place, charges of $1, limit $20, no accounts | `ChargesAreProcessedOnce`, `RejoinOnlyAfterRefund` |
| `duplicates`, `balance` | the same | violations of `ProcessedOnce`, `BalanceIsWhatWasCharged` |
| `live` | 2 clients, 4 calls, 1 marathon with 1 participant (3 topics) | `CountsMatchHolders`, `NoOrphanConsumer`, `FedIsFollowed` |
| `unfed` | the same | violation of `CountedIsFed` |
| `feed` | 2 messages of 2 segments (full, partial, skipped, broken), 1 account with 2 fields, 1 handler, 1 retry, queue length 1, 1 fault | `MyLiveCatchesUp`, `EveryMessageIsSettled` |
| `marathons` | Lifecycle: 2 users, 2 places, 2 accounts of which 1 from the start, a marathon of one day, 2 calls at a time, 2 requests, clock 0..2; and beside these, with both accounts from the start, a join, a postponement and a cancellation; Rules: 3 equities of which the account opens with the highest and one has a floating gain or loss, all four limits, days of 2 points, 3 points, 1 trade right before the end or at it, 1 failing query | `OnlyLostWritesMiscount`, `OnlyTornLinksDiffer`, `OnlyAnEditRevives`, `TheJobsCatchUp`; `ReasonsAreFacts`, `FallsAreJudged` |
| `records` | Registration: 2 e-mails, 2 calls at a time, 6 requests; Sessions: 1 user, 2 sessions, 2 calls at a time, clock 0..3; Schema: 9 old databases, releases 8, 13, 17 and 27, 5 reverts; AccountData: 2 importers, 3 imports, 3 trades; Analytics: 3 participants of 2 users in 2 marathons, 3 ways to split the award (one of them of more than it), 3 records; Monitoring: 2 overlapping runs, 3 in all, 5 records | `OnlyOverwritingSavesUndo`, `SecretsWorkOnce`; `NewestTokenAdmits`, `ImplementsRegistry`; `StartsArrive`, `StartsKeepData`; `ItemsAreStoredOnce`, `SnapshotGoesForward`; `AnswersShowTheRecords`, `PrizesFollowTheSplit`; `MetricsTellTheRuns` |

Why the bounds are enough.

- Rows, wallets and marathons do not interact with each other, so one of each shows the
  races; a second user is there where users share something (places, numbers,
  connections, accounts, addresses). A race needs two calls, and a third call sees what
  they left; in `payments` the first call creates the payment, two deliveries of its
  webhook overlap and the fourth repeats it or cancels.
- From `wallet` to `unfed` every request, worker or call is served once, which bounds all
  counters without a guard. Three connections let two creates overlap to their ends and
  three exhaust the pool, as ten do with the pool of 10. `MaxBalance` and `MaxProfile`
  stand for the widths of `decimal(12, 2)` and `decimal(10, 2)`, small enough to be
  reached.
- The four calls of `live` let two topics of one marathon be subscribed and given up
  again in any overlap, which is what an early cancellation needs; a second marathon
  would share nothing with the first but the connection and `listening`.
- In `feed` a message in the queue, one in the retry queue and a fault at any place are
  enough for redelivery, expiry, overflow and an acknowledgement on a closed channel.
- In `marathons` jobs repeat without bound, only requests are counted: two of them and
  any number of job steps overlap. The clock passes before, within and after the dates
  (1, 1), (1, 3) is an end that has not come and (2, 3) a marathon postponed. An account
  a cancellation leaves behind takes three requests and two accounts: a join, overlapping
  runs of provisioning that both give the participant one, and a postponement that makes
  the cancellation possible again; the instance has exactly these requests apart from the
  others (`OfPostponed`). Two points a day and three in all have
  a fall within a day, one over midnight and one after the end; equities 0, 4 and 9 have a
  ruin, a fall above every limit and a rise. A trade counts for `MIN_TRADES` if it is closed
  before the end, so the instance closes its trade in the last moment before it or right at
  it, which is where a report may miss it.
- In `records` secrets and tokens live for one tick (a refresh token for two), so that
  all of them expire within the clock; the releases are those before and after the
  migrations that a later one undoes or repeats; the three trades have only a
  ticket, that number as position, and no number; three records are what a sum, a rank with ties and a sampled
  series need.

Deadlock checking is off in all runs because they end: when all calls are served nothing
is left to do. What must not hang is stated as liveness instead. A request of `wallet` that
still waits for the row counts as not begun: `RequestsEnd` is about requests that hold a
row or have read one they will save. `payments` and `records`
use symmetry over sets of equal values (workers, importers, e-mails, numbers of
sessions); they check no liveness.
`live` uses symmetry over clients and workers, and a view without the local variables of
calls that have ended, which nothing reads.

Bounds in guards: `MaxPayments` (`SavePayment`), `LastDay` (`Midnight`), `Rows`
(`FindParticipant`), `MaxTime` and `MaxRequests` (Lifecycle), `Horizon`, `MaxTrades` and
`MaxFailures` (Rules), `MaxFaults` (Feed), `Ids` and `MaxTime` (Sessions), `LastMoment`
and `MaxRequests` (Registration), `MaxReverts` (Schema), `MaxImports` (AccountData),
`MaxRecords` (Analytics), `MaxRuns` and `MaxCopies` (Monitoring).

## Fairness

`FairWalletSpec`, `FairWithdrawalsSpec` and `FairMembershipSpec` assume strong fairness
of the steps of each request that has arrived, taken together. It is what the runtime
and the database give: Node.js resumes an awaiting call when its result is there,
PostgreSQL grants a lock to its waiters in the order they came, and the pool hands out
connections in that order. Weak fairness would not do, because a lock is taken and
given back again and again while a request waits. Arrivals, aborts, midnight, the
administrator and the start date are not fair: they may never happen. The provider is
never assumed to repeat anything.

`LifecycleFairness`: what a call has begun is carried out (weak), and the jobs come round
again and again, because the scheduler starts them every few minutes whatever else runs
(strong, since a job can start only while a worker is idle, which comes and goes). Strong
fairness of `ProvisionNext` says that Tokyo answers in the end. Requests are not fair.
`RulesFairness`: every check ends and the job comes round; that queries do not fail for
ever is the bound `MaxFailures`. `MarathonsFairness` is both, for the subject that moves.

`FeedFairness`: the handler's queries are answered or fail, delays and the time-to-live
pass, and the process is started again after it has ended. Deliveries, flushes and pushes
are not assumed: that messages are settled does not rest on them, because what nobody
takes expires into the dead letters.

## Proofs

TLAPS checks 40 theorems for every value of the constants that satisfies the modules'
assumptions. Each follows the same line: an inductive invariant that adds to the property
what calls hold between two steps, a lemma per action, one lemma that puts them together.
The invariants were checked by TLC on the instances of the runs before they were proved.

- **WithdrawalsProofs**, of VirtualWallet: `WalletTypeOK`, `WalletLedgerExplainsBalance`,
  `WalletOneEntryPerReference`, `WalletNoPostingWhileFrozen` and the refinement
  `WalletImplementsAccounts`. `WalletInv` adds that a request between its locking read and
  its commit owns the row and has its current content in memory (`AdjustersOwnTheRow`:
  this is what the lock is for), that its arguments fit its place in the code
  (`CallsFit`), and that any balance held by an unlocked `freezeWallet` is one the wallet
  had before (`BalancesAreKnown`: needed for `Restore`, since the save may bring it back).
- **WithdrawalsProofs**, of Withdrawals: `WithdrawalsAreTyped`, `WithdrawalsMatchDebits`,
  `WithdrawalsNumbersCountTheDay`. The invariant is about single requests: between the
  debit and the commit one holds a row that pays for it (`AskedFits`), and a number of a
  day since it began, at most one more than the withdrawals created on that day, free once
  it is to be committed (`NumberFits`). `Days` says that nothing is numbered before the day
  it was begun on, nor beyond the withdrawals of that day. That a day whose withdrawals all
  have its own numbers has no gap (`OnlyMidnightLeavesGaps`) then follows from the
  library's theorems about cardinality.
- **PaymentsProofs**, of Membership: every invariant of the `membership` run. `MembershipInv` adds what
  the transactions hold: a join that found a participant owns its row, an inactive one of
  its caller, until it commits; a cancellation owns an active row and the marathon and
  knows `currentPlayers` (`HoldersOwnTheirRows`); nobody has a row in mind that another
  one inserts (`NewRowsAreDistinct`); and of a user outside `doubled` there is one open
  insert and no row beside it (`InsertsAreAlone`). The sums of joins and players rest on
  the library's theorems about cardinality.
- **PaymentsProofs**, of Payments: `PaymentsAreTyped`, `PaymentsChargesAreProcessedOnce`,
  `PaymentsRejoinOnlyAfterRefund`, and `PaymentsKeepMembership`, that joins are still
  active or refunded and links mutual when webhooks with crashes take the place of direct
  calls. The heart is that an undisturbed payment has one handler (`OneHandler`), and that
  its place in the code says what was credited (`ChargeUnderWay`, `JoinUnderWay`); whoever
  else touches the payment has by that made it `upset`. The invariant of Membership is
  reused: a crash of a call keeps it, because what a crashed call held it gives back.
- **LiveDataProofs**: `LiveCountsMatchHolders`, `NoConsumerIsOrphaned`, `FollowedAreFed`.
  `LiveInv` says what each place of a call has counted already and not yet added to
  `watch`; and that while the gateway listens and nobody is counted, some call is on its
  way to `Finish`. `OrderInv` is about the AMQP channel, for any number of requests on it
  in any order: exactly the waiting calls have a request there, and one each
  (`ChannelFits`); and unless two subscriptions overlapped, one consumption of a marathon
  at most is on its way, only while it has no consumer, and never ahead of a cancellation
  (`InOrder`). `FeedInv` adds what a call that gives a marathon up can still overlook
  (`Fed`), and which call will yet cancel the consumer of a marathon nobody follows
  (`Unfed`).
- **AccessProofs**, of Sessions: `SessionsAreTyped`, `SessionsNewestTokenAdmits` and the refinement
  `SessionsImplementRegistry`. `CallsFit` says that what a request has read before it
  waits is of a session that exists, and `RefreshesAreNewer` that a refresh under way
  brings a token newer than any answered, unless another one overlapped it.
- **AccessProofs**, of Registration: `RegistrationIsTyped`, `RegistrationOnlyOverwritingSavesUndo`,
  `RegistrationSecretsWorkOnce`. E-mails of users are unique, removed ones included
  (`EmailsAreUnique`); while a request is about to insert a code or a token, none of
  its e-mail is good, unless the e-mail is in `clashed` (`CodesTakeTurns`,
  `TokensTakeTurns`); a token that has changed a password is used up
  or about to be (`TokensAreSpent`).
- **MarathonsProofs**, of Lifecycle: `LifecycleCountsItsJoins`, `LifecycleLinksAreMutual`,
  `LifecycleOnlyAnEditRevives`, and `LifecycleNeverOverbooks`, which is stated only there:
  without lost writes no more participants play than there are places, because a call
  about to join has read a marathon with a free one. `LifecycleInv` adds what each call has read and will
  write back (`CallFits`): rows of the marathon that was there, participants that are never
  removed, accounts that had been created; that the account a participant names exists
  (`NamedAreThere`), which is its foreign key; and that accounts with the same participant
  are all `torn` (`SharersAreTorn`), so that a cancellation, which frees one account only,
  leaves no other that would have to be mutual.
- **MarathonsProofs**, of Rules: `RulesReasonsAreFacts`. `RulesInv` says of what a check has
  found so far what the property says of the reasons stored. A fact of the course of the
  account stays one, since the course is only continued (`Grows`); for the highest and
  lowest of a day the rows that have them are picked (`ExtremesExist`). A snapshot a check has read is that
  of some moment, whose floating profit it measures. What a report says of the trades is
  at most what has been closed, and when it has said too little, it was too few or `behind`.
- **MarathonsProofs**, of Feed: `FeedMyLiveCatchesUp`. `FeedInv` says of an undisturbed
  account that one thing is under way: a handler holding its row, which will
  then be the newest values heard of, or an update of my-live, which will show the row
  (`Agrees`).
- **RecordsProofs**, of Monitoring: `MonitoringTellsTheRuns`, from `ShownIsHeld` (unless the
  record was replaced, all runs under way hold the record in the map) and
  `CountsLeaveRoom` (failures of a record and runs that still hold it are together at most
  its runs).
- **RecordsProofs**, of AccountData: `AccountStoresItemsOnce` and `AccountSnapshotGoesForward`,
  an action property. `AccountInv` says that an import has, of each item it has passed, a
  row stored, seen or taken (`ChecksHold`), and that one which is alone writes back the
  snapshot that is stored (`SaveIsCurrent`).
- **SchemaProofs**: `SchemaStartsKeepData`, an action property, for any numbers
  of migrations as earlier releases, any inherited tables and any number of reverts.
  `SchemaInv` adds that what is executed is part of the release, and that users have UUIDs
  once the third migration is executed, so that the fourth, which drops the profiles of
  users with integer keys, finds none. `GentleKeepsData` says which statements drop
  nothing of an entity's column; every `up` of the 27 has only such
  (`UpsAreInOrder`). That a list of statements keeps what each of them keeps goes along its
  steps: the library's fold has a value after each (`ExecutionsExist`, `ExecuteInSteps`).
- **SchemaProofs**: `SchemaStartsArrive`, the longest of the proofs, since it needs to
  know what each of the 27 migrations is for and what each of their `down` leaves.
  `Moves` says what a statement may change, by its kind. `TableLevel` and `ColumnLevel`
  give the migration that makes a table and a column. `ArriveInv` says that what the
  executed migrations make is there (`Built`) and, on a database the migrations were
  written for (`Fit`), that nothing of what a pending one makes unguarded is there
  before it (`Ready`). Going up migration by migration (`UpsClimb`) keeps both, and
  without a failure; a revert takes no more than its own migration is for, and leaves
  `Ready` for it to run again. Migrations 18 and 20 cannot be reverted, for the foreign
  keys they drop by name have generated names (`NoNamed`), so their transactions fail
  and change nothing. A table is `astray` from the third migration to the next
  synchronisation: on a database without rows in the tables that migration leaves out,
  nothing astray ever refuses a foreign key (`Unpointed`, `Guarded`), and on any other the
  property names it. What a straight upgrade makes, on the other side, is bounded by
  what some migration is for (`Bounded`): so the two meet.
- **AnalyticsProofs**: `AnalyticsLeaderboardsRank`,
  `AnalyticsPrizesFollowTheSplit` and `AnalyticsAnswersShowTheRecords`. Comparing
  fractions by their cross products is an order (`NotGreaterIsTransitive`). A sort gives
  each element the place after those before it; for a total order that is every place
  once (`SortsArePlacings`), so the elements by their places are all of them, once each
  (`ArrangedLists`). For prizes: each rank draws the first placement for it, no two ranks the same, and what is
  drawn from a list of amounts, each once, adds up to no more than the list does
  (`DrawnIsWithin`); read the other way round, placements for different ranks that are
  given are all drawn, so the prizes add up to no less either (`PrizesFollow`). For the answers: the statistics of the symbols share the trades out
  (`TotalsAreOfSymbols`), the pairs of a dashboard, the first ones and the others together, add up
  to them (`PairsAddUp`), and the trades of a user are those of its participants, disjoint,
  and those made elsewhere (`TradesAreShared`, from `SizesAddUp`); of a series every step
  of `Step` points keeps one (`SamplesAreSome`), of a period the last one stands
  (`CondensedStands`). `AnalyticsInv` only says what kind of data there is: the answers
  are right for every state.

The assumptions are the named `ASSUME`s of the modules, such as finite sets of clients or
handlers where something is counted, and markers such as `NoRow` that are no row. Those of
Analytics say that amounts and times are integers, that a limit or a period a query names
is at least 1, as the DTOs demand, and that null is no number. That of
Schema says that an inherited database with withdrawals has the wallets they refer to, as
every release had that made them. They say nothing about the code's behaviour; of the
trades of an import nothing is assumed.

Only model-checked:

- liveness under fairness, which is out of the prover's reach: `RequestsEnd`,
  `OnlyPoolExhaustionHangs`, `CallsEnd`, `EveryMessageIsSettled`, `TheJobsCatchUp`,
  `FallsAreJudged`.

The prover has no induction over data of its own. Where a fact about all subsets of a
finite set was needed (that sums exist, do not depend on the order, and are bounded), it
was proved by the smallest subset for which it fails (`SmallestExists`,
`SubsetInduction`, from the library's well-founded minimum).

## Findings

Each of the first four is a run that expects the violation of a property quoted from the
repository.

- `capacity`: two joins that read the last free place both commit.
- `duplicates`: two deliveries that both found the payment PENDING both charge the
  profile; so does a late status that replaces COMPLETED and is followed by a repeated
  finished webhook. `ChargesAreProcessedOnce` shows what remains true.
- `balance`: the second charge of a profile concatenates digits, or fails the paid
  payment when the balance has cents.
- `unfed`: counted subscribers are left without a consumer, because the last subscriber of
  the marathon's own topic cancels it without looking at the other two counts, or because
  they subscribed while a cancellation was under way. `FedIsFollowed` shows the causes by
  which alone a consumer goes on without anybody counted.

Six more are violations of properties the passing runs state with the exception made
explicit. Each has a configuration of its own beside the runs:

| Configuration (module) | Violated | What the code does |
| --- | --- | --- |
| `MCWithdrawalsMidnight.cfg` (`MCWithdrawals`) | `NextNumberIsFree` | `generateTransactionNumber` (`withdrawals.service.ts:154`) takes the day from the clock and the count from `created_at`, the start of the transaction: a create that is open over midnight leaves a number under the new day that its count never passes, and all further creates of that day fail. One that has read the clock before midnight (`:141`) and counts after it may instead leave a gap in the old day. |
| `MCFeedBatches.cfg` (`MCFeed`) | `ViewersSeeTheChanges` | `handleAccountUpdate` sets `previousSnapshots` to the values it puts into the batch (`marathon-live-data.gateway.ts:771`), and the batch sends what differs from them (`:936`): a change that no later message has overtaken is never sent to the viewers of the marathon. |
| `MCRulesGains.cfg` (`MCRules`) | `OnlyFallsDisqualify` | The daily drawdown is taken from highest to lowest of a day in any order (`marathon-rules.service.ts:226`): a rise disqualifies. |
| `MCSchemaQuestions.cfg` (`MCSchema`) | `QuestionsSurvive` | The FAQ migration writes `jsonb`, the entity asks for another type, and the synchronisation that follows recreates the column: the questions it has just translated are dropped. |
| `MCAccountDataTrades.cfg` (`MCAccountData`) | `EveryTradeIsStored` | A trade with neither position nor ticket, which is what the documented trade history has, is skipped. |
| `MCAnalyticsOne.cfg` (`MCAnalytics`) | `SeriesIsOfOneAccount` | "as if they were one account" (`marathon.service.ts:1100`): the balances of a user's accounts are added up where their points have the same time (`:1380`), and where only one account has a point, its balance alone is shown as the user's. |

`OnlyPoolExhaustionHangs` describes one more: as many concurrent creates as the pool has
connections wait for each other for ever, since each needs a second connection and
neither the pool nor the code has a timeout. `OnlyTornLinksDiffer`,
`OnlyLostWritesMiscount` and `OnlyOverwritingSavesUndo` name the saves of outdated
entities as the only cause of miscounts, torn links and undone bans.

`StartsArrive` names the databases a start fails on. Among them are all with rows in a table
that refers to users and that the migration to UUIDs
(`1710000000002-UpdateUserAndProfileToUUID.ts`) leaves out, such as payments or MetaTrader
accounts: the migration that makes a foreign key for them, or the synchronisation, fails on
their old ids and the process ends. Another came up in the attempt to prove the theorem and
is now among those of the run: payments without marathons. Nothing then keeps the twelfth
migration from being reverted, and the reverted tenth drops the types of the payments; the
next start adds the column again, empty, and the synchronisation, which wants it filled,
ends the process.

## Assumptions about libraries

Code that is not in the repository is modelled from how it is used, and marked external
in the map.

- PostgreSQL, READ COMMITTED: a query sees what is committed; `FOR UPDATE` and `UPDATE`
  wait for the row; a unique insert waits for the open transaction with that key;
  `now()` is the start of the transaction.
- TypeORM 0.3: `save` reloads the row without a lock, writes the columns that differ, and
  inserts the row again if it is gone; saving the one side of a relation detaches the rows
  of the other side that are not in the entity; soft-deleted rows are put back by a save
  of the entity read before; a `null` or `undefined` in `where` is left out of the query;
  decimal columns are strings.
- TypeORM's migrations run in one transaction; its synchronisation recreates a column whose
  type differs, and fails on a required column without value in a table with rows; foreign
  keys without a name get a generated one. Earlier releases are known by their migrations
  only.
- `cancelParticipation` and `processMarathonJoin` ask for a pessimistic lock in queries
  that join other tables. PostgreSQL may refuse `FOR UPDATE` on the nullable side of an
  outer join; the models take the code at its word, and let the first lock participant
  and marathon and the second the participant. A query that is refused is `QueryFails`.
- amqplib sends one request of a channel at a time and resolves them in order; a request
  on a closed channel is refused at once, and those under way when it closes fail.
  RabbitMQ confirms the cancellation of a tag it does not know.
- RabbitMQ moves a message that is too old or rejected to the dead letters, drops what
  arrives at a full queue, and delivers again what was not acknowledged when its channel
  closed. Node.js ends the process on an unhandled rejection; it is started again.
- The refund of a cancellation is one step of its commit: the wallet of the user is
  locked inside it, and nobody holds a wallet while waiting for a marathon. A refused
  credit (nothing to refund, a frozen wallet) is `QueryFails` too.

## Not modelled

Parts of modelled components:

- *marathons*: password requests; the hedging detection of the analyses and the columns
  they only copy (names, open orders, withdrawals, who may see a profile).
  `MIN_PROFIT_PERCENT` is a rule nothing checks, so there is nothing to model.
- *payments*: the HTTP retries of the provider client and the unused `createPayment`.
- *profiles*: everything but `addBalance`. *Crypto wallets*: everything but `findOne`.
- *gateway*: the leaderboard and participant pushes and the caches of analyses, which hold
  nothing others read.
- *sign-in*: Google's side of it.

Modelled as the code has it, without a property, since nothing in the repository promises
otherwise: COMPLETED is saved before the charge, so a crash in between loses it
(`payment.service.ts:305`); two requests that both find no pending payment make two orders
(`:48`); a delivery that loses a race marks a paid join FAILED whose join is that of the
other one (`:371`); two charges of a profile under way at once lose one
(`profile.service.ts:232`); the `null` filter of `findAvailable` finds any account, and
`assignToParticipant` refuses it if it is taken (`metatrader-account.service.ts:55`); an
error between commit and answer reports a withdrawal that exists as failed
(`withdrawals.service.ts:79`); registration may leave a user without profile
(`auth.service.ts:110`); the treemap of the dashboard counts "Other" besides the symbols it
stands for (`marathon.service.ts:1820`), and marathons won come from live snapshots that a
restart forgets (`:1757`).

Components left out: tickets, notifications, settings and login history, FAQ, storage,
e-mail and translations (single-row edits, logs and I/O without a protocol of their own;
two first requests for settings may both insert them, `settings.service.ts:18`);
statistics (sums over the database); the Tokyo client's HTTP, whose answers are inputs of
`AccountData` and `Lifecycle`; controllers, guards, DTOs and seeders (transport,
validation and test data: the DTOs' limits are assumptions on constants); and the mock
payment provider, whose deliveries are among those of `Payments`.

What could be taken further: the trades counted by the analyses, from the theory of sums
that the prizes rest on; `Feed` with two handlers in a run, which is beyond what an
exhaustive search of its faults finishes in minutes (without faults its invariant was
checked for two).
