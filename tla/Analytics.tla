------------------------------ MODULE Analytics ------------------------------
(***************************************************************************)
(* What MarathonService and MarathonLeaderboardService compute from the    *)
(* imported data and the live snapshots of the participants' accounts:     *)
(* leaderboards, prizes, trade statistics, series, the dashboard of a user *)
(* and the live analysis of a participant.                                 *)
(*                                                                         *)
(* Data arrives in any order and a restart forgets the snapshots; the      *)
(* answers are operators on what there is.  Money is in cents, percentages *)
(* in hundredths.  Names, and columns that are only copied, are left out.  *)
(* Bound: MaxRecords, the records of a behaviour.                          *)
(***************************************************************************)
EXTENDS Integers, Sequences, FiniteSets, FiniteSetsExt, SequencesExt

CONSTANTS
  None,          \* null
  NoSymbol,      \* the symbol of a trade without one
  Entrants,      \* active participants with an account, numbered as the database returns them
  Enrolled,      \* participant -> its user and its marathon
  Marathons,     \* marathon -> its dates and its award
  Strategies,    \* how an award may be split
  TradeKinds,    \* the trades an account may make
  BalancePoints, EquityPoints,   \* <<time, amount>>
  Reports,       \* rows of tokyo_performance
  LiveSnapshots, \* what a live message shows
  Queries,       \* query parameters of the analyses
  TopSymbols,    \* symbols shown on their own: 5 in the code
  TradeCap,      \* trades the dashboard asks for: 1000 in the code
  MaxRecords

\* All of it, in hundredths of a percent.
Whole == 10000

\* What PrizePlacementDto lets through.  ValidatePrizeStrategyConfig,
\* which wants positions to differ and shares of 100 %, is attached to no field of a marathon.
PrizePlacements == [position : Nat \ {0}, share : 0 .. Whole \cup {None}]

ASSUME AnalyticsAssumption ==
  /\ None \notin Int
  /\ Entrants \subseteq Nat /\ IsFiniteSet(Entrants)
  /\ \A p \in Entrants : Enrolled[p].marathon \in DOMAIN Marathons
  /\ \A m \in DOMAIN Marathons :
       /\ Marathons[m].start \in Nat /\ Marathons[m].end \in Nat /\ Marathons[m].award \in Nat
  /\ \A s \in Strategies :
       s.type \in {"winner_take_all", "percentage_split"} /\ s.placements \in Seq(PrizePlacements)
  /\ \A kind \in TradeKinds : "open" \in DOMAIN kind /\ kind.open \in Int
  /\ BalancePoints \subseteq Nat \X Int
  /\ \A report \in Reports : report.net \in Int /\ report.balance \in Int /\ report.profit \in Int
  /\ \A snapshot \in LiveSnapshots : snapshot.balance \in Int /\ snapshot.profit \in Int
  /\ TopSymbols \in Nat \ {0} /\ TradeCap \in Nat \ {0} /\ MaxRecords \in Nat

VARIABLES
  strategy,   \* marathons.prizeStrategyType and prizeStrategyConfig
  trades,     \* tokyo_transaction_history, in the order of its rows, each with its account
  balances,   \* tokyo_balance_history: participant -> time -> balance
  equities,   \* tokyo_equity_history: participant -> time -> equity
  reports,    \* tokyo_performance: participant -> its row or None
  live        \* LiveAccountDataService.snapshots: participant -> snapshot or None

analyticsVars == <<strategy, trades, balances, equities, reports, live>>

AnalyticsInit ==
  /\ strategy \in [DOMAIN Marathons -> Strategies]
  /\ trades = <<>>
  /\ balances = [p \in Entrants |-> <<>>] /\ equities = [p \in Entrants |-> <<>>]
  /\ reports = [p \in Entrants |-> None] /\ live = [p \in Entrants |-> None]

With(f, x, v) == [y \in DOMAIN f \cup {x} |-> IF y = x THEN v ELSE f[y]]
Recorded ==
  Len(trades) + Cardinality({p \in Entrants : reports[p] # None}) + Cardinality({p \in Entrants : live[p] # None})
  + MapThenSumSet(LAMBDA p : Cardinality(DOMAIN balances[p]) + Cardinality(DOMAIN equities[p]), Entrants)

\* MarathonService.update: nothing is validated but each placement.
SplitBy(m, split) ==
  /\ strategy' = [strategy EXCEPT ![m] = split]
  /\ UNCHANGED <<trades, balances, equities, reports, live>>

StoreTrade(p, kind) ==
  /\ trades' = Append(trades, With(kind, "of", p))
  /\ UNCHANGED <<strategy, balances, equities, reports, live>>

StoreBalance(p, point) ==
  /\ point[1] \notin DOMAIN balances[p]
  /\ balances' = [balances EXCEPT ![p] = With(@, point[1], point[2])]
  /\ UNCHANGED <<strategy, trades, equities, reports, live>>

StoreEquity(p, point) ==
  /\ point[1] \notin DOMAIN equities[p]
  /\ equities' = [equities EXCEPT ![p] = With(@, point[1], point[2])]
  /\ UNCHANGED <<strategy, trades, balances, reports, live>>

StoreReport(p, report) ==
  /\ reports' = [reports EXCEPT ![p] = report]
  /\ UNCHANGED <<strategy, trades, balances, equities, live>>

Show(p, snapshot) ==
  /\ live' = [live EXCEPT ![p] = snapshot]
  /\ UNCHANGED <<strategy, trades, balances, equities, reports>>

Forget ==
  /\ live' = [p \in Entrants |-> None]
  /\ UNCHANGED <<strategy, trades, balances, equities, reports>>

AnalyticsNext ==
  \/ /\ Recorded < MaxRecords
     /\ \E p \in Entrants :
          \/ \E kind \in TradeKinds : StoreTrade(p, kind)
          \/ \E point \in BalancePoints : StoreBalance(p, point)
          \/ \E point \in EquityPoints : StoreEquity(p, point)
          \/ \E report \in Reports : StoreReport(p, report)
          \/ \E snapshot \in LiveSnapshots : Show(p, snapshot)
  \/ \E m \in DOMAIN Marathons, split \in Strategies : SplitBy(m, split)
  \/ Forget

AnalyticsSpec == AnalyticsInit /\ [][AnalyticsNext]_analyticsVars

------------------------------------------------------------------------------
(***************************************************************************)
(* Numbers.                                                                *)
(***************************************************************************)

Or(x, default) == IF x = None THEN default ELSE x
Absolute(n) == IF n < 0 THEN -n ELSE n

\* part / whole rounded, halves away from 0; whole is positive.
Rounded(part, whole) ==
  LET size == (2 * Absolute(part) + whole) \div (2 * whole) IN IF part < 0 THEN -size ELSE size

\* toFixed(2) of a percentage, 0 of nothing.
PercentOf(part, whole) == IF whole > 0 THEN Rounded(Whole * part, whole) ELSE 0

\* Of two fractions, as pairs.
Exceeds(x, y) == x[1] * y[2] > y[1] * x[2]

\* A sort: the place of each element after those before it, and the elements by their places.
Places(I, Before(_, _)) == [i \in I |-> 1 + Cardinality({j \in I : Before(j, i)})]
Arranged(places) == Inverse(places, DOMAIN places, 1 .. Cardinality(DOMAIN places))

\* A stable sort in descending order of a fraction, and the index after it.
RankBy(P, Value(_)) ==
  Places(P, LAMBDA o, p : Exceeds(Value(o), Value(p)) \/ (~Exceeds(Value(p), Value(o)) /\ o < p))

------------------------------------------------------------------------------
(***************************************************************************)
(* Leaderboards and prizes.                                                *)
(***************************************************************************)

Of(m) == {p \in Entrants : Enrolled[p].marathon = m}
By(u) == {p \in Entrants : Enrolled[p].user = u}
Its(p) == Marathons[Enrolled[p].marathon]

\* profit / (balance - profit), when that is positive.
ProfitRate(p) ==
  LET initial == live[p].balance - live[p].profit IN
  IF initial > 0 THEN <<live[p].profit, initial>> ELSE <<0, 1>>

\* calculateLeaderboard: the participants with a snapshot.
LiveRanks(m) == RankBy({p \in Of(m) : live[p] # None}, ProfitRate)

\* getAccountLeaderboardEntry: rank and profit of an account.
AccountEntry(p) ==
  IF live[p] = None THEN None
  ELSE [rank |-> LiveRanks(Enrolled[p].marathon)[p], profit |-> ProfitRate(p)]

\* getMarathonLeaderboard: all of them, by the net profit reported.
NetProfit(p) == <<IF reports[p] = None THEN 0 ELSE reports[p].net, 1>>
ReportRanks(m) == RankBy(Of(m), NetProfit)

\* The winner takes it all, or it is split as the placements say.
Payouts(m) ==
  IF strategy[m].type = "winner_take_all" THEN <<[position |-> 1, share |-> Whole]>> ELSE strategy[m].placements

\* Faulty variant: the first placement that is not below the rank.
PrizeOfTheNext(rank, m) ==
  LET placed == {n \in DOMAIN Payouts(m) : Payouts(m)[n].position <= rank} IN
  IF placed = {} THEN 0 ELSE Rounded(Marathons[m].award * Or(Payouts(m)[Min(placed)].share, 0), Whole)

\* calculatePrize: the first placement for the rank, nothing without a share.
Prize(rank, m) ==
  LET placed == {n \in DOMAIN Payouts(m) : Payouts(m)[n].position = rank} IN
  IF placed = {} THEN 0 ELSE Rounded(Marathons[m].award * Or(Payouts(m)[Min(placed)].share, 0), Whole)

------------------------------------------------------------------------------
(***************************************************************************)
(* Trades.                                                                 *)
(***************************************************************************)

\* The rows of an account that were opened between two dates.
Opened(p, from, to) == {i \in DOMAIN trades : trades[i].of = p /\ trades[i].open \in from .. to}

\* The filters of a query.
Filtered(q, I) ==
  {i \in I : /\ q.symbols = {} \/ trades[i].symbol \in q.symbols
             /\ q.only = "profitable" => trades[i].profit > 0
             /\ q.only = "losing" => trades[i].profit < 0
             /\ q.min = None \/ trades[i].profit >= q.min
             /\ q.max = None \/ trades[i].profit <= q.max}

\* The rows in descending order of a key, those of one key by their number.
Descending(I, Key(_)) == Arranged(Places(I, LAMBDA i, j : Key(i) > Key(j) \/ (Key(i) = Key(j) /\ i < j)))
NewestFirst(I) == Descending(I, LAMBDA i : trades[i].open)
Cut(s, limit) == IF limit # None /\ Len(s) > limit THEN SubSeq(s, 1, limit) ELSE s

\* sortTransactions, of rows that come newest first.
SortedBy(order, I) ==
  LET place == Inverse(NewestFirst(I), 1 .. Cardinality(I), I)
      Stable(Key(_)) == Arranged(Places(I, LAMBDA i, j : Key(i) > Key(j) \/ (Key(i) = Key(j) /\ place[i] < place[j]))) IN
  CASE order = "openTime_asc" -> Stable(LAMBDA i : -trades[i].open)
    [] order = "closeTime_desc" -> Stable(LAMBDA i : trades[i].close)
    [] order = "closeTime_asc" -> Stable(LAMBDA i : -trades[i].close)
    [] order = "profit_desc" -> Stable(LAMBDA i : trades[i].profit)
    [] order = "profit_asc" -> Stable(LAMBDA i : -trades[i].profit)
    [] OTHER -> NewestFirst(I)

\* What is counted of a symbol.
CountedFor(symbol, I) ==
  LET T == {i \in I : trades[i].symbol = symbol}
      won == Cardinality({i \in T : trades[i].profit > 0})
      profit == MapThenSumSet(LAMBDA i : trades[i].profit, T) IN
  [symbol |-> symbol, total |-> Cardinality(T), won |-> won,
   lost |-> Cardinality({i \in T : trades[i].profit < 0}), winrate |-> PercentOf(won, Cardinality(T)),
   profit |-> profit, average |-> IF T = {} THEN 0 ELSE Rounded(profit, Cardinality(T))]

\* The symbols by the number of their trades, those of one number as they first come up.
SymbolStats(I) ==
  LET symbols == {trades[i].symbol : i \in I} \ {NoSymbol}
      stats == [s \in symbols |-> CountedFor(s, I)]
      first == [s \in symbols |-> Min({n \in 1 .. Cardinality(I) : trades[NewestFirst(I)[n]].symbol = s})]
      order == Arranged(Places(symbols, LAMBDA s, r : \/ stats[s].total > stats[r].total
                                                      \/ (stats[s].total = stats[r].total /\ first[s] < first[r]))) IN
  [n \in DOMAIN order |-> stats[order[n]]]

\* getMarathonTradeHistory, of one participant.
MarathonTrades(p, from, to, limit) == Cut(NewestFirst(Opened(p, Or(from, Its(p).start), Or(to, Its(p).end))), limit)

------------------------------------------------------------------------------
(***************************************************************************)
(* Series of balance and equity.                                           *)
(***************************************************************************)

Between(f, from, to) == [t \in DOMAIN f \cap (from .. to) |-> f[t]]

\* The balance points, with the equity of the same time if there is one.
Merged(p, from, to) ==
  LET equity == Between(equities[p], from, to) IN
  [t \in DOMAIN Between(balances[p], from, to) |->
     [balance |-> balances[p][t], equity |-> IF t \in DOMAIN equity THEN equity[t] ELSE None]]

\* The points of all accounts, added up where their times are equal.
AddedUp(P, from, to) ==
  LET Sum(f, t) ==
        LET Q == {p \in P : t \in DOMAIN f[p]} IN
        IF Q = {} THEN None ELSE MapThenSumSet(LAMBDA p : f[p][t], Q)
      times == UNION {DOMAIN balances[p] \cup DOMAIN equities[p] : p \in P} \cap (from .. to) IN
  [t \in times |-> [balance |-> Sum(balances, t), equity |-> Sum(equities, t)]]

\* aggregateHistory: the last point of a period stands at its beginning.
Condensed(series, period) ==
  LET Begins(t) == t - (t % period) IN
  [k \in {Begins(t) : t \in DOMAIN series} |-> series[Max({t \in DOMAIN series : Begins(t) = k})]]

\* Every how many points one is kept.
Step(size, limit) == (size + limit - 1) \div limit

Sampled(series, limit) ==
  LET times == Arranged(Places(DOMAIN series, <))
      size == Len(times) IN
  IF limit = None \/ size <= limit THEN series
  ELSE [t \in {times[n] : n \in {k \in 1 .. size : (k - 1) % Step(size, limit) = 0}} |-> series[t]]

Shown(q, series) == Sampled(IF q.period = None THEN series ELSE Condensed(series, q.period), q.points)

\* getMarathonPnLHistory, of one participant: the first balance, or balance less profit of the
\* report when that is close to it.
InitialBalance(p, from, to) ==
  LET first == balances[p][Min(DOMAIN Between(balances[p], from, to))]
      reported == reports[p].balance - reports[p].profit IN
  IF reports[p] # None /\ reported > 0 /\ 10 * Absolute(reported - first) < first THEN reported ELSE first

ProfitAndLoss(p, from, to) ==
  LET series == Between(balances[p], Or(from, Its(p).start), Or(to, Its(p).end)) IN
  [t \in DOMAIN series |-> series[t] - InitialBalance(p, Or(from, Its(p).start), Or(to, Its(p).end))]

------------------------------------------------------------------------------
(***************************************************************************)
(* The analyses.                                                           *)
(***************************************************************************)

\* A query that asks for nothing in particular.
Plain == [from |-> None, to |-> None, sections |-> {}, symbols |-> {}, only |-> "any", min |-> None, max |-> None,
          order |-> "openTime_desc", tradeLimit |-> None, symbolLimit |-> None, period |-> None, points |-> None]

ASSUME QueriesAssumption ==
  \A q \in Queries :
    /\ DOMAIN q = DOMAIN Plain
    /\ q.from \in Int \cup {None} /\ q.to \in Int \cup {None}
    /\ q.period \in (Nat \ {0}) \cup {None} /\ q.points \in (Nat \ {0}) \cup {None}

AllSections == {"performance", "floatingRisk", "openPositions", "equityBalanceHistory", "statsPerSymbol", "tradeHistory"}
Sections(q) == IF q.sections = {} THEN AllSections ELSE q.sections

Performance(total, won, lost, net, drawdown) ==
  [winrate |-> PercentOf(won, total), total |-> total, won |-> won, lost |-> lost, net |-> net, drawdown |-> drawdown]
OpenRisk(profit, equity, positions, volume) ==
  [pnl |-> profit, percent |-> IF equity \in {None, 0} THEN None ELSE PercentOf(Absolute(profit), equity),
   positions |-> positions, volume |-> IF positions = 0 THEN None ELSE volume]

\* getParticipantAnalysis.
Analysis(p, q) ==
  LET from == Or(q.from, Its(p).start)
      to == Or(q.to, Its(p).end)
      r == reports[p]
      s == live[p]
      I == Filtered(q, Opened(p, from, to)) IN
  [section \in Sections(q) |->
     CASE section = "performance" ->
            IF r = None THEN Performance(0, 0, 0, None, None)
            ELSE Performance(r.total, r.won, r.lost, r.net, r.drawdown)
       [] section = "floatingRisk" ->
            IF s = None THEN OpenRisk(None, None, 0, None)
            ELSE OpenRisk(s.profit, s.equity, s.positions, s.volume)
       [] section = "openPositions" ->
            IF s = None THEN [balance |-> None, equity |-> None] ELSE [balance |-> s.balance, equity |-> s.equity]
       [] section = "equityBalanceHistory" -> Shown(q, Merged(p, from, to))
       [] section = "statsPerSymbol" -> Cut(SymbolStats(I), q.symbolLimit)
       [] section = "tradeHistory" -> Cut(SortedBy(q.order, I), q.tradeLimit)]

\* Faulty variant: from the last of the marathons.
FromLatest(u, q) == Or(q.from, Max({Its(p).start : p \in By(u)}))

\* The dates of all marathons of a user.
FromEarliest(u, q) == Or(q.from, Min({Its(p).start : p \in By(u)}))
ToLatest(u, q) == Or(q.to, Max({Its(p).end : p \in By(u)}))

OrNone(n) == IF n = 0 THEN None ELSE n

\* What getUserAggregatedAnalysis adds up of the reports and of the snapshots of a user.
AllPerformance(u) ==
  LET P == {p \in By(u) : reports[p] # None}
      Sum(Field(_)) == MapThenSumSet(LAMBDA p : Field(reports[p]), P) IN
  Performance(Sum(LAMBDA r : r.total), Sum(LAMBDA r : r.won), Sum(LAMBDA r : r.lost),
              OrNone(Sum(LAMBDA r : r.net)), OrNone(Max({0} \cup {reports[p].drawdown : p \in P})))

AllLive(u) ==
  LET P == {p \in By(u) : live[p] # None}
      Sum(Field(_)) == MapThenSumSet(LAMBDA p : Field(live[p]), P) IN
  [risk |-> [OpenRisk(Sum(LAMBDA s : s.profit), Sum(LAMBDA s : s.equity), Sum(LAMBDA s : s.positions), Sum(LAMBDA s : s.volume))
             EXCEPT !.pnl = OrNone(@)],
   balance |-> OrNone(Sum(LAMBDA s : s.balance)), equity |-> OrNone(Sum(LAMBDA s : s.equity))]

\* The rows its query finds and its filters keep.
AllTrades(u, q) == Filtered(q, UNION {Opened(p, FromEarliest(u, q), ToLatest(u, q)) : p \in By(u)})
AllStats(u, q) == Cut(SymbolStats(AllTrades(u, q)), q.symbolLimit)

\* getUserAggregatedAnalysis.
AllAnalysis(u, q) ==
  [section \in Sections(q) |->
     CASE section = "performance" -> AllPerformance(u)
       [] section = "floatingRisk" -> AllLive(u).risk
       [] section = "openPositions" -> [balance |-> AllLive(u).balance, equity |-> AllLive(u).equity]
       [] section = "equityBalanceHistory" -> Shown(q, AddedUp(By(u), FromEarliest(u, q), ToLatest(u, q)))
       [] section = "statsPerSymbol" -> AllStats(u, q)
       [] section = "tradeHistory" -> Cut(SortedBy(q.order, AllTrades(u, q)), q.tradeLimit)]

------------------------------------------------------------------------------
(***************************************************************************)
(* The dashboard and the live analysis.                                    *)
(***************************************************************************)

SumOf(stats, Field(_)) == SumFunction([n \in DOMAIN stats |-> Field(stats[n])])
Others(stats) == SubSeq(stats, TopSymbols + 1, Len(stats))
Total(s) == s.total

\* The first symbols, and the others together.
CurrencyPairs(stats) ==
  LET Pair(label, value) == [label |-> label, value |-> value, percentage |-> PercentOf(value, SumOf(stats, Total))]
      other == SumOf(Others(stats), Total) IN
  [n \in DOMAIN Cut(stats, TopSymbols) |-> Pair(stats[n].symbol, stats[n].total)]
  \o IF other > 0 THEN <<Pair("Other", other)>> ELSE <<>>

\* All symbols, and the others once more.
TreemapByTrades(stats) ==
  LET other == SumOf(Others(stats), Total) IN
  [n \in DOMAIN stats |-> <<stats[n].symbol, stats[n].total>>] \o IF other > 0 THEN <<<<"Other", other>>>> ELSE <<>>

\* One symbol more than there are pairs, so that the others never come up.
Winrates(stats) == [n \in DOMAIN Cut(stats, TopSymbols + 1) |->
                      [symbol |-> stats[n].symbol, won |-> stats[n].winrate, lost |-> PercentOf(stats[n].lost, stats[n].total)]]

\* The type of a trade is stored as it comes.
Written(sides, rows) == Cardinality({n \in DOMAIN rows : trades[rows[n]].side \in sides})

\* The dashboard takes either word, the live analysis only the first.
SidesOfAll(rows) == [long |-> Written({"buy", "long"}, rows), short |-> Written({"sell", "short"}, rows)]
Sides(rows) == [long |-> Written({"buy"}, rows), short |-> Written({"sell"}, rows)]

\* Rank, profit and prize of a participant on the live leaderboard, 0 without a snapshot.
Standing(p) ==
  LET rank == IF live[p] = None THEN 0 ELSE LiveRanks(Enrolled[p].marathon)[p] IN
  [rank |-> rank, prize |-> Prize(rank, Enrolled[p].marathon),
   profit |-> IF live[p] = None THEN 0 ELSE Rounded(Whole * ProfitRate(p)[1], ProfitRate(p)[2])]

\* The participants of finished marathons, with their ranks: the best first, of those the latest.
BestFirst(ranks) ==
  Arranged(Places({p \in DOMAIN ranks : ranks[p] > 0}, LAMBDA p, o : ranks[p] < ranks[o] \/ (ranks[p] = ranks[o] /\ p > o)))

\* getUserDashboard, of the analysis of the user and those ranks.
DashboardOf(u, analysis, ranks) ==
  LET won == Cardinality({p \in DOMAIN ranks : ranks[p] = 1})
      ongoing == {p \in By(u) : Its(p).status = "ONGOING"} IN
  [won |-> won, winrate |-> PercentOf(won, Cardinality(By(u))),
   trades |-> analysis["performance"],
   pairs |-> CurrencyPairs(analysis["statsPerSymbol"]),
   treemap |-> TreemapByTrades(analysis["statsPerSymbol"]),
   winrates |-> Winrates(analysis["statsPerSymbol"]),
   sides |-> SidesOfAll(analysis["tradeHistory"]),
   best |-> Cut(BestFirst(ranks), 5),
   last |-> Max(IF ongoing # {} THEN ongoing ELSE By(u)),
   lastTrades |-> Cut(analysis["tradeHistory"], 5)]

Dashboard(u) ==
  DashboardOf(u,
    AllAnalysis(u, [Plain EXCEPT !.sections = {"performance", "statsPerSymbol", "tradeHistory"}, !.tradeLimit = TradeCap]),
    [p \in {o \in By(u) : Its(o).status = "FINISHED"} |-> Standing(p).rank])

\* riskFloatMax: the largest distance of an equity from the last balance before it; 100 % for none.
RiskFloatMax(p) ==
  LET equity == Between(equities[p], Its(p).start, Its(p).end)
      balance == Between(balances[p], Its(p).start, Its(p).end)
      BalanceAt(t) == LET before == {b \in DOMAIN balance : b <= t} IN
                      IF before = {} THEN equity[t] ELSE balance[Max(before)]
      risk == IF balance = <<>> THEN 0
              ELSE Max({0} \cup {PercentOf(Absolute(equity[t] - BalanceAt(t)), equity[t]) : t \in DOMAIN equity}) IN
  IF risk > 0 THEN risk ELSE Whole

\* drawdownMax: the reported one of the first balance, or the deepest fall from a peak; 100 % for none.
DrawdownMax(p) ==
  LET balance == Between(balances[p], Its(p).start, Its(p).end)
      times == DOMAIN balance
      reported == IF reports[p] = None THEN 0 ELSE reports[p].maximal
      initial == IF times # {} THEN balance[Min(times)] ELSE IF live[p] = None THEN 0 ELSE live[p].balance
      Peak(t) == Max({balance[u] : u \in {v \in times : v <= t}})
      fall == Max({0} \cup {PercentOf(Peak(t) - balance[t], Peak(t)) : t \in times}) IN
  IF initial <= 0 THEN Whole
  ELSE IF reported > 0 THEN PercentOf(reported, initial) ELSE IF fall > 0 THEN fall ELSE Whole

\* getParticipantLiveAnalysis.
LiveAnalysis(p) ==
  LET I == Opened(p, Its(p).start, Its(p).end)
      r == reports[p]
      balance == IF live[p] = None THEN 0 ELSE live[p].balance
      net == IF r = None THEN balance - 1000000 ELSE r.net IN
  [standing |-> Standing(p),
   net |-> net, average |-> IF r = None \/ r.total = 0 THEN 0 ELSE Rounded(net, r.total),
   riskFloat |-> IF live[p] = None THEN 0 ELSE PercentOf(Absolute(live[p].profit), live[p].equity),
   riskFloatMax |-> RiskFloatMax(p), drawdownMax |-> DrawdownMax(p),
   trades |-> NewestFirst(I), pairs |-> CurrencyPairs(SymbolStats(I)), sides |-> Sides(NewestFirst(I)),
   series |-> [t \in DOMAIN Merged(p, Its(p).start, Its(p).end) |->
                 LET point == Merged(p, Its(p).start, Its(p).end)[t] IN
                 [point EXCEPT !.equity = Or(@, point.balance)]]]

------------------------------------------------------------------------------
(***************************************************************************)
(* Properties.                                                             *)
(***************************************************************************)

Owners == {Enrolled[p].user : p \in Entrants}
Elsewhere(i, q) ==
  trades[i].open \notin Or(q.from, Its(trades[i].of).start) .. Or(q.to, Its(trades[i].of).end)

\* The live analysis of a participant shows the trades of its analysis, and so does the
\* dashboard of a user with no other, but for the trades written LONG or SHORT, which only the
\* dashboard counts to a side.
TradesAgree(p, here, analysis, dashboard) ==
  /\ here.trades = analysis["tradeHistory"] /\ here.trades = MarathonTrades(p, None, None, None)
  /\ here.pairs = CurrencyPairs(analysis["statsPerSymbol"])
  /\ SumOf(here.pairs, LAMBDA pair : pair.value)
       = Cardinality({n \in DOMAIN here.trades : trades[here.trades[n]].symbol # NoSymbol})
  /\ By(Enrolled[p].user) = {p} =>
       /\ dashboard.pairs = here.pairs
       /\ Len(here.trades) <= TradeCap =>
            /\ dashboard.sides.long = here.sides.long + Written({"long"}, here.trades)
            /\ dashboard.sides.short = here.sides.short + Written({"short"}, here.trades)

\* Every trade is counted once wherever it is shown: the totals of a user are those of the
\* participants, and in addition only trades an account made outside its own marathon but
\* between the dates of the user's others.
TradesAreCountedOnce ==
  trades # <<>> =>
    /\ \A u \in Owners, q \in Queries :
         LET all == AllAnalysis(u, [q EXCEPT !.sections = {}, !.symbolLimit = None])["statsPerSymbol"]
             Part(p) == SumOf(Analysis(p, [q EXCEPT !.sections = {}, !.symbolLimit = None])["statsPerSymbol"], Total) IN
         SumOf(all, Total) = SumFunction([p \in By(u) |-> Part(p)])
           + Cardinality({i \in AllTrades(u, q) : trades[i].symbol # NoSymbol /\ Elsewhere(i, q)})
    /\ \A p \in Entrants : TradesAgree(p, LiveAnalysis(p), Analysis(p, Plain), Dashboard(Enrolled[p].user))

\* A series, condensed or sampled, shows points of its period, at most as many as asked for and
\* the first of them; profit and loss begins at 0 or within a tenth of the first balance.
SeriesAreSamples ==
  \A p \in Entrants, q \in Queries :
    LET from == Or(q.from, Its(p).start)
        to == Or(q.to, Its(p).end)
        all == Merged(p, from, to)
        shown == Shown(q, all)
        Stands(k) == IF q.period = None THEN {k} ELSE k .. k + q.period - 1 IN
    /\ q.points # None => Cardinality(DOMAIN shown) <= q.points
    /\ \A k \in DOMAIN shown : \E t \in DOMAIN all \cap Stands(k) : shown[k] = all[t]
    /\ DOMAIN all # {} => \E k \in DOMAIN shown : Min(DOMAIN all) \in Stands(k)
    /\ LET pnl == ProfitAndLoss(p, q.from, q.to) IN
       DOMAIN pnl # {} => \/ pnl[Min(DOMAIN pnl)] = 0
                          \/ 10 * Absolute(pnl[Min(DOMAIN pnl)]) < balances[p][Min(DOMAIN pnl)]

\* The marathons a dashboard counts as won are those it lists at rank 1.
WonIsListed(dashboard) ==
  Len(dashboard.best) < 5 =>
    dashboard.won = Cardinality({n \in DOMAIN dashboard.best : Standing(dashboard.best[n]).rank = 1})
WonAreListed == \A u \in Owners : WonIsListed(Dashboard(u))

\* What the answers of a user and of a participant show is what was recorded, once.
AnswersShowTheRecords == Recorded > 0 => TradesAreCountedOnce /\ SeriesAreSamples /\ WonAreListed

GivenOnce(ranks) == Range(ranks) = 1 .. Cardinality(DOMAIN ranks)
RanksAreGivenOnce == \A m \in DOMAIN Marathons : GivenOnce(ReportRanks(m)) /\ GivenOnce(LiveRanks(m))

\* The prizes shown are what the placements make of the award, but for half a cent each: never
\* more than all their shares, though those may exceed it, and no less where the placements are
\* for different ranks that all are given.
PrizesFollowThePlacements(m) ==
  LET P == {p \in Of(m) : live[p] # None}
      paid == SumFunction([p \in P |-> LiveAnalysis(p).standing.prize])
      shares == SumFunction([n \in DOMAIN Payouts(m) |-> Or(Payouts(m)[n].share, 0)])
      due == 2 * Marathons[m].award * shares
      slack == Whole * Cardinality(P) IN
  /\ 2 * Whole * paid <= due + slack
  /\ (/\ \A n \in DOMAIN Payouts(m) : Payouts(m)[n].position <= Cardinality(P)
      /\ \A n, k \in DOMAIN Payouts(m) : n # k => Payouts(m)[n].position # Payouts(m)[k].position)
     => due <= 2 * Whole * paid + slack

\* Every rank is given once, on the leaderboard of the reports and on the live one, which the
\* live analysis and the entry of an account agree on; so the prizes of a marathon follow from
\* how its award is split, and stay within it where the shares do not exceed 100 %.
PrizesFollowTheSplit ==
  Recorded > 0 =>
    /\ RanksAreGivenOnce
    /\ \A m \in DOMAIN Marathons : PrizesFollowThePlacements(m)
    /\ \A p \in Entrants : AccountEntry(p) # None => AccountEntry(p).rank = LiveAnalysis(p).standing.rank

\* The accounts of a user are shown as if they were one: at every time shown the balance is
\* the sum of the balances its accounts have had since their last points.
SeriesIsOfOneAccount ==
  \A u \in Owners :
    LET shown == AllAnalysis(u, Plain)["equityBalanceHistory"]
        LastOf(p, t) == {b \in DOMAIN balances[p] : b <= t} IN
    \A t \in DOMAIN shown : shown[t].balance # None =>
      shown[t].balance = MapThenSumSet(LAMBDA p : balances[p][Max(LastOf(p, t))], {p \in By(u) : LastOf(p, t) # {}})

=============================================================================
