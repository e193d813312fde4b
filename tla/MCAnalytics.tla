---------------------------- MODULE MCAnalytics ----------------------------
EXTENDS Analytics

\* One user in two marathons that overlap, and another in the second.
Seats == [p \in {1, 2, 3} |-> [user |-> IF p = 3 THEN "u2" ELSE "u1", marathon |-> IF p = 1 THEN "m1" ELSE "m2"]]
\* To the winner, to two with a fraction, and more than there is, with a position twice.
Splits ==
  {[type |-> "winner_take_all", placements |-> <<>>],
   [type |-> "percentage_split", placements |-> <<[position |-> 2, share |-> 2450], [position |-> 1, share |-> 7550]>>],
   [type |-> "percentage_split",
    placements |-> <<[position |-> 1, share |-> 6000], [position |-> 2, share |-> 6000], [position |-> 1, share |-> None]>>]}
TwoMarathons ==
  [m \in {"m1", "m2"} |->
     IF m = "m1" THEN [start |-> 1, end |-> 3, status |-> "FINISHED", award |-> 102]
     ELSE [start |-> 3, end |-> 5, status |-> "ONGOING", award |-> 102]]
Deals ==
  {[open |-> 2, close |-> 6, symbol |-> "EURUSD", side |-> "buy", profit |-> 5],
   [open |-> 4, close |-> 4, symbol |-> "XAUUSD", side |-> "long", profit |-> -3],
   [open |-> 3, close |-> 5, symbol |-> NoSymbol, side |-> "sell", profit |-> 0]}
Balances == {<<2, 1000>>, <<3, 900>>, <<4, 1100>>}
Equities == {<<3, 950>>, <<4, 800>>}
Performances == {[total |-> 3, won |-> 2, lost |-> 1, net |-> 70, drawdown |-> 12, maximal |-> 90, balance |-> 1050, profit |-> 70]}
Lives == {[balance |-> 1000, equity |-> 1040, profit |-> 40, positions |-> 1, volume |-> 2],
          [balance |-> 900, equity |-> 850, profit |-> -50, positions |-> 0, volume |-> 0]}
Asked ==
  {Plain,
   [Plain EXCEPT !.from = 2, !.to = 4, !.only = "profitable", !.order = "profit_asc", !.points = 2],
   [Plain EXCEPT !.from = 3, !.symbols = {"EURUSD"}, !.order = "closeTime_desc", !.period = 2],
   [Plain EXCEPT !.max = 0, !.only = "losing", !.tradeLimit = 1, !.symbolLimit = 1, !.period = 2, !.points = 1]}
=============================================================================
