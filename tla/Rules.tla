-------------------------------- MODULE Rules --------------------------------
(***************************************************************************)
(* The rules of a marathon, as MarathonRulesService checks them for one    *)
(* participant: by a job, from the history that has been imported, and for *)
(* every live message, from its snapshot.                                  *)
(*                                                                         *)
(* Time is counted in points of the account, its equity and its floating   *)
(* profit, PointsPerDay a day: there is one for every moment that has      *)
(* passed.  A check waits for the database between its measures, and       *)
(* meanwhile points are added, imported or delivered, and the status job   *)
(* closes the marathon.                                                    *)
(* What disqualifyParticipant overwrites is in Lifecycle.  Bounds:         *)
(* Horizon, MaxTrades and MaxFailures.                                     *)
(***************************************************************************)
EXTENDS Integers, Sequences, FiniteSets, FiniteSetsExt

CONSTANTS
  Checks,       \* checks of the participant under way at once
  Points,       \* <<equity, floating profit>> the account may have
  RuleSets,     \* marathon.rules: rule -> limit, for the rules the marathon has
  Start, End,   \* startDate and endDate
  PointsPerDay,
  Horizon,      \* bound of the clock
  MaxTrades,    \* bound on the trades
  MaxFailures   \* bound on the queries that fail

RuleNames == {"minTrades", "total", "daily", "floating"}

ASSUME RulesAssumption ==
  /\ Points \subseteq Int \X Int
  /\ \A rules \in RuleSets : DOMAIN rules \subseteq RuleNames
  /\ \A rules \in RuleSets : \A rule \in DOMAIN rules : rules[rule] \in Nat
  /\ Start \in Nat /\ End \in Nat /\ Horizon \in Nat
  /\ MaxTrades \in Nat /\ MaxFailures \in Nat
  /\ PointsPerDay \in Nat \ {0}

VARIABLES
  limits,      \* marathon.rules
  status,      \* marathon.status
  equity,      \* the account's equity at every moment: the present is its length
  profit,      \* its floating profit at every moment
  traded,      \* the moments at which its trades were closed
  recorded,    \* points of the equity history that are imported
  reported,    \* totalTrades of the report that is imported, 0 without one
  snapshot,    \* the live snapshot, with the moment it shows
  check,       \* check -> its stage and what it has found
  reasons,     \* disqualificationReason; the participant is ACTIVE while there is none
  failures,    \* queries that have failed
  outdated,    \* a snapshot was measured by a history that went on after it (history variable)
  behind       \* trades were counted by a report that missed some (history variable)

rulesVars == <<limits, status, equity, profit, traded, recorded, reported, snapshot, check, reasons, failures, outdated, behind>>
market == <<equity, profit, traded>>
past == <<outdated, behind>>
imported == <<recorded, reported, snapshot>>

Resting == [stage |-> "resting"]
Unseen == [at |-> 0, equity |-> 0, profit |-> 0]
Moment == Len(equity)
SnapshotOf(t) == [at |-> t, equity |-> equity[t], profit |-> profit[t]]
Day(t) == t \div PointsPerDay

RulesInit ==
  /\ limits \in RuleSets
  /\ status = "UPCOMING"
  /\ equity = <<>> /\ profit = <<>> /\ traded = <<>>
  /\ recorded = 0 /\ reported = 0 /\ snapshot = Unseen
  /\ check = [c \in Checks |-> Resting]
  /\ reasons = {}
  /\ failures = 0
  /\ outdated = FALSE /\ behind = FALSE

------------------------------------------------------------------------------
(***************************************************************************)
(* The account, what is known of it, and the status job.                   *)
(***************************************************************************)

Move(point) ==
  /\ Moment < Horizon
  /\ equity' = Append(equity, point[1])
  /\ profit' = Append(profit, point[2])
  /\ UNCHANGED <<limits, status, traded, imported, check, reasons, failures, past>>

CloseTrade ==
  /\ Len(traded) < MaxTrades
  /\ traded' = Append(traded, Moment)
  /\ UNCHANGED <<limits, status, equity, profit, imported, check, reasons, failures, past>>

\* Somebody asks for the equity history or for the report.
ImportHistory ==
  /\ recorded' = Moment
  /\ UNCHANGED <<limits, status, market, reported, snapshot, check, reasons, failures, past>>

ImportReport ==
  /\ reported' = Len(traded)
  /\ UNCHANGED <<limits, status, market, recorded, snapshot, check, reasons, failures, past>>

SyncStatus ==
  /\ status' = IF Start > Moment THEN "UPCOMING" ELSE IF End >= Moment THEN "ONGOING" ELSE "FINISHED"
  /\ UNCHANGED <<limits, market, imported, check, reasons, failures, past>>

------------------------------------------------------------------------------
(***************************************************************************)
(* The measures, in hundredths of a percent.                               *)
(***************************************************************************)

\* toFixed(2) of a percentage.
Hundredths(part, whole) == (20000 * part + whole) \div (2 * whole)

\* Faulty variant: the history is measured from the opening of the account.
SinceOpening(n) == 1 .. n

\* The imported points since the start of the marathon.
Since(n) == {t \in 1 .. n : t >= Start}

Highest(T) == Max({equity[t] : t \in T})
Lowest(T) == Min({equity[t] : t \in T})

\* calculateTotalDrawdown: from the peak to the live equity, which counts unless it is 0,
\* or to the last point imported; an equity that is not positive measures 0.
TotalDrawdown(n, live) ==
  LET T == Since(n)
      current == IF live # 0 THEN live ELSE equity[n] IN
  IF T = {} \/ Highest(T) <= 0 \/ current <= 0 \/ current > Highest(T) THEN 0
  ELSE Hundredths(Highest(T) - current, Highest(T))

\* Within a day from its highest to its lowest equity, whichever came first.
DayDrawdown(T) == IF Highest(T) <= 0 THEN 0 ELSE Hundredths(Highest(T) - Lowest(T), Highest(T))

\* calculateDailyDrawdown: the worst day.
DailyDrawdown(n) ==
  Max({0} \cup {DayDrawdown({u \in Since(n) : Day(u) = Day(t)}) : t \in Since(n)})

Size(amount) == IF amount < 0 THEN -amount ELSE amount

\* calculateFloatingRisk: a gain measures as much as a loss.
FloatingRisk(s) == IF s.equity <= 0 THEN 0 ELSE Hundredths(Size(s.profit), s.equity)

\* MIN_TRADES counts from the end on, by the report that is imported.
TooFewTrades == "minTrades" \in DOMAIN limits /\ reported < limits["minTrades"] /\ Moment >= End

Breaks(rule, measured) == rule \in DOMAIN limits /\ measured > 100 * limits[rule]

\* Faulty variant: a later rule forgets what an earlier one has found.
FoundLast(c, rule, broken) == IF broken THEN {rule} ELSE {}

Found(c, rule, broken) == IF broken THEN check[c].reasons \cup {rule} ELSE check[c].reasons

------------------------------------------------------------------------------
(***************************************************************************)
(* One check.                                                              *)
(***************************************************************************)

\* Only active participants in ongoing marathons are checked.
Checkable == reasons = {} /\ status = "ONGOING"

Asked(live) == [stage |-> "participant", live |-> live, seen |-> Unseen, reasons |-> {}]

\* The job begins a check.
BeginCheck(c) ==
  /\ check[c] = Resting /\ Checkable
  /\ check' = [check EXCEPT ![c] = Asked(FALSE)]
  /\ UNCHANGED <<limits, status, market, imported, reasons, failures, past>>

\* A live message stores its snapshot and begins a check.
PushProfit(c) ==
  /\ Moment > 0
  /\ check[c] = Resting
  /\ snapshot' = SnapshotOf(Moment)
  /\ check' = [check EXCEPT ![c] = Asked(TRUE)]
  /\ UNCHANGED <<limits, status, market, recorded, reported, reasons, failures, past>>

\* The participant is read, with its marathon.
ReadParticipant(c) ==
  /\ check[c].stage = "participant"
  /\ check' = [check EXCEPT ![c] = IF Checkable /\ DOMAIN limits # {} THEN [@ EXCEPT !.stage = "report"] ELSE Resting]
  /\ UNCHANGED <<limits, status, market, imported, reasons, failures, past>>

\* The report is read, and the snapshot right after it.
ReadReport(c) ==
  /\ check[c].stage = "report"
  /\ check' = [check EXCEPT ![c].stage = "total",
       ![c].seen = IF check[c].live THEN snapshot ELSE Unseen,
       ![c].reasons = Found(c, "minTrades", TooFewTrades)]
  /\ behind' = (behind \/ (TooFewTrades /\ reported < Len(traded)))
  /\ UNCHANGED <<limits, status, market, imported, reasons, failures, outdated>>

\* A query may fail, MaxFailures times.
Failing(fails) ==
  /\ fails => failures < MaxFailures
  /\ failures' = IF fails THEN failures + 1 ELSE failures

\* An error while measuring is logged and measures 0.
MeasureTotal(c, fails) ==
  LET broken == ~fails /\ Breaks("total", TotalDrawdown(recorded, check[c].seen.equity)) IN
  /\ check[c].stage = "total"
  /\ Failing(fails)
  /\ check' = [check EXCEPT ![c].stage = "daily", ![c].reasons = Found(c, "total", broken)]
  /\ outdated' = (outdated \/ (broken /\ check[c].seen.at \in 1 .. recorded - 1))
  /\ UNCHANGED <<limits, status, market, imported, reasons, behind>>

MeasureDaily(c, fails) ==
  LET daily == Found(c, "daily", ~fails /\ Breaks("daily", DailyDrawdown(recorded)))
      found == IF check[c].seen.at > 0 /\ Breaks("floating", FloatingRisk(check[c].seen))
               THEN daily \cup {"floating"} ELSE daily IN
  /\ check[c].stage = "daily"
  /\ Failing(fails)
  /\ check' = [check EXCEPT ![c] =
       IF found = {} THEN Resting ELSE [@ EXCEPT !.stage = "save", !.reasons = found]]
  /\ UNCHANGED <<limits, status, market, imported, reasons, past>>

\* disqualifyParticipant.
Disqualify(c) ==
  /\ check[c].stage = "save"
  /\ reasons' = check[c].reasons
  /\ check' = [check EXCEPT ![c] = Resting]
  /\ UNCHANGED <<limits, status, market, imported, failures, past>>

\* The participant or the report cannot be read or the participant not saved: the caller logs the error.
CheckFails(c) ==
  /\ check[c].stage \in {"participant", "report", "save"}
  /\ Failing(TRUE)
  /\ check' = [check EXCEPT ![c] = Resting]
  /\ UNCHANGED <<limits, status, market, imported, reasons, past>>

Advance(c) ==
  \/ ReadParticipant(c) \/ ReadReport(c) \/ Disqualify(c) \/ CheckFails(c)
  \/ \E fails \in BOOLEAN : MeasureTotal(c, fails) \/ MeasureDaily(c, fails)

RulesNext ==
  \/ \E point \in Points : Move(point)
  \/ CloseTrade \/ ImportHistory \/ ImportReport \/ SyncStatus
  \/ \E c \in Checks : BeginCheck(c) \/ PushProfit(c) \/ Advance(c)

RulesSpec == RulesInit /\ [][RulesNext]_rulesVars

\* Every check ends and the job comes round every five minutes, whatever live checks there are.
RulesFairness == \A c \in Checks : WF_rulesVars(Advance(c)) /\ SF_rulesVars(BeginCheck(c))

------------------------------------------------------------------------------
(***************************************************************************)
(* Properties.                                                             *)
(***************************************************************************)

During == {t \in 1 .. Moment : t >= Start}

\* The equity fell from i to j by more than the limit of a rule.
Fell(i, j, rule) ==
  /\ i \in During /\ j \in During
  /\ equity[i] > 0 /\ equity[j] < equity[i] /\ Breaks(rule, Hundredths(equity[i] - equity[j], equity[i]))

\* The floating profit or loss of a moment was more than the limit's part of the equity.
Risked(t) == equity[t] > 0 /\ Breaks("floating", Hundredths(Size(profit[t]), equity[t]))

\* The trades closed before the end.
InTime == {i \in DOMAIN traded : traded[i] < End}

\* Nobody is disqualified for what did not happen: in the marathon the equity fell by more
\* than the limit, a live message showed a floating loss or gain beyond the limit, or the end
\* came and fewer trades had been closed in time than are asked for.  But a rise within one
\* day counts as a fall, and so does a rise a live message is too old for; that message may be
\* of a moment before the start; and a report from before the last trades is believed.
ReasonsAreFacts ==
  /\ "total" \in reasons => outdated \/ \E i, j \in During : i < j /\ Fell(i, j, "total")
  /\ "daily" \in reasons => \E i, j \in During : Day(i) = Day(j) /\ Fell(i, j, "daily")
  /\ "floating" \in reasons => \E t \in 1 .. Moment : Risked(t)
  /\ "minTrades" \in reasons =>
       Moment >= End /\ (behind \/ Cardinality(InTime) < limits["minTrades"])

\* The daily drawdown is that of a fall.
OnlyFallsDisqualify ==
  "daily" \in reasons => \E i, j \in During : i < j /\ Day(i) = Day(j) /\ Fell(i, j, "daily")

FallenWithinADay ==
  \E i, j \in 1 .. recorded : i < j /\ Day(i) = Day(j) /\ Fell(i, j, "daily")

FallenFromThePeak ==
  \E i, j \in 1 .. recorded : i < j /\ j = recorded /\ Fell(i, j, "total") /\ equity[j] > 0

\* While the marathon goes on, a fall within a day that has been imported is never forgiven,
\* and one from the peak is not until the account recovers or is ruined.
FallsAreJudged ==
  /\ FallenWithinADay ~> (reasons # {} \/ status # "ONGOING")
  /\ FallenFromThePeak ~> (reasons # {} \/ status # "ONGOING" \/ ~FallenFromThePeak)

=============================================================================
