------------------------------ MODULE Monitoring ------------------------------
(***************************************************************************)
(* The metrics of one cron job, as CronMonitoringService keeps them around *)
(* the handlers of CronJobsService.                                        *)
(*                                                                         *)
(* A record is an object that a run keeps a reference to until its handler *)
(* ends; the map is given a copy of it then, and copies of its own record  *)
(* whenever somebody asks for metrics.  Runs overlap when a handler takes  *)
(* longer than the schedule or the job is triggered by hand.  Times and    *)
(* the next run are left out.  Bounds: MaxRuns and MaxCopies.              *)
(***************************************************************************)
EXTENDS Integers, Sequences, FiniteSets

CONSTANTS
  Runs,         \* runs of the job under way at once
  MaxRuns,      \* bound on the runs begun
  MaxCopies     \* bound on the records

ASSUME MonitoringAssumption == IsFiniteSet(Runs) /\ MaxRuns \in Nat /\ MaxCopies \in Nat

VARIABLES
  records,   \* all records there have been
  shown,     \* the record in the map, 0 when there is none
  held,      \* run -> the record it holds, 0 when it is not under way
  begun,     \* runs begun (history variable)
  failed,    \* runs that failed (history variable)
  replaced   \* the record in the map was replaced during a run (history variable)

monitoringVars == <<records, shown, held, begun, failed, replaced>>

NewRecord == [runs |-> 0, failures |-> 0, isRunning |-> FALSE, lastStatus |-> "none"]
UnderWay == {r \in Runs : held[r] # 0}

MonitoringInit ==
  /\ records = <<>> /\ shown = 0
  /\ held = [r \in Runs |-> 0]
  /\ begun = 0 /\ failed = 0 /\ replaced = FALSE

\* ensureRecord: the records there are then, and which is in the map.
Ensured == IF shown = 0 THEN [all |-> Append(records, NewRecord), at |-> Len(records) + 1]
           ELSE [all |-> records, at |-> shown]

\* track, up to its handler.
BeginRun(r) ==
  /\ held[r] = 0 /\ begun < MaxRuns /\ Len(records) < MaxCopies
  /\ records' = [Ensured.all EXCEPT ![Ensured.at].isRunning = TRUE, ![Ensured.at].runs = @ + 1]
  /\ shown' = Ensured.at
  /\ held' = [held EXCEPT ![r] = Ensured.at]
  /\ begun' = begun + 1
  /\ UNCHANGED <<failed, replaced>>

\* Faulty variant: the copy is made before the record is marked.
CopiedFirst(record, status) == record

\* The record when a handler has ended.
Ended(record, status) ==
  [record EXCEPT !.isRunning = FALSE, !.lastStatus = status,
                 !.failures = IF status = "failure" THEN @ + 1 ELSE @]

\* track, from the end of its handler on: the record it holds is marked and a copy put in the map.
EndRun(r, status) ==
  /\ held[r] # 0
  /\ LET record == Ended(records[held[r]], status) IN
     records' = Append([records EXCEPT ![held[r]] = record], record)
  /\ shown' = Len(records')
  /\ held' = [held EXCEPT ![r] = 0]
  /\ failed' = IF status = "failure" THEN failed + 1 ELSE failed
  /\ replaced' = (replaced \/ UnderWay # {r})
  /\ UNCHANGED begun

\* getMetrics and getAllMetrics: the record in the map becomes a copy.
Ask ==
  /\ Len(records) < MaxCopies
  /\ records' = Append(Ensured.all, Ensured.all[Ensured.at])
  /\ shown' = Len(records')
  /\ replaced' = (replaced \/ UnderWay # {})
  /\ UNCHANGED <<held, begun, failed>>

MonitoringNext ==
  \/ Ask
  \/ \E r \in Runs : BeginRun(r) \/ \E status \in {"success", "failure"} : EndRun(r, status)

MonitoringSpec == MonitoringInit /\ [][MonitoringNext]_monitoringVars

------------------------------------------------------------------------------

\* What the metrics say of the runs: none is running when none is under way, failures are among
\* the runs counted and these among the runs begun; and unless the record was replaced during a
\* run, all are counted and a run under way is shown.
MetricsTellTheRuns ==
  shown # 0 =>
    LET metrics == records[shown] IN
    /\ UnderWay = {} => ~metrics.isRunning
    /\ metrics.failures <= metrics.runs /\ metrics.runs <= begun /\ metrics.failures <= failed
    /\ ~replaced => /\ metrics.runs = begun /\ metrics.failures = failed
                    /\ metrics.isRunning <=> UnderWay # {}

=============================================================================
