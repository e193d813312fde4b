------------------------------ MODULE MCRecords ------------------------------
(***************************************************************************)
(* What the database holds of users, sessions, tables, accounts, their     *)
(* analysis and the jobs: six components that share no variable.  A        *)
(* behaviour runs one, its subject, and leaves the others as they were: a  *)
(* property is about one component and is checked on all its behaviours.   *)
(***************************************************************************)
EXTENDS Registration, Sessions, MCSchema, MCAccountData, MCAnalytics, Monitoring

VARIABLE subject
recordsVars ==
  <<subject, registrationVars, sessionsVars, schemaVars, accountVars, analyticsVars, monitoringVars>>

Alike == Permutations(Emails) \cup Permutations(Ids) \cup Permutations(Workers) \cup Permutations(Importers)

RecordsInit ==
  /\ subject \in {"registration", "sessions", "schema", "account data", "analytics", "monitoring"}
  /\ RegistrationInit /\ SessionsInit /\ AccountDataInit /\ AnalyticsInit /\ MonitoringInit
  /\ strategy = [m \in DOMAIN Marathons |-> CHOOSE split \in Strategies : TRUE]
  /\ IF subject = "schema" THEN SchemaInit ELSE Inheriting({}, FALSE, FALSE, FALSE)

OfRegistration ==
  /\ subject = "registration" /\ RegistrationNext
  /\ UNCHANGED <<subject, sessionsVars, schemaVars, accountVars, analyticsVars, monitoringVars>>
OfSessions ==
  /\ subject = "sessions" /\ SessionsNext
  /\ UNCHANGED <<subject, registrationVars, schemaVars, accountVars, analyticsVars, monitoringVars>>
OfSchema ==
  /\ subject = "schema" /\ SchemaNext
  /\ UNCHANGED <<subject, registrationVars, sessionsVars, accountVars, analyticsVars, monitoringVars>>
OfAccountData ==
  /\ subject = "account data" /\ AccountDataNext
  /\ UNCHANGED <<subject, registrationVars, sessionsVars, schemaVars, analyticsVars, monitoringVars>>
OfAnalytics ==
  /\ subject = "analytics" /\ AnalyticsNext
  /\ UNCHANGED <<subject, registrationVars, sessionsVars, schemaVars, accountVars, monitoringVars>>
OfMonitoring ==
  /\ subject = "monitoring" /\ MonitoringNext
  /\ UNCHANGED <<subject, registrationVars, sessionsVars, schemaVars, accountVars, analyticsVars>>

RecordsNext ==
  OfRegistration \/ OfSessions \/ OfSchema \/ OfAccountData \/ OfAnalytics \/ OfMonitoring

RecordsSpec == RecordsInit /\ [][RecordsNext]_recordsVars
=============================================================================
