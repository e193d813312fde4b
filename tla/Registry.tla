------------------------------ MODULE Registry ------------------------------
(***************************************************************************)
(* What sessions promise: while a session is open one credential admits    *)
(* its user, no credential admits two sessions, and a session that was     *)
(* closed never opens again, whatever refreshes were under way.            *)
(***************************************************************************)
CONSTANTS
  Ids,         \* sessions
  Credentials, \* what a request may present
  None         \* no credential

VARIABLES
  admits, \* session -> the credential that admits its user, or None
  closed  \* sessions that were closed

registryVars == <<admits, closed>>

Unused(c) == c \in Credentials /\ \A s \in Ids : admits[s] # c

RegistryInit ==
  /\ admits = [s \in Ids |-> None]
  /\ closed = {}

Open(s) ==
  /\ admits[s] = None
  /\ s \notin closed
  /\ \E c \in Credentials : Unused(c) /\ admits' = [admits EXCEPT ![s] = c]
  /\ UNCHANGED closed

Renew(s) ==
  /\ admits[s] # None
  /\ \E c \in Credentials : Unused(c) /\ admits' = [admits EXCEPT ![s] = c]
  /\ UNCHANGED closed

Close(S) ==
  /\ \A s \in S : admits[s] # None
  /\ admits' = [s \in Ids |-> IF s \in S THEN None ELSE admits[s]]
  /\ closed' = closed \cup S

RegistryNext ==
  \/ \E s \in Ids : Open(s) \/ Renew(s)
  \/ \E S \in SUBSET Ids : Close(S)

RegistrySpec == RegistryInit /\ [][RegistryNext]_registryVars
==============================================================================
