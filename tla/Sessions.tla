------------------------------ MODULE Sessions ------------------------------
(***************************************************************************)
(* Sessions: AuthService (what every way to sign in ends with, and         *)
(* refreshToken), SessionService, the check JwtStrategy makes of every     *)
(* request and the clean-up job.                                           *)
(*                                                                         *)
(* An access token is signed from the user and the second of its issue and *)
(* has no identity of its own, so a token is that pair and its session     *)
(* expires Life seconds after it.  A refresh token names its session and   *)
(* outlives many access tokens; none is ever taken back, so of each        *)
(* session only the newest matters.                                        *)
(*                                                                         *)
(* An action is what runs between two awaits.  A request that is refused   *)
(* before it has changed anything is no action.                            *)
(***************************************************************************)
EXTENDS Integers, FiniteSets

CONSTANTS
  Users,       \* users
  Ids,         \* bound: the sessions there may be
  Workers,     \* requests under way at once
  Life,        \* seconds an access token is valid (15 minutes)
  RefreshLife, \* seconds a refresh token is valid (7 days)
  MaxTime,     \* bound of the clock
  NoSession    \* no row

Time == 0 .. MaxTime
Statuses == {"ACTIVE", "EXPIRED", "REVOKED"}
SessionRow == [user : Users, token : Time, status : Statuses]
Credentials == Users \X Time

ASSUME SessionsAssumption ==
  /\ Life \in Nat \ {0}
  /\ RefreshLife \in Nat
  /\ MaxTime \in Nat
  /\ NoSession \notin SessionRow \cup Credentials

VARIABLES
  now,      \* the clock, in seconds
  sessions, \* session -> its row, or NoSession
  refresh,  \* session -> when its newest refresh token was issued
  call,     \* request -> what it does and has read
  answered, \* session -> the newest access token a client was answered (history)
  raced     \* sessions two of whose refreshes overlapped (history)

history == <<answered, raced>>
sessionsVars == <<now, sessions, refresh, call, history>>

Idle == [op |-> "idle"]
Issued == {s \in Ids : sessions[s] # NoSession}
Active == {s \in Issued : sessions[s].status = "ACTIVE"}
Continue(w, c) == call' = [call EXCEPT ![w] = c]
Finish(w) == Continue(w, Idle)

\* expiresAt is the exp claim of the token.
Expired(s) == sessions[s].token + Life <= now

\* The column token is unique.
Free(s, u, t) == \A r \in Issued \ {s} : <<sessions[r].user, sessions[r].token>> # <<u, t>>

------------------------------------------------------------------------------
SessionsInit ==
  /\ now = 0
  /\ sessions = [s \in Ids |-> NoSession]
  /\ refresh = [s \in Ids |-> 0]
  /\ call = [w \in Workers |-> Idle]
  /\ answered = [s \in Ids |-> 0]
  /\ raced = {}

Tick ==
  /\ now < MaxTime
  /\ now' = now + 1
  /\ UNCHANGED <<sessions, refresh, call, history>>

\* The user signs in, with a password, after the registration or with a refresh token from
\* before session ids were put into them: the tokens are signed.
SignIn(w, u) ==
  /\ call[w] = Idle
  /\ Continue(w, [op |-> "open", user |-> u, token |-> now])
  /\ UNCHANGED <<now, sessions, refresh, history>>

\* createSession, after the login has been recorded and the address looked up.
CreateSession(w) ==
  LET c == call[w] IN
  /\ c.op = "open"
  /\ \/ \E s \in Ids \ Issued :
          /\ Free(s, c.user, c.token)
          /\ sessions' = [sessions EXCEPT ![s] = [user |-> c.user, token |-> c.token, status |-> "ACTIVE"]]
          /\ refresh' = [refresh EXCEPT ![s] = c.token]
          /\ answered' = [answered EXCEPT ![s] = c.token]
     \/ UNCHANGED <<sessions, refresh, answered>>  \* the token is taken, or a query fails
  /\ Finish(w)
  /\ UNCHANGED <<now, raced>>

\* refreshToken: the session is read and the new tokens are signed.
RefreshToken(w, s) ==
  /\ call[w] = Idle
  /\ s \in Active
  /\ now < refresh[s] + RefreshLife
  /\ Continue(w, [op |-> "renew", session |-> s, token |-> now])
  /\ UNCHANGED <<now, sessions, refresh, history>>

\* Faulty variant: a refreshed session is made active.
RenewedActive(row, t) == [row EXCEPT !.token = t, !.status = "ACTIVE"]

\* Faulty variant: only the expiry is moved.
RenewedWithoutToken(row, t) == row

Renewed(row, t) == [row EXCEPT !.token = t]

\* Other refreshes of the same session that are still under way.
OtherRefreshes(w, s) == {v \in Workers \ {w} : call[v].op = "renew" /\ call[v].session = s}

\* updateSessionToken does not look at the status.
UpdateSessionToken(w) ==
  LET c == call[w] s == c.session IN
  /\ c.op = "renew"
  /\ \/ /\ Free(s, sessions[s].user, c.token)
        /\ sessions' = [sessions EXCEPT ![s] = Renewed(@, c.token)]
        /\ refresh' = [refresh EXCEPT ![s] = IF @ > c.token THEN @ ELSE c.token]
        /\ answered' = [answered EXCEPT ![s] = IF @ > c.token THEN @ ELSE c.token]
        /\ raced' = IF OtherRefreshes(w, s) = {} THEN raced ELSE raced \cup {s}
     \/ UNCHANGED <<sessions, refresh, history>>
  /\ Finish(w)
  /\ UNCHANGED now

------------------------------------------------------------------------------
\* A request with an access token, which passport finds unexpired.
Present(w, u, t) ==
  /\ call[w] = Idle
  /\ t <= now /\ now < t + Life
  /\ \E s \in Issued : sessions[s].user = u  \* the user has signed in before
  /\ Continue(w, [op |-> "check", user |-> u, token |-> t])
  /\ UNCHANGED <<now, sessions, refresh, history>>

\* getSessionByToken: only an active session is found.  Its expiry is looked at again,
\* after the user was read.
Validate(w) ==
  LET c == call[w]
      found == {s \in Active : sessions[s].user = c.user /\ sessions[s].token = c.token}
  IN
  /\ c.op = "check"
  /\ \/ \E s \in found : Continue(w, [op |-> IF Expired(s) THEN "mark" ELSE "accepted",
                                      session |-> s, user |-> c.user, token |-> c.token])
     \/ found = {} /\ Finish(w)
  /\ UNCHANGED <<now, sessions, refresh, history>>

\* updateSessionStatus, whatever the status has become.
MarkExpired(w) ==
  /\ call[w].op = "mark"
  /\ sessions' = [sessions EXCEPT ![call[w].session].status = "EXPIRED"]
  /\ Finish(w)
  /\ UNCHANGED <<now, refresh, history>>

\* revokeAllOtherSessions: those with another token than the one that was presented.
RevokeAllOthers(w) ==
  LET c == call[w] IN
  /\ c.op = "accepted"
  /\ sessions' = [s \in Ids |->
       IF s \in Active /\ sessions[s].user = c.user /\ sessions[s].token # c.token
       THEN [sessions[s] EXCEPT !.status = "REVOKED"] ELSE sessions[s]]
  /\ Finish(w)
  /\ UNCHANGED <<now, refresh, history>>

\* revokeSession reads one of the user's sessions ...
ReadToRevoke(w) ==
  LET c == call[w] IN
  /\ c.op = "accepted"
  /\ \E s \in Issued :
       /\ sessions[s].user = c.user
       /\ sessions[s].status # "REVOKED"
       /\ Continue(w, [op |-> "revoke", session |-> s, row |-> sessions[s]])
  /\ UNCHANGED <<now, sessions, refresh, history>>

\* ... and saves it, with the token it had when it was read.
RevokeSession(w) ==
  LET c == call[w] IN
  /\ c.op = "revoke"
  /\ \/ /\ Free(c.session, c.row.user, c.row.token)
        /\ sessions' = [sessions EXCEPT ![c.session] = [c.row EXCEPT !.status = "REVOKED"]]
     \/ UNCHANGED sessions
  /\ Finish(w)
  /\ UNCHANGED <<now, refresh, history>>

\* Any other request.
Serve(w) ==
  /\ call[w].op = "accepted"
  /\ Finish(w)
  /\ UNCHANGED <<now, sessions, refresh, history>>

Overdue == {s \in Active : Expired(s)}

\* cleanupExpiredSessions.
CleanUp ==
  /\ Overdue # {}
  /\ sessions' = [s \in Ids |-> IF s \in Overdue THEN [sessions[s] EXCEPT !.status = "EXPIRED"] ELSE sessions[s]]
  /\ UNCHANGED <<now, refresh, call, history>>

SessionsNext ==
  \/ Tick \/ CleanUp
  \/ \E w \in Workers :
       \/ \E u \in Users : SignIn(w, u) \/ \E t \in Time : Present(w, u, t)
       \/ \E s \in Ids : RefreshToken(w, s)
       \/ CreateSession(w) \/ UpdateSessionToken(w)
       \/ Validate(w) \/ MarkExpired(w) \/ Serve(w)
       \/ RevokeAllOthers(w) \/ ReadToRevoke(w) \/ RevokeSession(w)

SessionsSpec == SessionsInit /\ [][SessionsNext]_sessionsVars

------------------------------------------------------------------------------
\* Properties.

\* Rows and calls are what they should be, and no two sessions have the same token.
SessionsTypeOK ==
  /\ now \in Time
  /\ sessions \in [Ids -> SessionRow \cup {NoSession}]
  /\ refresh \in [Ids -> Time]
  /\ answered \in [Ids -> Time]
  /\ raced \subseteq Ids
  /\ \A r, s \in Issued : r # s =>
       <<sessions[r].user, sessions[r].token>> # <<sessions[s].user, sessions[s].token>>

Promise == INSTANCE Registry WITH
  None <- NoSession,
  admits <- [s \in Ids |-> IF s \in Active THEN <<sessions[s].user, sessions[s].token>> ELSE NoSession],
  closed <- Issued \ Active

\* However refreshes, revocations, expiry marks and the clean-up overlap, sessions keep
\* what Registry promises: above all, none that has ended admits a request again.
ImplementsRegistry == Promise!RegistrySpec

\* The newest token a client was answered admits it while the session is active: only
\* refreshes that overlap can leave it with an older one.
NewestTokenAdmits ==
  \A s \in Active \ raced : sessions[s].token = answered[s]
==============================================================================
