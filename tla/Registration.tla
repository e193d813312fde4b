---------------------------- MODULE Registration ----------------------------
(***************************************************************************)
(* Users, from the code that verifies their e-mail to their removal:       *)
(* initiateRegistration, verifyEmail, completeRegistration, forgotPassword *)
(* and resetPassword of AuthService, update, remove, banUser and unbanUser *)
(* of UsersService.  What the requests do with sessions is in Sessions.    *)
(*                                                                         *)
(* Codes, users and reset tokens are sequences in the order of their       *)
(* creation.  TypeORM's save(user) writes every column of the entity but   *)
(* the password, which no query but the login's loads, as it was read.     *)
(***************************************************************************)
EXTENDS Integers, Sequences, FiniteSets

CONSTANTS
  Emails,      \* addresses
  Visitors,    \* requests under way at once
  CodeLife,    \* how long a verification code is good
  ResetLife,   \* how long a reset token is good
  LastMoment,  \* bound of the clock
  MaxRequests  \* bound on the requests

ASSUME RegistrationAssumption ==
  {CodeLife, ResetLife, LastMoment, MaxRequests} \subseteq Nat

VARIABLES
  today,       \* the clock
  codes,       \* rows of email_verifications
  users,       \* rows of users
  profiles,    \* users who have a profile
  resets,      \* rows of password_resets
  visit,       \* request -> what it does and has read
  served,      \* requests begun
  decided,     \* user -> what the last ban, unban or removal made of it (history)
  overwritten, \* users a save has written over a later commit (history)
  changed,     \* reset token -> passwords changed with it (history)
  clashed      \* e-mails for which codes or tokens were made, and tokens that were used,
               \* by overlapping requests or by one that broke off (history)

rows == <<codes, users, profiles, resets>>
pastVars == <<decided, overwritten, changed, clashed>>
registrationVars == <<today, rows, visit, served, pastVars>>

Waiting == [op |-> "idle"]
Proceed(w, c) == visit' = [visit EXCEPT ![w] = c]
Answer(w) == Proceed(w, Waiting)
Begin(w, c) == visit[w] = Waiting /\ served < MaxRequests /\ served' = served + 1 /\ Proceed(w, c)

\* findOne does not see users that were removed.
Existing == {u \in DOMAIN users : ~users[u].deleted}
Known(e) == \E u \in Existing : users[u].email = e
Good(row) == row.expires >= today

\* Another request is doing the same thing.
Overlap(w, ops, e) == \E v \in Visitors \ {w} : visit[v].op \in ops /\ visit[v].about = e

RegistrationInit ==
  /\ today = 0
  /\ codes = <<>> /\ users = <<>> /\ resets = <<>>
  /\ profiles = {}
  /\ visit = [w \in Visitors |-> Waiting]
  /\ served = 0
  /\ decided = <<>> /\ changed = <<>>
  /\ overwritten = {} /\ clashed = {}

Pass ==
  /\ today < LastMoment
  /\ today' = today + 1
  /\ UNCHANGED <<rows, visit, served, pastVars>>

------------------------------------------------------------------------------
\* initiateRegistration: the newest code of the e-mail is sent again while it is good.

CodesOf(e) == {i \in DOMAIN codes : codes[i].email = e}

NeedsCode(e) == \A i \in CodesOf(e) : ~Good(codes[i]) \/ \E j \in CodesOf(e) : j > i

Initiate(w, e) ==
  /\ ~Known(e)
  /\ NeedsCode(e)
  /\ Begin(w, [op |-> "code", about |-> e])
  /\ UNCHANGED <<today, rows, pastVars>>

InsertCode(w) ==
  LET e == visit[w].about IN
  /\ visit[w].op = "code"
  /\ codes' = Append(codes, [email |-> e, expires |-> today + CodeLife, verified |-> FALSE])
  /\ clashed' = IF Overlap(w, {"code"}, e) THEN clashed \cup {e} ELSE clashed
  /\ Answer(w)
  /\ UNCHANGED <<today, users, profiles, resets, served, decided, overwritten, changed>>

\* verifyEmail: the row is read and saved again, but nothing else ever changes it.
VerifyEmail(w, i) ==
  /\ i \in DOMAIN codes
  /\ ~codes[i].verified /\ Good(codes[i])
  /\ codes' = [codes EXCEPT ![i].verified = TRUE]
  /\ Begin(w, Waiting)
  /\ UNCHANGED <<today, users, profiles, resets, pastVars>>

\* completeRegistration: any verified code of the e-mail will do, however old.
Complete(w, e) ==
  /\ \E i \in CodesOf(e) : codes[i].verified
  /\ ~Known(e)
  /\ Begin(w, [op |-> "register", about |-> e])
  /\ UNCHANGED <<today, rows, pastVars>>

\* The column email is unique, removed users included.
Taken(e) == \E u \in DOMAIN users : users[u].email = e

InsertUser(w) ==
  LET e == visit[w].about IN
  /\ visit[w].op = "register"
  /\ \/ /\ ~Taken(e)
        /\ users' = Append(users, [email |-> e, banned |-> FALSE, deleted |-> FALSE])
        /\ decided' = Append(decided, [banned |-> FALSE, deleted |-> FALSE])
        /\ Proceed(w, [op |-> "profile", about |-> Len(users) + 1])
     \/ Taken(e) /\ Answer(w) /\ UNCHANGED <<users, decided>>
  /\ UNCHANGED <<today, codes, profiles, resets, served, overwritten, changed, clashed>>

\* Without a transaction: a failure here leaves a user who has no profile.
InsertProfile(w) ==
  /\ visit[w].op = "profile"
  /\ profiles' \in {profiles, profiles \cup {visit[w].about}}
  /\ Answer(w)
  /\ UNCHANGED <<today, codes, users, resets, served, pastVars>>

------------------------------------------------------------------------------
\* forgotPassword: a token that is good and unused is sent again.

Usable(i) == ~resets[i].used /\ Good(resets[i])

Forgot(w, u) ==
  /\ u \in Existing
  /\ \A i \in DOMAIN resets : resets[i].email = users[u].email => ~Usable(i)
  /\ Begin(w, [op |-> "token", about |-> users[u].email])
  /\ UNCHANGED <<today, rows, pastVars>>

InsertReset(w) ==
  LET e == visit[w].about IN
  /\ visit[w].op = "token"
  /\ resets' = Append(resets, [email |-> e, expires |-> today + ResetLife, used |-> FALSE])
  /\ changed' = Append(changed, 0)
  /\ clashed' = IF Overlap(w, {"token"}, e) THEN clashed \cup {e} ELSE clashed
  /\ Answer(w)
  /\ UNCHANGED <<today, codes, users, profiles, served, decided, overwritten>>

\* Faulty variant: a token that was used is good until it expires.
AcceptsUsed(i) == Good(resets[i])

Accepts(i) == Usable(i)

\* resetPassword reads the token and the user its e-mail belongs to now ...
Reset(w, i) ==
  /\ i \in DOMAIN resets
  /\ Accepts(i)
  /\ \E u \in Existing :
       /\ users[u].email = resets[i].email
       /\ Begin(w, [op |-> "reset", about |-> i, user |-> u, row |-> users[u]])
  /\ UNCHANGED <<today, rows, pastVars>>

\* save(user): a removed user is back if it was read before its removal, and so is a ban
\* or its absence.  A new e-mail may be taken.
SaveUser(u, row, base) ==
  /\ \A v \in DOMAIN users \ {u} : users[v].email # row.email
  /\ users' = [users EXCEPT ![u] = row]
  /\ overwritten' = IF users[u] # base THEN overwritten \cup {u} ELSE overwritten

SavePassword(w) ==
  LET c == visit[w] IN
  /\ c.op = "reset"
  /\ \/ /\ SaveUser(c.user, c.row, c.row)
        /\ changed' = [changed EXCEPT ![c.about] = @ + 1]
        /\ clashed' = IF Overlap(w, {"reset", "used"}, c.about) THEN clashed \cup {c.about} ELSE clashed
        /\ Proceed(w, [op |-> "used", about |-> c.about])
     \/ Answer(w) /\ UNCHANGED <<users, overwritten, changed, clashed>>
  /\ UNCHANGED <<today, codes, profiles, resets, served, decided>>

\* ... and marks the token last of all: until then it is as good as new.
MarkUsed(w) ==
  LET i == visit[w].about IN
  /\ visit[w].op = "used"
  /\ \/ /\ resets' = [resets EXCEPT ![i].used = TRUE]
        /\ clashed' = IF Overlap(w, {"reset", "used"}, i) THEN clashed \cup {i} ELSE clashed
     \/ clashed' = clashed \cup {i} /\ UNCHANGED resets
  /\ Answer(w)
  /\ UNCHANGED <<today, codes, users, profiles, served, decided, overwritten, changed>>

------------------------------------------------------------------------------
\* UsersService reads the user, and then saves it or, to remove it, marks the row.

ReadUser(w, op) ==
  /\ \E u \in Existing : Begin(w, [op |-> op, about |-> u, row |-> users[u]])
  /\ UNCHANGED <<today, rows, pastVars>>

\* Faulty variant: the flag is not written.
BannedWithout(row, b) == row

Banned(row, b) == [row EXCEPT !.banned = b]

SaveBan(w) ==
  LET c == visit[w] b == c.op = "ban" IN
  /\ c.op \in {"ban", "unban"}
  /\ SaveUser(c.about, Banned(c.row, b), c.row)
  /\ decided' = [decided EXCEPT ![c.about].banned = b]
  /\ Answer(w)
  /\ UNCHANGED <<today, codes, profiles, resets, served, changed, clashed>>

SaveUpdate(w) ==
  LET c == visit[w] IN
  /\ c.op = "update"
  /\ \/ \E e \in Emails :
          /\ e = c.row.email \/ ~Known(e)
          /\ SaveUser(c.about, [c.row EXCEPT !.email = e], c.row)
     \/ UNCHANGED <<users, overwritten>>  \* the e-mail is taken
  /\ Answer(w)
  /\ UNCHANGED <<today, codes, profiles, resets, served, decided, changed, clashed>>

SoftDelete(w) ==
  LET u == visit[w].about IN
  /\ visit[w].op = "remove"
  /\ users' = [users EXCEPT ![u].deleted = TRUE]
  /\ decided' = [decided EXCEPT ![u].deleted = TRUE]
  /\ Answer(w)
  /\ UNCHANGED <<today, codes, profiles, resets, served, overwritten, changed, clashed>>

------------------------------------------------------------------------------
RegistrationNext ==
  \/ Pass
  \/ \E w \in Visitors :
       \/ \E e \in Emails : Initiate(w, e) \/ Complete(w, e)
       \/ \E i \in DOMAIN codes : VerifyEmail(w, i)
       \/ \E u \in DOMAIN users : Forgot(w, u)
       \/ \E i \in DOMAIN resets : Reset(w, i)
       \/ \E op \in {"ban", "unban", "update", "remove"} : ReadUser(w, op)
       \/ InsertCode(w) \/ InsertUser(w) \/ InsertProfile(w) \/ InsertReset(w)
       \/ SavePassword(w) \/ MarkUsed(w)
       \/ SaveBan(w) \/ SaveUpdate(w) \/ SoftDelete(w)

RegistrationSpec == RegistrationInit /\ [][RegistrationNext]_registrationVars

------------------------------------------------------------------------------
\* Properties.

\* Rows refer to what there is, and no e-mail has two users, removed ones included.
RegistrationTypeOK ==
  /\ today \in 0 .. LastMoment
  /\ \A i \in DOMAIN codes : codes[i].email \in Emails /\ codes[i].verified \in BOOLEAN
  /\ \A i \in DOMAIN resets : resets[i].email \in Emails /\ resets[i].used \in BOOLEAN
  /\ profiles \cup overwritten \subseteq DOMAIN users
  /\ DOMAIN decided = DOMAIN users /\ DOMAIN changed = DOMAIN resets
  /\ \A u, v \in DOMAIN users : users[u].email = users[v].email => u = v

\* A user is banned, or removed, exactly if the last decision on that was to ban or remove
\* it, unless a save that had read the user before has put the row back.
OnlyOverwritingSavesUndo ==
  \A u \in DOMAIN users \ overwritten :
    decided[u] = [banned |-> users[u].banned, deleted |-> users[u].deleted]

\* A reset token changes one password.
OneResetPerToken == \A i \in DOMAIN resets \ clashed : changed[i] <= 1

\* At any time one code and one reset token of an e-mail are good.
OneGoodSecret ==
  \A e \in Emails \ clashed :
    /\ Cardinality({i \in CodesOf(e) : Good(codes[i])}) <= 1
    /\ Cardinality({i \in DOMAIN resets : resets[i].email = e /\ Usable(i)}) <= 1

\* Asking again sends the same code or token, and a token that has done its work does it no
\* more: unless requests overlapped that made two of them or used one twice, or one that had
\* changed the password could not mark its token.
SecretsWorkOnce == OneGoodSecret /\ OneResetPerToken
==============================================================================
