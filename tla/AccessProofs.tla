------------------------------ MODULE AccessProofs ------------------------------
(***************************************************************************)
(* Theorems of Registration for any number of e-mails and requests, and of *)
(* Sessions for any number of users, sessions, requests and seconds.       *)
(*                                                                         *)
(* What was decided of a user stands unless a save has overwritten it, and *)
(* a code or token works once.  Registration's inductive invariant says    *)
(* what a request that has waited may still rely on: no good code or token *)
(* of its e-mail has come up, and its token is unused, unless requests     *)
(* have overlapped.                                                        *)
(*                                                                         *)
(* Sessions keep what Registry promises, and the newest token of a session *)
(* admits.  There too the inductive invariant says what a request that has *)
(* waited still knows: its session exists and has the same user, and a     *)
(* refresh that nobody overlapped has the newest token.                    *)
(***************************************************************************)
EXTENDS Registration, Sessions, TLAPS, SequenceTheorems, FiniteSetTheorems

UserRow == [email : Emails, banned : BOOLEAN, deleted : BOOLEAN]
CodeRow == [email : Emails, expires : Nat, verified : BOOLEAN]
ResetRow == [email : Emails, expires : Nat, used : BOOLEAN]
Decision == [banned : BOOLEAN, deleted : BOOLEAN]

RowsFit ==
  /\ today \in Nat /\ today <= LastMoment
  /\ codes \in Seq(CodeRow) /\ users \in Seq(UserRow) /\ resets \in Seq(ResetRow)
  /\ decided \in Seq(Decision) /\ Len(decided) = Len(users)
  /\ changed \in Seq(Nat) /\ Len(changed) = Len(resets)
  /\ profiles \subseteq DOMAIN users /\ overwritten \subseteq DOMAIN users

EmailsAreUnique == \A u, v \in DOMAIN users : users[u].email = users[v].email => u = v

\* What a request may be doing, with what it has read.
Fits(c) ==
  /\ c.op \in {"idle", "code", "register", "profile", "token", "reset", "used",
               "ban", "unban", "update", "remove"}
  /\ c.op \in {"code", "register", "token"} => c.about \in Emails
  /\ c.op \in {"profile", "ban", "unban", "update", "remove"} => c.about \in DOMAIN users
  /\ c.op \in {"ban", "unban", "update"} => c.row \in UserRow
  /\ c.op \in {"reset", "used"} => c.about \in DOMAIN resets
  /\ c.op = "reset" => c.user \in DOMAIN users /\ c.row \in UserRow

VisitsFit == visit = [w \in Visitors |-> visit[w]] /\ \A w \in Visitors : Fits(visit[w])

\* Codes expire in the order they were made in; at most one of an e-mail is good, and none
\* while another is about to be made.
CodesTakeTurns ==
  /\ \A i, j \in DOMAIN codes : i < j => codes[i].expires <= codes[j].expires
  /\ \A i \in DOMAIN codes : codes[i].expires <= today + CodeLife
  /\ \A e \in Emails \ clashed : \A i, j \in CodesOf(e) : Good(codes[i]) /\ Good(codes[j]) => i = j
  /\ \A w \in Visitors : visit[w].op = "code" /\ visit[w].about \notin clashed =>
       \A i \in CodesOf(visit[w].about) : ~Good(codes[i])

TokensOf(e) == {i \in DOMAIN resets : resets[i].email = e}

TokensTakeTurns ==
  /\ \A e \in Emails \ clashed : \A i, j \in TokensOf(e) : Usable(i) /\ Usable(j) => i = j
  /\ \A w \in Visitors : visit[w].op = "token" /\ visit[w].about \notin clashed =>
       \A i \in TokensOf(visit[w].about) : ~Usable(i)

Using(w, i) == visit[w].op \in {"reset", "used"} /\ visit[w].about = i

\* A token has changed no password, or one, and then it is used or about to be marked.
TokensAreSpent ==
  \A i \in DOMAIN resets \ clashed :
    /\ \/ changed[i] = 0
       \/ /\ changed[i] = 1
          /\ resets[i].used \/ \E w \in Visitors : visit[w].op = "used" /\ visit[w].about = i
    /\ resets[i].used => \A w \in Visitors : ~Using(w, i)

RegistrationInv ==
  /\ RowsFit
  /\ EmailsAreUnique
  /\ VisitsFit
  /\ OnlyOverwritingSavesUndo
  /\ CodesTakeTurns
  /\ TokensTakeTurns
  /\ TokensAreSpent
------------------------------------------------------------------------------
\* Sequences.

LEMMA Elements ==
  ASSUME NEW S, NEW s \in Seq(S)
  PROVE  DOMAIN s = 1 .. Len(s) /\ Len(s) \in Nat /\ \A i \in DOMAIN s : s[i] \in S
BY ElementOfSeq, LenProperties

LEMMA Replaced ==
  ASSUME NEW S, NEW s \in Seq(S), NEW i \in DOMAIN s, NEW x \in S,
         NEW t, t = [s EXCEPT ![i] = x]
  PROVE  /\ t \in Seq(S) /\ Len(t) = Len(s) /\ DOMAIN t = DOMAIN s
         /\ t[i] = x
         /\ \A j \in DOMAIN s \ {i} : t[j] = s[j]
<1>1. i \in 1 .. Len(s)
  BY Elements
<1>2. t \in Seq(S) /\ Len(t) = Len(s)
  BY <1>1, ExceptSeq
<1> QED
  BY <1>2, Elements

LEMMA Extended ==
  ASSUME NEW S, NEW s \in Seq(S), NEW x \in S, NEW t, t = Append(s, x)
  PROVE  /\ t \in Seq(S) /\ Len(t) = Len(s) + 1 /\ DOMAIN t = DOMAIN s \cup {Len(t)}
         /\ Len(t) \notin DOMAIN s
         /\ t[Len(t)] = x
         /\ \A j \in DOMAIN s : t[j] = s[j]
<1>1. DOMAIN s = 1 .. Len(s) /\ Len(s) \in Nat
  BY Elements
<1>2. /\ t \in Seq(S) /\ Len(t) = Len(s) + 1
      /\ \A j \in 1 .. Len(s) : t[j] = s[j]
      /\ t[Len(s) + 1] = x
  BY AppendProperties
<1>3. DOMAIN t = 1 .. Len(t)
  BY <1>2, Elements
<1> QED
  BY <1>1, <1>2, <1>3
------------------------------------------------------------------------------
LEMMA RowTypes ==
  ASSUME RowsFit
  PROVE  /\ today \in Nat
         /\ \A i \in DOMAIN codes : i \in Nat /\ codes[i] \in CodeRow
         /\ \A u \in DOMAIN users : u \in Nat /\ users[u] \in UserRow
         /\ \A i \in DOMAIN resets : i \in Nat /\ resets[i] \in ResetRow
         /\ \A u \in DOMAIN users : decided[u] \in Decision
         /\ DOMAIN decided = DOMAIN users /\ DOMAIN changed = DOMAIN resets
<1>1. /\ DOMAIN codes = 1 .. Len(codes) /\ Len(codes) \in Nat
      /\ \A i \in DOMAIN codes : codes[i] \in CodeRow
  BY Elements DEF RowsFit
<1>2. /\ DOMAIN users = 1 .. Len(users) /\ Len(users) \in Nat
      /\ \A i \in DOMAIN users : users[i] \in UserRow
  BY Elements DEF RowsFit
<1>3. /\ DOMAIN resets = 1 .. Len(resets) /\ Len(resets) \in Nat
      /\ \A i \in DOMAIN resets : resets[i] \in ResetRow
  BY Elements DEF RowsFit
<1>4. DOMAIN decided = 1 .. Len(decided) /\ \A i \in DOMAIN decided : decided[i] \in Decision
  BY Elements DEF RowsFit
<1>5. DOMAIN changed = 1 .. Len(changed)
  BY Elements DEF RowsFit
<1> QED
  BY <1>1, <1>2, <1>3, <1>4, <1>5 DEF RowsFit

LEMMA RegistrationInvInitially == RegistrationInit => RegistrationInv
<1> SUFFICES ASSUME RegistrationInit PROVE RegistrationInv
  OBVIOUS
<1>1. RowsFit
  BY RegistrationAssumption DEF RegistrationInit, RowsFit
<1>2. Fits(Waiting)
  BY DEF Fits, Waiting
<1>3. VisitsFit
  BY <1>2 DEF RegistrationInit, VisitsFit
<1>4. EmailsAreUnique /\ OnlyOverwritingSavesUndo
  BY DEF RegistrationInit, EmailsAreUnique, OnlyOverwritingSavesUndo
<1>5. CodesTakeTurns /\ TokensTakeTurns /\ TokensAreSpent
  BY DEF RegistrationInit, CodesTakeTurns, TokensTakeTurns, TokensAreSpent, CodesOf, TokensOf, Waiting
<1> QED
  BY <1>1, <1>3, <1>4, <1>5 DEF RegistrationInv

LEMMA PassInv ==
  ASSUME RegistrationInv, Pass
  PROVE  RegistrationInv'
<1> USE DEF Pass, rows, pastVars
<1>0. today \in Nat /\ today' = today + 1 /\ today' <= LastMoment /\ CodeLife \in Nat /\ LastMoment \in Nat
  BY RegistrationAssumption DEF RegistrationInv, RowsFit
<1>1. /\ \A i \in DOMAIN codes : codes[i].expires \in Nat
      /\ \A i \in DOMAIN resets : resets[i].expires \in Nat
  BY RowTypes DEF RegistrationInv, CodeRow, ResetRow
<1>2. RowsFit'
  BY <1>0 DEF RegistrationInv, RowsFit
<1>3. EmailsAreUnique' /\ VisitsFit' /\ OnlyOverwritingSavesUndo' /\ TokensAreSpent'
  BY DEF RegistrationInv, EmailsAreUnique, VisitsFit, Fits, OnlyOverwritingSavesUndo, TokensAreSpent, Using
<1>4. CodesTakeTurns'
  <2>1. \A i \in DOMAIN codes : Good(codes[i])' => Good(codes[i])
    BY <1>0, <1>1 DEF Good
  <2> QED
    BY <1>0, <1>1, <2>1 DEF RegistrationInv, CodesTakeTurns, CodesOf
<1>5. TokensTakeTurns'
  <2>1. \A i \in DOMAIN resets : Usable(i)' => Usable(i)
    BY <1>0, <1>1 DEF Good, Usable
  <2> QED
    BY <2>1 DEF RegistrationInv, TokensTakeTurns, TokensOf
<1> QED
  BY <1>2, <1>3, <1>4, <1>5 DEF RegistrationInv

\* One request goes on, and the others still fit.
LEMMA VisitsAfter ==
  ASSUME RegistrationInv, NEW w \in Visitors, NEW c, Proceed(w, c), Fits(c)',
         DOMAIN users \subseteq DOMAIN users', DOMAIN resets \subseteq DOMAIN resets'
  PROVE  /\ VisitsFit'
         /\ \A v \in Visitors : visit'[v] = IF v = w THEN c ELSE visit[v]
<1>1. \A v \in Visitors : visit'[v] = IF v = w THEN c ELSE visit[v]
  BY DEF Proceed, RegistrationInv, VisitsFit
<1>2. visit' = [v \in Visitors |-> visit'[v]]
  BY DEF Proceed, RegistrationInv, VisitsFit
<1>3. ASSUME NEW v \in Visitors PROVE Fits(visit[v])'
  <2>1. PICK d : d = visit[v]
    OBVIOUS
  <2>2. Fits(d)
    BY <2>1 DEF RegistrationInv, VisitsFit
  <2>3. Fits(d)'
    BY <2>2 DEF Fits
  <2>4. visit'[v] = IF v = w THEN c ELSE d
    BY <1>1, <2>1
  <2> QED
    BY <2>3, <2>4
<1> QED
  BY <1>1, <1>2, <1>3 DEF VisitsFit

\* A request begins, or is over, and no row has changed.
LEMMA VisitStep ==
  ASSUME RegistrationInv, NEW w \in Visitors, NEW c, Proceed(w, c), UNCHANGED <<today, rows, pastVars>>,
         Fits(c), c.op # "used", visit[w].op # "used",
         c.op = "code" /\ c.about \notin clashed => \A i \in CodesOf(c.about) : ~Good(codes[i]),
         c.op = "token" /\ c.about \notin clashed => \A i \in TokensOf(c.about) : ~Usable(i),
         c.op = "reset" => ~resets[c.about].used
  PROVE  RegistrationInv'
<1> USE DEF rows, pastVars
<1>1. RowsFit' /\ EmailsAreUnique' /\ OnlyOverwritingSavesUndo'
  BY DEF RegistrationInv, RowsFit, EmailsAreUnique, OnlyOverwritingSavesUndo
<1>2. Fits(c)'
  BY DEF Fits
<1>3. VisitsFit' /\ \A v \in Visitors : visit'[v] = IF v = w THEN c ELSE visit[v]
  BY <1>2, VisitsAfter
<1>4. CodesTakeTurns'
  BY <1>3 DEF RegistrationInv, CodesTakeTurns, CodesOf, Good
<1>5. TokensTakeTurns'
  BY <1>3 DEF RegistrationInv, TokensTakeTurns, TokensOf, Usable, Good
<1>6. TokensAreSpent'
  BY <1>3 DEF RegistrationInv, TokensAreSpent, Using
<1> QED
  BY <1>1, <1>3, <1>4, <1>5, <1>6 DEF RegistrationInv

\* The requests that only read the rows, at their start.
LEMMA BeginInv ==
  ASSUME RegistrationInv, NEW w \in Visitors,
         \/ \E e \in Emails : Initiate(w, e) \/ Complete(w, e)
         \/ \E u \in DOMAIN users : Forgot(w, u)
         \/ \E i \in DOMAIN resets : Reset(w, i)
         \/ \E op \in {"ban", "unban", "update", "remove"} : ReadUser(w, op)
  PROVE  RegistrationInv'
<1>0. /\ \A u \in DOMAIN users : users[u] \in UserRow
      /\ \A i \in DOMAIN codes : codes[i].expires \in Nat
      /\ today \in Nat
  BY RowTypes DEF RegistrationInv, CodeRow
<1>1. ASSUME NEW e \in Emails, Initiate(w, e) PROVE RegistrationInv'
  <2>1. PICK c : c = [op |-> "code", about |-> e]
    OBVIOUS
  <2>2. ASSUME e \notin clashed, NEW i \in CodesOf(e), Good(codes[i]) PROVE FALSE
    <3>1. PICK j \in CodesOf(e) : j > i
      BY <1>1, <2>2 DEF Initiate, NeedsCode
    <3>2. codes[i].expires <= codes[j].expires /\ i \in DOMAIN codes /\ j \in DOMAIN codes
      BY <3>1 DEF RegistrationInv, CodesTakeTurns, CodesOf
    <3>3. Good(codes[j])
      BY <1>0, <2>2, <3>2 DEF Good
    <3>4. i = j
      BY <2>2, <3>1, <3>3 DEF RegistrationInv, CodesTakeTurns
    <3>5. i \in Nat
      BY <3>2, RowTypes DEF RegistrationInv
    <3> QED
      BY <3>1, <3>4, <3>5
  <2>3. Fits(c) /\ c.op = "code" /\ c.about = e
    BY <2>1 DEF Fits
  <2>4. Proceed(w, c) /\ visit[w].op = "idle" /\ UNCHANGED <<today, rows, pastVars>>
    BY <1>1, <2>1 DEF Initiate, Begin, Waiting
  <2> QED
    BY <2>2, <2>3, <2>4, VisitStep
<1>2. ASSUME NEW e \in Emails, Complete(w, e) PROVE RegistrationInv'
  <2>1. PICK c : c = [op |-> "register", about |-> e]
    OBVIOUS
  <2>2. Fits(c) /\ c.op = "register"
    BY <2>1 DEF Fits
  <2>3. Proceed(w, c) /\ visit[w].op = "idle" /\ UNCHANGED <<today, rows, pastVars>>
    BY <1>2, <2>1 DEF Complete, Begin, Waiting
  <2> QED
    BY <2>2, <2>3, VisitStep
<1>3. ASSUME NEW u \in DOMAIN users, Forgot(w, u) PROVE RegistrationInv'
  <2>1. PICK e : e = users[u].email
    OBVIOUS
  <2>2. PICK c : c = [op |-> "token", about |-> e]
    OBVIOUS
  <2>3. Fits(c) /\ c.op = "token" /\ c.about = e
    BY <1>0, <2>1, <2>2 DEF Fits, UserRow
  <2>4. Proceed(w, c) /\ visit[w].op = "idle" /\ UNCHANGED <<today, rows, pastVars>>
    BY <1>3, <2>1, <2>2 DEF Forgot, Begin, Waiting
  <2>5. \A i \in TokensOf(e) : ~Usable(i)
    BY <1>3, <2>1 DEF Forgot, TokensOf
  <2> QED
    BY <2>3, <2>4, <2>5, VisitStep
<1>4. ASSUME NEW i \in DOMAIN resets, Reset(w, i) PROVE RegistrationInv'
  <2>1. PICK u \in Existing : Begin(w, [op |-> "reset", about |-> i, user |-> u, row |-> users[u]])
    BY <1>4 DEF Reset
  <2>2. PICK c : c = [op |-> "reset", about |-> i, user |-> u, row |-> users[u]]
    OBVIOUS
  <2>3. Fits(c) /\ c.op = "reset" /\ c.about = i
    BY <1>0, <2>2 DEF Fits, Existing
  <2>4. Proceed(w, c) /\ visit[w].op = "idle" /\ UNCHANGED <<today, rows, pastVars>>
    BY <1>4, <2>1, <2>2 DEF Reset, Begin, Waiting
  <2>5. ~resets[i].used
    BY <1>4 DEF Reset, Accepts, Usable
  <2> QED
    BY <2>3, <2>4, <2>5, VisitStep
<1>5. ASSUME NEW op \in {"ban", "unban", "update", "remove"}, ReadUser(w, op) PROVE RegistrationInv'
  <2>1. PICK u \in Existing : Begin(w, [op |-> op, about |-> u, row |-> users[u]])
    BY <1>5 DEF ReadUser
  <2>2. PICK c : c = [op |-> op, about |-> u, row |-> users[u]]
    OBVIOUS
  <2>3. Fits(c) /\ c.op = op
    BY <1>0, <2>2 DEF Fits, Existing
  <2>4. Proceed(w, c) /\ visit[w].op = "idle" /\ UNCHANGED <<today, rows, pastVars>>
    BY <1>5, <2>1, <2>2 DEF ReadUser, Begin, Waiting
  <2> QED
    BY <2>3, <2>4, VisitStep
<1> QED
  BY <1>1, <1>2, <1>3, <1>4, <1>5

\* What is no secret's business leaves codes and tokens as they were.
LEMMA SecretsKept ==
  ASSUME RegistrationInv, NEW w \in Visitors, NEW c, Proceed(w, c),
         UNCHANGED <<today, codes, resets, changed, clashed>>,
         Fits(c)', c.op \notin {"code", "token", "reset", "used"}, visit[w].op # "used",
         DOMAIN users \subseteq DOMAIN users'
  PROVE  VisitsFit' /\ CodesTakeTurns' /\ TokensTakeTurns' /\ TokensAreSpent'
<1>1. VisitsFit' /\ \A v \in Visitors : visit'[v] = IF v = w THEN c ELSE visit[v]
  BY VisitsAfter
<1>2. CodesTakeTurns'
  BY <1>1 DEF RegistrationInv, CodesTakeTurns, CodesOf, Good
<1>3. TokensTakeTurns'
  BY <1>1 DEF RegistrationInv, TokensTakeTurns, TokensOf, Usable, Good
<1>4. TokensAreSpent'
  BY <1>1 DEF RegistrationInv, TokensAreSpent, Using
<1> QED
  BY <1>1, <1>2, <1>3, <1>4

\* save(user): if nobody has written the row since it was read, the decisions stand.
LEMMA SaveUserKeeps ==
  ASSUME RegistrationInv, NEW u \in DOMAIN users, NEW row \in UserRow, NEW base,
         SaveUser(u, row, base), NEW d \in Decision, decided' = [decided EXCEPT ![u] = d],
         users[u] = base /\ decided[u] = [banned |-> base.banned, deleted |-> base.deleted]
           => d = [banned |-> row.banned, deleted |-> row.deleted],
         UNCHANGED <<today, codes, profiles, resets>>,
         UNCHANGED changed \/ (changed' \in Seq(Nat) /\ Len(changed') = Len(changed))
  PROVE  /\ RowsFit' /\ EmailsAreUnique' /\ OnlyOverwritingSavesUndo'
         /\ DOMAIN users' = DOMAIN users
<1>1. RowsFit
  BY DEF RegistrationInv
<1>2. /\ users' \in Seq(UserRow) /\ Len(users') = Len(users) /\ DOMAIN users' = DOMAIN users
      /\ users'[u] = row /\ \A v \in DOMAIN users \ {u} : users'[v] = users[v]
  <2>1. users \in Seq(UserRow) /\ users' = [users EXCEPT ![u] = row]
    BY <1>1 DEF RowsFit, SaveUser
  <2> QED
    BY <2>1, Replaced
<1>3. /\ decided' \in Seq(Decision) /\ Len(decided') = Len(decided)
      /\ decided'[u] = d /\ \A v \in DOMAIN users \ {u} : decided'[v] = decided[v]
  <2>1. decided \in Seq(Decision) /\ u \in DOMAIN decided /\ DOMAIN decided = DOMAIN users
    BY <1>1, RowTypes DEF RowsFit
  <2> QED
    BY <2>1, Replaced
<1>4. overwritten' = IF users[u] # base THEN overwritten \cup {u} ELSE overwritten
  BY DEF SaveUser
<1>5. RowsFit'
  BY <1>1, <1>2, <1>3, <1>4 DEF RowsFit
<1>6. EmailsAreUnique'
  BY <1>2 DEF RegistrationInv, EmailsAreUnique, SaveUser
<1>7. OnlyOverwritingSavesUndo'
  <2>1. ASSUME NEW v \in DOMAIN users', v \notin overwritten'
        PROVE  decided'[v] = [banned |-> users'[v].banned, deleted |-> users'[v].deleted]
    <3>1. v \in DOMAIN users /\ v \notin overwritten
      BY <1>2, <1>4, <2>1
    <3>2. decided[v] = [banned |-> users[v].banned, deleted |-> users[v].deleted]
      BY <3>1 DEF RegistrationInv, OnlyOverwritingSavesUndo
    <3>3. CASE v # u
      BY <1>2, <1>3, <3>1, <3>2, <3>3
    <3>4. CASE v = u
      <4>1. users[u] = base
        BY <1>4, <2>1, <3>4
      <4>2. d = [banned |-> row.banned, deleted |-> row.deleted]
        BY <3>2, <3>4, <4>1, Zenon
      <4> QED
        BY <1>2, <1>3, <3>4, <4>2, Zenon
    <3> QED
      BY <3>3, <3>4
  <2> QED
    BY <2>1 DEF OnlyOverwritingSavesUndo
<1> QED
  BY <1>2, <1>5, <1>6, <1>7

LEMMA WaitingFits == Fits(Waiting) /\ Fits(Waiting)' /\ Waiting.op = "idle"
BY DEF Fits, Waiting

LEMMA InsertUserInv ==
  ASSUME RegistrationInv, NEW w \in Visitors, InsertUser(w)
  PROVE  RegistrationInv'
<1>0. PICK e : e = visit[w].about
  OBVIOUS
<1>1. /\ visit[w].op = "register" /\ e \in Emails
      /\ UNCHANGED <<today, codes, profiles, resets, overwritten, changed, clashed>>
  BY <1>0 DEF InsertUser, RegistrationInv, VisitsFit, Fits
<1>2. RowsFit
  BY DEF RegistrationInv
<1>3. CASE /\ ~Taken(e)
           /\ users' = Append(users, [email |-> e, banned |-> FALSE, deleted |-> FALSE])
           /\ decided' = Append(decided, [banned |-> FALSE, deleted |-> FALSE])
           /\ Proceed(w, [op |-> "profile", about |-> Len(users) + 1])
  <2>1. PICK row, d : /\ row = [email |-> e, banned |-> FALSE, deleted |-> FALSE]
                      /\ d = [banned |-> FALSE, deleted |-> FALSE]
    OBVIOUS
  <2>2. row \in UserRow /\ d \in Decision /\ row.email = e /\ d = [banned |-> row.banned, deleted |-> row.deleted]
    BY <1>1, <2>1 DEF UserRow, Decision
  <2>3. users \in Seq(UserRow) /\ decided \in Seq(Decision) /\ Len(decided) = Len(users)
    BY <1>2 DEF RowsFit
  <2>4. PICK n : n = Len(users')
    OBVIOUS
  <2>5. /\ users' \in Seq(UserRow) /\ n = Len(users) + 1 /\ DOMAIN users' = DOMAIN users \cup {n}
        /\ n \notin DOMAIN users /\ users'[n] = row /\ \A u \in DOMAIN users : users'[u] = users[u]
    BY <1>3, <2>1, <2>2, <2>3, <2>4, Extended
  <2>6. /\ decided' \in Seq(Decision) /\ Len(decided') = Len(decided) + 1 
        /\ decided'[Len(decided')] = d /\ \A u \in DOMAIN decided : decided'[u] = decided[u]
    BY <1>3, <2>1, <2>2, <2>3, Extended
  <2>7. decided'[n] = d /\ \A u \in DOMAIN users : decided'[u] = decided[u]
    BY <1>2, <2>3, <2>5, <2>6, RowTypes
  <2>8. RowsFit'
    <3>1. (profiles \subseteq DOMAIN users /\ overwritten \subseteq DOMAIN users)'
      BY <1>1, <1>2, <2>5 DEF RowsFit
    <3>2. (Len(decided) = Len(users))'
      BY <2>3, <2>4, <2>5, <2>6
    <3> QED
      BY <1>1, <1>2, <2>5, <2>6, <3>1, <3>2 DEF RowsFit
  <2>9. EmailsAreUnique'
    BY <1>3, <2>2, <2>5 DEF RegistrationInv, EmailsAreUnique, Taken
  <2>10. OnlyOverwritingSavesUndo'
    BY <1>1, <2>2, <2>5, <2>7 DEF RegistrationInv, OnlyOverwritingSavesUndo
  <2>11. PICK c : c = [op |-> "profile", about |-> n]
    OBVIOUS
  <2>12. Proceed(w, c) /\ c.op = "profile" /\ Fits(c)'
    BY <1>3, <2>5, <2>11 DEF Fits
  <2>13. VisitsFit' /\ CodesTakeTurns' /\ TokensTakeTurns' /\ TokensAreSpent'
    BY <1>1, <2>5, <2>12, SecretsKept
  <2> QED
    BY <2>8, <2>9, <2>10, <2>13 DEF RegistrationInv
<1>4. CASE Taken(e) /\ Answer(w) /\ UNCHANGED <<users, decided>>
  BY <1>1, <1>4, WaitingFits, VisitStep DEF Answer, rows, pastVars
<1> QED
  BY <1>0, <1>3, <1>4 DEF InsertUser

LEMMA InsertProfileInv ==
  ASSUME RegistrationInv, NEW w \in Visitors, InsertProfile(w)
  PROVE  RegistrationInv'
<1>1. /\ visit[w].op = "profile" /\ visit[w].about \in DOMAIN users /\ Proceed(w, Waiting)
      /\ UNCHANGED <<today, codes, users, resets, decided, overwritten, changed, clashed>>
  BY DEF InsertProfile, Answer, pastVars, RegistrationInv, VisitsFit, Fits
<1>2. RowsFit' /\ EmailsAreUnique' /\ OnlyOverwritingSavesUndo'
  BY <1>1 DEF InsertProfile, RegistrationInv, RowsFit, EmailsAreUnique, OnlyOverwritingSavesUndo
<1>3. VisitsFit' /\ CodesTakeTurns' /\ TokensTakeTurns' /\ TokensAreSpent'
  BY <1>1, WaitingFits, SecretsKept
<1> QED
  BY <1>2, <1>3 DEF RegistrationInv

LEMMA SaveBanInv ==
  ASSUME RegistrationInv, NEW w \in Visitors, SaveBan(w)
  PROVE  RegistrationInv'
<1>0. PICK u, base : u = visit[w].about /\ base = visit[w].row
  OBVIOUS
<1>1. PICK b \in BOOLEAN : b = (visit[w].op = "ban")
  OBVIOUS
<1>2. /\ visit[w].op \in {"ban", "unban"} /\ u \in DOMAIN users /\ base \in UserRow /\ Proceed(w, Waiting)
      /\ UNCHANGED <<today, codes, profiles, resets, changed, clashed>>
  BY <1>0 DEF SaveBan, Answer, RegistrationInv, VisitsFit, Fits
<1>3. /\ SaveUser(u, [base EXCEPT !.banned = b], base)
      /\ decided' = [decided EXCEPT ![u].banned = b]
  BY <1>0, <1>1 DEF SaveBan, Banned
<1>4. PICK row : row = [base EXCEPT !.banned = b]
  OBVIOUS
<1>5. row \in UserRow /\ row.banned = b /\ row.deleted = base.deleted
  BY <1>2, <1>4 DEF UserRow
<1>6. decided[u] \in Decision
  BY <1>2, RowTypes DEF RegistrationInv
<1>7. PICK d : d = [decided[u] EXCEPT !.banned = b]
  OBVIOUS
<1>8. d \in Decision /\ d.banned = b /\ d.deleted = decided[u].deleted
      /\ d = [banned |-> d.banned, deleted |-> d.deleted]
  BY <1>6, <1>7 DEF Decision
<1>9. /\ RowsFit' /\ EmailsAreUnique' /\ OnlyOverwritingSavesUndo'
      /\ DOMAIN users' = DOMAIN users
  <2>1. decided' = [decided EXCEPT ![u] = d]
    BY <1>3, <1>7
  <2>2. users[u] = base /\ decided[u] = [banned |-> base.banned, deleted |-> base.deleted]
          => d = [banned |-> row.banned, deleted |-> row.deleted]
    BY <1>5, <1>8
  <2>3. SaveUser(u, row, base)
    BY <1>3, <1>4, Zenon
  <2>4. UNCHANGED <<today, codes, profiles, resets>> /\ UNCHANGED changed
    BY <1>2
  <2> QED
    BY <1>2, <1>5, <1>8, <2>1, <2>2, <2>3, <2>4, SaveUserKeeps, Zenon
<1>10. VisitsFit' /\ CodesTakeTurns' /\ TokensTakeTurns' /\ TokensAreSpent'
  BY <1>2, <1>9, WaitingFits, SecretsKept
<1> QED
  BY <1>9, <1>10 DEF RegistrationInv

LEMMA SaveUpdateInv ==
  ASSUME RegistrationInv, NEW w \in Visitors, SaveUpdate(w)
  PROVE  RegistrationInv'
<1>0. PICK u, base : u = visit[w].about /\ base = visit[w].row
  OBVIOUS
<1>1. /\ visit[w].op = "update" /\ u \in DOMAIN users /\ base \in UserRow /\ Proceed(w, Waiting)
      /\ UNCHANGED <<today, codes, profiles, resets, decided, changed, clashed>>
  BY <1>0 DEF SaveUpdate, Answer, RegistrationInv, VisitsFit, Fits
<1>2. ASSUME NEW e \in Emails, SaveUser(u, [base EXCEPT !.email = e], base) PROVE RegistrationInv'
  <2>1. PICK row : row = [base EXCEPT !.email = e]
    OBVIOUS
  <2>2. row \in UserRow /\ row.banned = base.banned /\ row.deleted = base.deleted
    BY <1>1, <2>1 DEF UserRow
  <2>3. PICK d : d = decided[u]
    OBVIOUS
  <2>4. d \in Decision /\ decided' = [decided EXCEPT ![u] = d]
    BY <1>1, <2>3, RowTypes DEF RegistrationInv, RowsFit
  <2>5. /\ RowsFit' /\ EmailsAreUnique' /\ OnlyOverwritingSavesUndo'
        /\ DOMAIN users' = DOMAIN users
    <3>1. SaveUser(u, row, base)
      BY <1>2, <2>1, Zenon
    <3>2. UNCHANGED <<today, codes, profiles, resets>> /\ UNCHANGED changed
      BY <1>1
    <3>3. users[u] = base /\ decided[u] = [banned |-> base.banned, deleted |-> base.deleted]
            => d = [banned |-> row.banned, deleted |-> row.deleted]
      BY <2>2, <2>3, Zenon
    <3> QED
      BY <1>1, <2>2, <2>4, <3>1, <3>2, <3>3, SaveUserKeeps, Zenon
  <2>6. VisitsFit' /\ CodesTakeTurns' /\ TokensTakeTurns' /\ TokensAreSpent'
    BY <1>1, <2>5, WaitingFits, SecretsKept
  <2> QED
    BY <2>5, <2>6 DEF RegistrationInv
<1>3. CASE UNCHANGED <<users, overwritten>>
  BY <1>1, <1>3, WaitingFits, VisitStep DEF rows, pastVars
<1> QED
  BY <1>0, <1>2, <1>3 DEF SaveUpdate

LEMMA SoftDeleteInv ==
  ASSUME RegistrationInv, NEW w \in Visitors, SoftDelete(w)
  PROVE  RegistrationInv'
<1>0. PICK u : u = visit[w].about
  OBVIOUS
<1>1. /\ visit[w].op = "remove" /\ u \in DOMAIN users /\ Proceed(w, Waiting)
      /\ UNCHANGED <<today, codes, profiles, resets, overwritten, changed, clashed>>
      /\ users' = [users EXCEPT ![u].deleted = TRUE]
      /\ decided' = [decided EXCEPT ![u].deleted = TRUE]
  BY <1>0 DEF SoftDelete, Answer, RegistrationInv, VisitsFit, Fits
<1>2. RowsFit
  BY DEF RegistrationInv
<1>3. users[u] \in UserRow /\ decided[u] \in Decision /\ DOMAIN decided = DOMAIN users
  BY <1>1, <1>2, RowTypes
<1>4. PICK row, d : row = [users[u] EXCEPT !.deleted = TRUE] /\ d = [decided[u] EXCEPT !.deleted = TRUE]
  OBVIOUS
<1>5. /\ row \in UserRow /\ row.email = users[u].email /\ row.banned = users[u].banned /\ row.deleted = TRUE
      /\ d \in Decision /\ d.banned = decided[u].banned /\ d.deleted = TRUE
      /\ d = [banned |-> d.banned, deleted |-> d.deleted]
  BY <1>3, <1>4 DEF UserRow, Decision
<1>6. /\ users' \in Seq(UserRow) /\ Len(users') = Len(users) /\ DOMAIN users' = DOMAIN users
      /\ users'[u] = row /\ \A v \in DOMAIN users \ {u} : users'[v] = users[v]
  <2>1. /\ users \in Seq(UserRow) /\ users' = [users EXCEPT ![u] = row] /\ row \in UserRow
        /\ u \in DOMAIN users
    BY <1>1, <1>2, <1>4, <1>5 DEF RowsFit
  <2> QED
    BY <2>1, Replaced
<1>7. /\ decided' \in Seq(Decision) /\ Len(decided') = Len(decided)
      /\ decided'[u] = d /\ \A v \in DOMAIN users \ {u} : decided'[v] = decided[v]
  <2>1. decided \in Seq(Decision) /\ u \in DOMAIN decided /\ decided' = [decided EXCEPT ![u] = d]
        /\ d \in Decision
    BY <1>1, <1>2, <1>3, <1>4, <1>5 DEF RowsFit
  <2> QED
    BY <1>3, <2>1, Replaced
<1>8. RowsFit'
  BY <1>1, <1>2, <1>6, <1>7 DEF RowsFit
<1>9. EmailsAreUnique'
  <2>1. \A v \in DOMAIN users : users'[v].email = users[v].email
    BY <1>5, <1>6
  <2> QED
    BY <1>6, <2>1 DEF RegistrationInv, EmailsAreUnique
<1>10. OnlyOverwritingSavesUndo'
  <2>1. ASSUME NEW v \in DOMAIN users', v \notin overwritten'
        PROVE  decided'[v] = [banned |-> users'[v].banned, deleted |-> users'[v].deleted]
    <3>1. v \in DOMAIN users /\ v \notin overwritten
      BY <1>1, <1>6, <2>1
    <3>2. decided[v] = [banned |-> users[v].banned, deleted |-> users[v].deleted]
      BY <3>1 DEF RegistrationInv, OnlyOverwritingSavesUndo
    <3>3. CASE v # u
      BY <1>6, <1>7, <3>1, <3>2, <3>3
    <3>4. CASE v = u
      <4>1. decided[u].banned = users[u].banned
        BY <3>2, <3>4
      <4> QED
        BY <1>5, <1>6, <1>7, <3>4, <4>1, Zenon
    <3> QED
      BY <3>3, <3>4
  <2> QED
    BY <2>1 DEF OnlyOverwritingSavesUndo
<1>11. VisitsFit' /\ CodesTakeTurns' /\ TokensTakeTurns' /\ TokensAreSpent'
  BY <1>1, <1>6, WaitingFits, SecretsKept
<1> QED
  BY <1>8, <1>9, <1>10, <1>11 DEF RegistrationInv

LEMMA InsertCodeInv ==
  ASSUME RegistrationInv, NEW w \in Visitors, InsertCode(w)
  PROVE  RegistrationInv'
<1>0. PICK e, row : /\ e = visit[w].about
                    /\ row = [email |-> e, expires |-> today + CodeLife, verified |-> FALSE]
  OBVIOUS
<1>1. /\ visit[w].op = "code" /\ e \in Emails /\ Proceed(w, Waiting) /\ codes' = Append(codes, row)
      /\ clashed' = IF Overlap(w, {"code"}, e) THEN clashed \cup {e} ELSE clashed
      /\ UNCHANGED <<today, users, profiles, resets, decided, overwritten, changed>>
  BY <1>0 DEF InsertCode, Answer, RegistrationInv, VisitsFit, Fits
<1>2. RowsFit /\ CodeLife \in Nat /\ today \in Nat
  BY RegistrationAssumption DEF RegistrationInv, RowsFit
<1>3. row \in CodeRow /\ row.email = e /\ row.expires = today + CodeLife
  BY <1>0, <1>1, <1>2 DEF CodeRow
<1>4. PICK n : n = Len(codes')
  OBVIOUS
<1>5. /\ codes' \in Seq(CodeRow) /\ DOMAIN codes' = DOMAIN codes \cup {n} /\ n \notin DOMAIN codes
      /\ codes'[n] = row /\ \A i \in DOMAIN codes : codes'[i] = codes[i]
  <2>1. codes \in Seq(CodeRow) /\ row \in CodeRow /\ codes' = Append(codes, row)
    BY <1>1, <1>2, <1>3 DEF RowsFit
  <2> QED
    BY <1>4, <2>1, Extended
<1>6. \A i \in DOMAIN codes : i < n
  <2>1. DOMAIN codes = 1 .. Len(codes) /\ Len(codes) \in Nat /\ DOMAIN codes' = 1 .. Len(codes')
    BY <1>2, <1>5, Elements DEF RowsFit
  <2> QED
    BY <1>4, <1>5, <2>1
<1>7. RowsFit'
  BY <1>1, <1>2, <1>5 DEF RowsFit
<1>8. EmailsAreUnique' /\ OnlyOverwritingSavesUndo'
  BY <1>1 DEF RegistrationInv, EmailsAreUnique, OnlyOverwritingSavesUndo
<1>9. VisitsFit' /\ \A v \in Visitors : visit'[v] = IF v = w THEN Waiting ELSE visit[v]
  BY <1>1, WaitingFits, VisitsAfter
<1>10. clashed \subseteq clashed'
  BY <1>1
<1>11. TokensTakeTurns'
  BY <1>1, <1>9, <1>10, WaitingFits DEF RegistrationInv, TokensTakeTurns, TokensOf, Usable, Good
<1>12. TokensAreSpent'
  BY <1>1, <1>9, <1>10, WaitingFits DEF RegistrationInv, TokensAreSpent, Using
<1>13. CodesTakeTurns'
  <2>0. \A i \in DOMAIN codes : codes[i] \in CodeRow /\ codes[i].expires \in Nat /\ i \in Nat
    BY <1>2, RowTypes DEF CodeRow
  <2>1. ASSUME NEW i \in DOMAIN codes', NEW j \in DOMAIN codes', i < j
        PROVE  codes'[i].expires <= codes'[j].expires
    <3>1. i \in DOMAIN codes
      <4>1. DOMAIN codes' = 1 .. n
        BY <1>4, <1>5, Elements
      <4>2. n \in Nat
        BY <1>4, <1>5, Elements
      <4> QED
        BY <1>5, <2>1, <4>1, <4>2
    <3>2. CASE j = n
      BY <1>2, <1>3, <1>5, <3>1, <3>2 DEF RegistrationInv, CodesTakeTurns
    <3>3. CASE j # n
      BY <1>5, <2>1, <3>1, <3>3 DEF RegistrationInv, CodesTakeTurns
    <3> QED
      BY <3>2, <3>3
  <2>2. \A i \in DOMAIN codes' : codes'[i].expires <= today' + CodeLife
    BY <1>1, <1>2, <1>3, <1>5 DEF RegistrationInv, CodesTakeTurns
  <2>3. \A f \in Emails \ {e} : CodesOf(f)' = CodesOf(f)
    BY <1>3, <1>5 DEF CodesOf
  <2>4. CodesOf(e)' = CodesOf(e) \cup {n}
    BY <1>3, <1>5 DEF CodesOf
  <2>5. \A i \in DOMAIN codes : Good(codes[i])' <=> Good(codes[i])
    BY <1>1, <1>5 DEF Good
  <2>6. e \notin clashed' => \A i \in CodesOf(e) : ~Good(codes[i])
    BY <1>0, <1>1, <1>10 DEF RegistrationInv, CodesTakeTurns
  <2>7. \A f \in Emails : CodesOf(f) \subseteq DOMAIN codes
    BY DEF CodesOf
  <2>8. ASSUME NEW f \in Emails \ clashed', NEW i \in CodesOf(f)', NEW j \in CodesOf(f)',
               Good(codes[i])', Good(codes[j])'
        PROVE  i = j
    <3>1. CASE f = e
      BY <1>1, <2>4, <2>5, <2>6, <2>7, <2>8, <3>1
    <3>2. CASE f # e
      BY <1>10, <2>3, <2>5, <2>7, <2>8, <3>2 DEF RegistrationInv, CodesTakeTurns
    <3> QED
      BY <3>1, <3>2
  <2>9. ASSUME NEW v \in Visitors, visit'[v].op = "code", visit'[v].about \notin clashed',
               NEW i \in CodesOf(visit[v].about)'
        PROVE  ~Good(codes[i])'
    <3>1. v # w /\ visit'[v] = visit[v]
      BY <1>9, <2>9, WaitingFits
    <3>2. PICK f : f = visit[v].about
      OBVIOUS
    <3>3. f \in Emails
      BY <2>9, <3>1, <3>2 DEF RegistrationInv, VisitsFit, Fits
    <3>4. f # e
      BY <1>1, <2>9, <3>1, <3>2 DEF Overlap
    <3>5. i \in CodesOf(f)
      BY <2>3, <2>9, <3>1, <3>2, <3>3, <3>4
    <3>6. ~Good(codes[i])
      BY <1>10, <2>9, <3>1, <3>2, <3>5 DEF RegistrationInv, CodesTakeTurns
    <3> QED
      BY <2>5, <2>7, <3>3, <3>5, <3>6
  <2> QED
    BY <2>1, <2>2, <2>8, <2>9 DEF CodesTakeTurns
<1> QED
  BY <1>7, <1>8, <1>9, <1>11, <1>12, <1>13 DEF RegistrationInv

LEMMA VerifyEmailInv ==
  ASSUME RegistrationInv, NEW w \in Visitors, NEW i \in DOMAIN codes, VerifyEmail(w, i)
  PROVE  RegistrationInv'
<1>1. /\ Proceed(w, Waiting) /\ visit[w].op = "idle"
      /\ codes' = [codes EXCEPT ![i].verified = TRUE]
      /\ UNCHANGED <<today, users, profiles, resets, decided, overwritten, changed, clashed>>
  BY DEF VerifyEmail, Begin, pastVars, Waiting
<1>2. RowsFit
  BY DEF RegistrationInv
<1>3. PICK row : row = [codes[i] EXCEPT !.verified = TRUE]
  OBVIOUS
<1>4. row \in CodeRow /\ row.email = codes[i].email /\ row.expires = codes[i].expires
  <2>1. codes[i] \in CodeRow
    BY <1>2, RowTypes
  <2> QED
    BY <1>3, <2>1 DEF CodeRow
<1>5. /\ codes' \in Seq(CodeRow) /\ DOMAIN codes' = DOMAIN codes
      /\ codes'[i] = row /\ \A j \in DOMAIN codes \ {i} : codes'[j] = codes[j]
  <2>1. codes \in Seq(CodeRow) /\ row \in CodeRow /\ codes' = [codes EXCEPT ![i] = row]
    BY <1>1, <1>2, <1>3, <1>4 DEF RowsFit
  <2> QED
    BY <2>1, Replaced
<1>6. /\ DOMAIN codes' = DOMAIN codes
      /\ \A j \in DOMAIN codes : codes'[j].email = codes[j].email /\ codes'[j].expires = codes[j].expires
  BY <1>4, <1>5
<1>7. RowsFit'
  BY <1>1, <1>2, <1>5 DEF RowsFit
<1>8. EmailsAreUnique' /\ OnlyOverwritingSavesUndo'
  BY <1>1 DEF RegistrationInv, EmailsAreUnique, OnlyOverwritingSavesUndo
<1>9. VisitsFit' /\ \A v \in Visitors : visit'[v] = IF v = w THEN Waiting ELSE visit[v]
  BY <1>1, WaitingFits, VisitsAfter
<1>10. CodesTakeTurns'
  <2>1. \A e : CodesOf(e)' = CodesOf(e)
    BY <1>6 DEF CodesOf
  <2>2. \A j \in DOMAIN codes : Good(codes[j])' <=> Good(codes[j])
    BY <1>1, <1>6 DEF Good
  <2>3. \A e : CodesOf(e) \subseteq DOMAIN codes
    BY DEF CodesOf
  <2>4. \A v \in Visitors : visit'[v].op = "code" => visit'[v] = visit[v]
    BY <1>9, WaitingFits
  <2>5. /\ \A j, k \in DOMAIN codes' : j < k => codes'[j].expires <= codes'[k].expires
        /\ \A j \in DOMAIN codes' : codes'[j].expires <= today' + CodeLife
    BY <1>1, <1>6 DEF RegistrationInv, CodesTakeTurns
  <2>6. \A e \in Emails \ clashed' : \A j, k \in CodesOf(e)' : Good(codes[j])' /\ Good(codes[k])' => j = k
    BY <1>1, <2>1, <2>2, <2>3 DEF RegistrationInv, CodesTakeTurns
  <2>7. ASSUME NEW v \in Visitors, visit'[v].op = "code", visit'[v].about \notin clashed',
               NEW j \in CodesOf(visit[v].about)'
        PROVE  ~Good(codes[j])'
    <3>1. visit'[v] = visit[v] /\ j \in CodesOf(visit[v].about)
      BY <2>1, <2>4, <2>7
    <3>2. ~Good(codes[j])
      BY <1>1, <2>7, <3>1 DEF RegistrationInv, CodesTakeTurns
    <3> QED
      BY <2>2, <2>3, <3>1, <3>2
  <2> QED
    BY <2>5, <2>6, <2>7 DEF CodesTakeTurns
<1>11. TokensTakeTurns'
  BY <1>1, <1>9, WaitingFits DEF RegistrationInv, TokensTakeTurns, TokensOf, Usable, Good
<1>12. TokensAreSpent'
  BY <1>1, <1>9, WaitingFits DEF RegistrationInv, TokensAreSpent, Using
<1> QED
  BY <1>7, <1>8, <1>9, <1>10, <1>11, <1>12 DEF RegistrationInv

LEMMA InsertResetInv ==
  ASSUME RegistrationInv, NEW w \in Visitors, InsertReset(w)
  PROVE  RegistrationInv'
<1>0. PICK e, row : /\ e = visit[w].about
                    /\ row = [email |-> e, expires |-> today + ResetLife, used |-> FALSE]
  OBVIOUS
<1>1. /\ visit[w].op = "token" /\ e \in Emails /\ Proceed(w, Waiting)
      /\ resets' = Append(resets, row) /\ changed' = Append(changed, 0)
      /\ clashed' = IF Overlap(w, {"token"}, e) THEN clashed \cup {e} ELSE clashed
      /\ UNCHANGED <<today, codes, users, profiles, decided, overwritten>>
  BY <1>0 DEF InsertReset, Answer, RegistrationInv, VisitsFit, Fits
<1>2. RowsFit /\ ResetLife \in Nat /\ today \in Nat
  BY RegistrationAssumption DEF RegistrationInv, RowsFit
<1>3. row \in ResetRow /\ row.email = e /\ row.used = FALSE
  BY <1>0, <1>1, <1>2 DEF ResetRow
<1>4. PICK n : n = Len(resets')
  OBVIOUS
<1>5. /\ resets' \in Seq(ResetRow) /\ DOMAIN resets' = DOMAIN resets \cup {n} /\ n \notin DOMAIN resets
      /\ resets'[n] = row /\ (\A i \in DOMAIN resets : resets'[i] = resets[i])
      /\ n = Len(resets) + 1
  <2>1. resets \in Seq(ResetRow) /\ row \in ResetRow /\ resets' = Append(resets, row)
    BY <1>1, <1>2, <1>3 DEF RowsFit
  <2> QED
    BY <1>4, <2>1, Extended
<1>6. /\ changed' \in Seq(Nat) /\ Len(changed') = n
      /\ changed'[n] = 0 /\ (\A i \in DOMAIN resets : changed'[i] = changed[i])
  <2>1. changed \in Seq(Nat) /\ 0 \in Nat /\ changed' = Append(changed, 0) /\ Len(changed) = Len(resets)
    BY <1>1, <1>2 DEF RowsFit
  <2>2. /\ changed' \in Seq(Nat) /\ Len(changed') = Len(changed) + 1
        /\ changed'[Len(changed')] = 0 /\ (\A i \in DOMAIN changed : changed'[i] = changed[i])
    BY <2>1, Extended
  <2>3. DOMAIN changed = DOMAIN resets
    BY <1>2, RowTypes
  <2> QED
    BY <1>5, <2>1, <2>2, <2>3
<1>7. RowsFit'
  BY <1>1, <1>2, <1>4, <1>5, <1>6 DEF RowsFit
<1>8. EmailsAreUnique' /\ OnlyOverwritingSavesUndo'
  BY <1>1 DEF RegistrationInv, EmailsAreUnique, OnlyOverwritingSavesUndo
<1>9. VisitsFit' /\ \A v \in Visitors : visit'[v] = IF v = w THEN Waiting ELSE visit[v]
  BY <1>1, <1>5, WaitingFits, VisitsAfter
<1>10. clashed \subseteq clashed'
  BY <1>1
<1>11. CodesTakeTurns'
  BY <1>1, <1>9, <1>10, WaitingFits DEF RegistrationInv, CodesTakeTurns, CodesOf, Good
<1>12. TokensAreSpent'
  <2>1. \A v \in Visitors : \A i : Using(v, i)' => Using(v, i)
    BY <1>9, WaitingFits DEF Using
  <2>2. \A v \in Visitors : visit[v].op = "used" => visit'[v] = visit[v]
    BY <1>1, <1>9
  <2>3. ASSUME NEW i \in DOMAIN resets' \ clashed'
        PROVE  /\ \/ changed'[i] = 0
                  \/ /\ changed'[i] = 1
                     /\ resets'[i].used \/ \E v \in Visitors : visit'[v].op = "used" /\ visit'[v].about = i
               /\ resets'[i].used => \A v \in Visitors : ~Using(v, i)'
    <3>1. CASE i = n
      BY <1>3, <1>5, <1>6, <3>1
    <3>2. CASE i # n
      <4>1. i \in DOMAIN resets \ clashed /\ resets'[i] = resets[i] /\ changed'[i] = changed[i]
        BY <1>5, <1>6, <1>10, <2>3, <3>2
      <4>2. /\ \/ changed[i] = 0
               \/ /\ changed[i] = 1
                  /\ resets[i].used \/ \E v \in Visitors : visit[v].op = "used" /\ visit[v].about = i
            /\ resets[i].used => \A v \in Visitors : ~Using(v, i)
        BY <4>1 DEF RegistrationInv, TokensAreSpent
      <4> QED
        BY <2>1, <2>2, <4>1, <4>2
    <3> QED
      BY <3>1, <3>2
  <2> QED
    BY <2>3 DEF TokensAreSpent
<1>13. TokensTakeTurns'
  <2>3. \A f \in Emails \ {e} : TokensOf(f)' = TokensOf(f)
    BY <1>3, <1>5 DEF TokensOf
  <2>4. TokensOf(e)' = TokensOf(e) \cup {n}
    BY <1>3, <1>5 DEF TokensOf
  <2>5. \A i \in DOMAIN resets : Usable(i)' <=> Usable(i)
    BY <1>1, <1>5 DEF Good, Usable
  <2>6. e \notin clashed' => \A i \in TokensOf(e) : ~Usable(i)
    BY <1>0, <1>1, <1>10 DEF RegistrationInv, TokensTakeTurns
  <2>7. \A f \in Emails : TokensOf(f) \subseteq DOMAIN resets
    BY DEF TokensOf
  <2>8. ASSUME NEW f \in Emails \ clashed', NEW i \in TokensOf(f)', NEW j \in TokensOf(f)',
               Usable(i)', Usable(j)'
        PROVE  i = j
    <3>1. CASE f = e
      BY <1>1, <2>4, <2>5, <2>6, <2>7, <2>8, <3>1
    <3>2. CASE f # e
      BY <1>10, <2>3, <2>5, <2>7, <2>8, <3>2 DEF RegistrationInv, TokensTakeTurns
    <3> QED
      BY <3>1, <3>2
  <2>9. ASSUME NEW v \in Visitors, visit'[v].op = "token", visit'[v].about \notin clashed',
               NEW i \in TokensOf(visit[v].about)'
        PROVE  ~Usable(i)'
    <3>1. v # w /\ visit'[v] = visit[v]
      BY <1>9, <2>9, WaitingFits
    <3>2. PICK f : f = visit[v].about
      OBVIOUS
    <3>3. f \in Emails
      BY <2>9, <3>1, <3>2 DEF RegistrationInv, VisitsFit, Fits
    <3>4. f # e
      BY <1>1, <2>9, <3>1, <3>2 DEF Overlap
    <3>5. i \in TokensOf(f)
      BY <2>3, <2>9, <3>1, <3>2, <3>3, <3>4
    <3>6. ~Usable(i)
      BY <1>10, <2>9, <3>1, <3>2, <3>5 DEF RegistrationInv, TokensTakeTurns
    <3> QED
      BY <2>5, <2>7, <3>3, <3>5, <3>6
  <2> QED
    BY <2>8, <2>9 DEF TokensTakeTurns
<1> QED
  BY <1>7, <1>8, <1>9, <1>11, <1>12, <1>13 DEF RegistrationInv

\* A request that none overlaps is alone with its token.
LEMMA UsedAlone ==
  ASSUME RegistrationInv, NEW w \in Visitors, NEW i, ~Overlap(w, {"reset", "used"}, i)
  PROVE  \A v \in Visitors : Using(v, i) => v = w
BY DEF Overlap, Using

LEMMA SavePasswordInv ==
  ASSUME RegistrationInv, NEW w \in Visitors, SavePassword(w)
  PROVE  RegistrationInv'
<1>0. PICK i, u, row : i = visit[w].about /\ u = visit[w].user /\ row = visit[w].row
  OBVIOUS
<1>1. /\ visit[w].op = "reset" /\ i \in DOMAIN resets /\ u \in DOMAIN users /\ row \in UserRow
      /\ UNCHANGED <<today, codes, profiles, resets, decided>>
  BY <1>0 DEF SavePassword, RegistrationInv, VisitsFit, Fits
<1>2. RowsFit
  BY DEF RegistrationInv
<1>3. ASSUME SaveUser(u, row, row),
             changed' = [changed EXCEPT ![i] = @ + 1],
             clashed' = IF Overlap(w, {"reset", "used"}, i) THEN clashed \cup {i} ELSE clashed,
             Proceed(w, [op |-> "used", about |-> i])
      PROVE  RegistrationInv'
  <2>1. /\ changed' \in Seq(Nat) /\ Len(changed') = Len(changed)
        /\ changed'[i] = changed[i] + 1 /\ \A j \in DOMAIN resets \ {i} : changed'[j] = changed[j]
    <3>1. changed \in Seq(Nat) /\ i \in DOMAIN changed /\ DOMAIN changed = DOMAIN resets
      BY <1>1, <1>2, RowTypes DEF RowsFit
    <3>2. changed[i] + 1 \in Nat
      BY <3>1, Elements
    <3>3. PICK k \in Nat : k = changed[i] + 1
      BY <3>2
    <3>4. changed' = [changed EXCEPT ![i] = k]
      BY <1>3, <3>3
    <3> QED
      BY <3>1, <3>3, <3>4, Replaced
  <2>2. PICK d : d = decided[u]
    OBVIOUS
  <2>3. d \in Decision /\ decided' = [decided EXCEPT ![u] = d]
    BY <1>1, <1>2, <2>2, RowTypes DEF RowsFit
  <2>4. /\ RowsFit' /\ EmailsAreUnique' /\ OnlyOverwritingSavesUndo'
        /\ DOMAIN users' = DOMAIN users
    <3>1. UNCHANGED <<today, codes, profiles, resets>>
      BY <1>1
    <3>2. users[u] = row /\ decided[u] = [banned |-> row.banned, deleted |-> row.deleted]
            => d = [banned |-> row.banned, deleted |-> row.deleted]
      BY <2>2, Zenon
    <3>3. UNCHANGED changed \/ (changed' \in Seq(Nat) /\ Len(changed') = Len(changed))
      BY <2>1
    <3>4. u \in DOMAIN users /\ row \in UserRow /\ SaveUser(u, row, row)
      BY <1>1, <1>3
    <3> QED
      BY <2>3, <3>1, <3>2, <3>3, <3>4, SaveUserKeeps, Zenon
  <2>5. PICK c : c = [op |-> "used", about |-> i]
    OBVIOUS
  <2>6. Proceed(w, c) /\ c.op = "used" /\ c.about = i /\ Fits(c)'
    BY <1>1, <1>3, <2>5 DEF Fits
  <2>7. VisitsFit' /\ \A v \in Visitors : visit'[v] = IF v = w THEN c ELSE visit[v]
    BY <1>1, <2>4, <2>6, VisitsAfter
  <2>8. clashed \subseteq clashed'
    BY <1>3
  <2>9. CodesTakeTurns'
    BY <1>1, <2>6, <2>7, <2>8 DEF RegistrationInv, CodesTakeTurns, CodesOf, Good
  <2>10. TokensTakeTurns'
    BY <1>1, <2>6, <2>7, <2>8 DEF RegistrationInv, TokensTakeTurns, TokensOf, Usable, Good
  <2>11. TokensAreSpent'
    <3>1. ASSUME NEW j \in DOMAIN resets \ clashed', j # i
          PROVE  /\ \/ changed'[j] = 0
                    \/ /\ changed'[j] = 1
                       /\ resets'[j].used \/ \E v \in Visitors : visit'[v].op = "used" /\ visit'[v].about = j
                 /\ resets'[j].used => \A v \in Visitors : ~Using(v, j)'
      <4>1. \A v \in Visitors : Using(v, j)' <=> Using(v, j)
        BY <1>0, <1>1, <2>6, <2>7, <3>1 DEF Using
      <4>2. \A v \in Visitors : visit[v].op = "used" => visit'[v] = visit[v]
        BY <1>1, <2>7
      <4>3. j \notin clashed /\ changed'[j] = changed[j] /\ resets'[j] = resets[j]
        BY <1>1, <2>1, <2>8, <3>1
      <4>4. /\ \/ changed[j] = 0
               \/ /\ changed[j] = 1
                  /\ resets[j].used \/ \E v \in Visitors : visit[v].op = "used" /\ visit[v].about = j
            /\ resets[j].used => \A v \in Visitors : ~Using(v, j)
        BY <3>1, <4>3 DEF RegistrationInv, TokensAreSpent
      <4> QED
        BY <4>1, <4>2, <4>3, <4>4
    <3>2. ASSUME i \notin clashed'
          PROVE  /\ changed'[i] = 1 /\ visit'[w].op = "used" /\ visit'[w].about = i
                 /\ ~resets'[i].used
      <4>1. i \notin clashed /\ ~Overlap(w, {"reset", "used"}, i) /\ Using(w, i)
        BY <1>0, <1>1, <1>3, <3>2 DEF Using
      <4>2. \A v \in Visitors : Using(v, i) => v = w
        BY <4>1, UsedAlone
      <4>3. ~resets[i].used
        BY <1>1, <4>1 DEF RegistrationInv, TokensAreSpent
      <4>4. ~\E v \in Visitors : visit[v].op = "used" /\ visit[v].about = i
        BY <1>1, <4>2 DEF Using
      <4>5. changed[i] = 0
        BY <1>1, <4>1, <4>3, <4>4 DEF RegistrationInv, TokensAreSpent
      <4> QED
        BY <1>1, <2>1, <2>6, <2>7, <4>3, <4>5
    <3> QED
      BY <1>1, <3>1, <3>2 DEF TokensAreSpent
  <2> QED
    BY <2>4, <2>7, <2>9, <2>10, <2>11 DEF RegistrationInv
<1>4. CASE Answer(w) /\ UNCHANGED <<users, overwritten, changed, clashed>>
  BY <1>1, <1>4, WaitingFits, VisitStep DEF Answer, rows, pastVars
<1> QED
  BY <1>0, <1>3, <1>4 DEF SavePassword

LEMMA MarkUsedInv ==
  ASSUME RegistrationInv, NEW w \in Visitors, MarkUsed(w)
  PROVE  RegistrationInv'
<1>0. PICK i : i = visit[w].about
  OBVIOUS
<1>1. /\ visit[w].op = "used" /\ i \in DOMAIN resets /\ Proceed(w, Waiting)
      /\ UNCHANGED <<today, codes, users, profiles, decided, overwritten, changed>>
  BY <1>0 DEF MarkUsed, Answer, RegistrationInv, VisitsFit, Fits
<1>2. RowsFit
  BY DEF RegistrationInv
<1>3. /\ resets' \in Seq(ResetRow) /\ Len(resets') = Len(resets) /\ DOMAIN resets' = DOMAIN resets
      /\ \A j \in DOMAIN resets :
           /\ resets'[j].email = resets[j].email /\ resets'[j].expires = resets[j].expires
           /\ resets[j].used => resets'[j].used
           /\ j # i => resets'[j] = resets[j]
  <2>1. CASE UNCHANGED resets
    BY <1>2, <2>1 DEF RowsFit
  <2>2. CASE resets' = [resets EXCEPT ![i].used = TRUE]
    <3>1. PICK row : row = [resets[i] EXCEPT !.used = TRUE]
      OBVIOUS
    <3>2. row \in ResetRow /\ row.email = resets[i].email /\ row.expires = resets[i].expires /\ row.used
      <4>1. resets[i] \in ResetRow
        BY <1>1, <1>2, RowTypes
      <4> QED
        BY <3>1, <4>1 DEF ResetRow
    <3>3. /\ resets \in Seq(ResetRow) /\ row \in ResetRow /\ i \in DOMAIN resets
          /\ resets' = [resets EXCEPT ![i] = row]
      BY <1>1, <1>2, <2>2, <3>1, <3>2 DEF RowsFit
    <3>4. /\ resets' \in Seq(ResetRow) /\ Len(resets') = Len(resets) /\ DOMAIN resets' = DOMAIN resets
          /\ resets'[i] = row /\ \A j \in DOMAIN resets \ {i} : resets'[j] = resets[j]
      BY <3>3, Replaced
    <3> QED
      BY <3>2, <3>4
  <2> QED
    BY <1>0, <2>1, <2>2 DEF MarkUsed
<1>4. /\ clashed \subseteq clashed'
      /\ i \notin clashed' => ~Overlap(w, {"reset", "used"}, i) /\ resets' = [resets EXCEPT ![i].used = TRUE]
  BY <1>0 DEF MarkUsed
<1>5. RowsFit'
  BY <1>1, <1>2, <1>3 DEF RowsFit
<1>6. EmailsAreUnique' /\ OnlyOverwritingSavesUndo'
  BY <1>1 DEF RegistrationInv, EmailsAreUnique, OnlyOverwritingSavesUndo
<1>7. VisitsFit' /\ \A v \in Visitors : visit'[v] = IF v = w THEN Waiting ELSE visit[v]
  BY <1>1, <1>3, WaitingFits, VisitsAfter
<1>8. CodesTakeTurns'
  BY <1>1, <1>4, <1>7, WaitingFits DEF RegistrationInv, CodesTakeTurns, CodesOf, Good
<1>9. TokensTakeTurns'
  <2>1. \A e : TokensOf(e)' = TokensOf(e)
    BY <1>3 DEF TokensOf
  <2>2. \A j \in DOMAIN resets : Usable(j)' => Usable(j)
    BY <1>1, <1>3 DEF Usable, Good
  <2>3. \A e : TokensOf(e) \subseteq DOMAIN resets
    BY DEF TokensOf
  <2>4. \A e \in Emails \ clashed' : \A j, k \in TokensOf(e)' : Usable(j)' /\ Usable(k)' => j = k
    BY <1>4, <2>1, <2>2, <2>3 DEF RegistrationInv, TokensTakeTurns
  <2>5. ASSUME NEW v \in Visitors, visit'[v].op = "token", visit'[v].about \notin clashed',
               NEW j \in TokensOf(visit[v].about)'
        PROVE  ~Usable(j)'
    <3>1. visit'[v] = visit[v]
      BY <1>7, <2>5, WaitingFits
    <3>2. j \in TokensOf(visit[v].about)
      BY <2>1, <2>5, <3>1
    <3>3. ~Usable(j)
      BY <1>4, <2>5, <3>1, <3>2 DEF RegistrationInv, TokensTakeTurns
    <3> QED
      BY <2>2, <2>3, <3>2, <3>3
  <2> QED
    BY <2>4, <2>5 DEF TokensTakeTurns
<1>10. TokensAreSpent'
  <2>1. \A v \in Visitors : \A j : Using(v, j)' => Using(v, j) /\ v # w
    BY <1>7, WaitingFits DEF Using
  <2>2. ASSUME NEW j \in DOMAIN resets \ clashed'
        PROVE  /\ \/ changed'[j] = 0
                  \/ /\ changed'[j] = 1
                     /\ resets'[j].used \/ \E v \in Visitors : visit'[v].op = "used" /\ visit'[v].about = j
               /\ resets'[j].used => \A v \in Visitors : ~Using(v, j)'
    <3>1. j \notin clashed
      BY <1>4, <2>2
    <3>2. /\ \/ changed[j] = 0
             \/ /\ changed[j] = 1
                /\ resets[j].used \/ \E v \in Visitors : visit[v].op = "used" /\ visit[v].about = j
          /\ resets[j].used => \A v \in Visitors : ~Using(v, j)
      BY <2>2, <3>1 DEF RegistrationInv, TokensAreSpent
    <3>3. CASE j = i
      <4>1. /\ ~Overlap(w, {"reset", "used"}, i) /\ resets' = [resets EXCEPT ![i].used = TRUE]
        BY <1>4, <2>2, <3>3
      <4>2. resets'[i].used
        <5>1. resets[i] \in ResetRow
          BY <1>1, <1>2, RowTypes
        <5>2. resets'[i] = [resets[i] EXCEPT !.used = TRUE]
          BY <1>1, <4>1
        <5> QED
          BY <5>1, <5>2 DEF ResetRow
      <4>3. \A v \in Visitors : ~Using(v, i)'
        BY <2>1, <4>1, UsedAlone
      <4> QED
        BY <1>1, <3>2, <3>3, <4>2, <4>3
    <3>4. CASE j # i
      <4>1. \A v \in Visitors : visit[v].about = j => visit'[v] = visit[v]
        BY <1>0, <1>7, <3>4
      <4>2. resets'[j] = resets[j] /\ changed'[j] = changed[j]
        BY <1>1, <1>3, <2>2, <3>4
      <4> QED
        BY <2>1, <3>2, <4>1, <4>2
    <3> QED
      BY <3>3, <3>4
  <2> QED
    BY <1>3, <2>2 DEF TokensAreSpent
<1> QED
  BY <1>5, <1>6, <1>7, <1>8, <1>9, <1>10 DEF RegistrationInv

LEMMA RegistrationInvKept == RegistrationInv /\ [RegistrationNext]_registrationVars => RegistrationInv'
<1> SUFFICES ASSUME RegistrationInv, [RegistrationNext]_registrationVars PROVE RegistrationInv'
  OBVIOUS
<1>1. CASE UNCHANGED registrationVars
  <2> USE <1>1 DEF registrationVars, rows, pastVars
  <2>1. RowsFit' /\ EmailsAreUnique' /\ OnlyOverwritingSavesUndo'
    BY DEF RegistrationInv, RowsFit, EmailsAreUnique, OnlyOverwritingSavesUndo
  <2>2. VisitsFit' /\ CodesTakeTurns'
    BY DEF RegistrationInv, VisitsFit, Fits, CodesTakeTurns, CodesOf, Good
  <2>3. TokensTakeTurns' /\ TokensAreSpent'
    BY DEF RegistrationInv, TokensTakeTurns, TokensOf, Usable, Good, TokensAreSpent, Using
  <2> QED
    BY <2>1, <2>2, <2>3 DEF RegistrationInv
<1>2. CASE Pass
  BY <1>2, PassInv
<1>3. ASSUME NEW w \in Visitors,
             \/ \E e \in Emails : Initiate(w, e) \/ Complete(w, e)
             \/ \E i \in DOMAIN codes : VerifyEmail(w, i)
             \/ \E u \in DOMAIN users : Forgot(w, u)
             \/ \E i \in DOMAIN resets : Reset(w, i)
             \/ \E op \in {"ban", "unban", "update", "remove"} : ReadUser(w, op)
      PROVE  RegistrationInv'
  BY <1>3, BeginInv, VerifyEmailInv
<1>4. ASSUME NEW w \in Visitors,
             \/ InsertCode(w) \/ InsertUser(w) \/ InsertProfile(w) \/ InsertReset(w)
             \/ SavePassword(w) \/ MarkUsed(w) \/ SaveBan(w) \/ SaveUpdate(w) \/ SoftDelete(w)
      PROVE  RegistrationInv'
  BY <1>4, InsertCodeInv, InsertUserInv, InsertProfileInv, InsertResetInv, SavePasswordInv,
     MarkUsedInv, SaveBanInv, SaveUpdateInv, SoftDeleteInv
<1> QED
  BY <1>1, <1>2, <1>3, <1>4 DEF RegistrationNext

LEMMA RegistrationInvAlways == RegistrationSpec => []RegistrationInv
<1> QED
  BY RegistrationInvInitially, RegistrationInvKept, PTL DEF RegistrationSpec

LEMMA AtMostOne ==
  ASSUME NEW S, \A x, y \in S : x = y
  PROVE  Cardinality(S) <= 1
<1>1. CASE S = {}
  BY <1>1, FS_EmptySet
<1>2. CASE S # {}
  <2>1. PICK x : S = {x}
    BY <1>2
  <2> QED
    BY <2>1, FS_Singleton
<1> QED
  BY <1>1, <1>2

LEMMA SpentTokensWorkOnce == RegistrationInv => SecretsWorkOnce
<1> SUFFICES ASSUME RegistrationInv PROVE SecretsWorkOnce
  OBVIOUS
<1>1. OneResetPerToken
  BY DEF RegistrationInv, TokensAreSpent, OneResetPerToken
<1>2. ASSUME NEW e \in Emails \ clashed
      PROVE  /\ Cardinality({i \in CodesOf(e) : Good(codes[i])}) <= 1
             /\ Cardinality({i \in DOMAIN resets : resets[i].email = e /\ Usable(i)}) <= 1
  <2>1. \A i, j \in {k \in CodesOf(e) : Good(codes[k])} : i = j
    BY DEF RegistrationInv, CodesTakeTurns
  <2>2. \A i, j \in {k \in DOMAIN resets : resets[k].email = e /\ Usable(k)} : i = j
    BY DEF RegistrationInv, TokensTakeTurns, TokensOf
  <2> QED
    BY <2>1, <2>2, AtMostOne
<1> QED
  BY <1>1, <1>2 DEF SecretsWorkOnce, OneGoodSecret

\* Whatever saves, bans and removals overlap: a user is banned or removed exactly if that was
\* the last decision, unless a save that had read the user before has put the row back.
THEOREM RegistrationOnlyOverwritingSavesUndo == RegistrationSpec => []OnlyOverwritingSavesUndo
<1> QED
  BY RegistrationInvAlways, PTL DEF RegistrationInv

\* One code and one reset token of an e-mail are good at a time, and a token changes one
\* password, unless requests that make or use them have overlapped or broken off.
THEOREM RegistrationSecretsWorkOnce == RegistrationSpec => []SecretsWorkOnce
<1> QED
  BY RegistrationInvAlways, SpentTokensWorkOnce, PTL

LEMMA InvTypes == RegistrationInv => RegistrationTypeOK
<1> SUFFICES ASSUME RegistrationInv PROVE RegistrationTypeOK
  OBVIOUS
<1>1. today \in 0 .. LastMoment /\ profiles \cup overwritten \subseteq DOMAIN users
  BY RegistrationAssumption DEF RegistrationInv, RowsFit
<1>2. /\ \A i \in DOMAIN codes : codes[i].email \in Emails /\ codes[i].verified \in BOOLEAN
      /\ \A i \in DOMAIN resets : resets[i].email \in Emails /\ resets[i].used \in BOOLEAN
      /\ DOMAIN decided = DOMAIN users /\ DOMAIN changed = DOMAIN resets
  BY RowTypes DEF RegistrationInv, CodeRow, ResetRow
<1> QED
  BY <1>1, <1>2 DEF RegistrationInv, RegistrationTypeOK, EmailsAreUnique

\* Rows refer to what there is, and no e-mail has two users, removed ones included.
THEOREM RegistrationIsTyped == RegistrationSpec => []RegistrationTypeOK
<1> QED
  BY RegistrationInvAlways, InvTypes, PTL

------------------------------------------------------------------------------
\* What a request may be doing, with what it has read.
CallsFit ==
  /\ call = [w \in Workers |-> call[w]]
  /\ \A w \in Workers :
       LET c == call[w] IN
       /\ c.op \in {"idle", "open", "renew", "check", "mark", "accepted", "revoke"}
       /\ c.op = "open" => c.user \in Users /\ c.token \in Time /\ c.token <= now
       /\ c.op = "renew" => c.session \in Issued /\ c.token \in Time /\ c.token <= now
       /\ c.op = "mark" => c.session \in Issued
       /\ c.op = "revoke" => c.session \in Issued /\ c.row \in SessionRow

\* A refresh under way brings a newer token than any answered, unless another one overlapped it.
RefreshesAreNewer ==
  /\ \A s \in Ids : answered[s] <= now
  /\ \A w \in Workers : call[w].op = "renew" /\ call[w].session \notin raced =>
       answered[call[w].session] <= call[w].token

SessionsInv ==
  /\ SessionsTypeOK
  /\ CallsFit
  /\ RefreshesAreNewer
  /\ NewestTokenAdmits
------------------------------------------------------------------------------
LEMMA SessionsInvInitially == SessionsInit => SessionsInv
<1> SUFFICES ASSUME SessionsInit PROVE SessionsInv
  OBVIOUS
<1> USE SessionsAssumption DEF SessionsInit
<1>1. Issued = {}
  BY DEF Issued
<1>2. SessionsTypeOK
  BY <1>1 DEF SessionsTypeOK, Time
<1>3. CallsFit
  BY DEF CallsFit, Idle
<1>4. RefreshesAreNewer
  BY DEF RefreshesAreNewer, Idle
<1>5. NewestTokenAdmits
  BY <1>1 DEF NewestTokenAdmits, Active
<1> QED
  BY <1>2, <1>3, <1>4, <1>5 DEF SessionsInv

\* Sessions are looked at and a request goes on, or is over, as its fields allow.
LEMMA LookedAtInv ==
  ASSUME SessionsInv, NEW w \in Workers, NEW c, Continue(w, c),
         UNCHANGED <<now, sessions, refresh, answered, raced>>,
         c.op \in {"idle", "open", "renew", "check", "mark", "accepted", "revoke"},
         c.op = "open" => c.user \in Users /\ c.token \in Time /\ c.token <= now,
         c.op = "renew" => /\ c.session \in Issued /\ c.token \in Time /\ c.token <= now
                           /\ answered[c.session] <= c.token,
         c.op = "mark" => c.session \in Issued,
         c.op = "revoke" => c.session \in Issued /\ c.row \in SessionRow
  PROVE  SessionsInv'
<1>1. SessionsTypeOK'
  BY DEF SessionsInv, SessionsTypeOK, Issued
<1>2. \A v \in Workers : call'[v] = IF v = w THEN c ELSE call[v]
  BY DEF Continue, SessionsInv, CallsFit
<1>3. CallsFit'
  <2>1. call' = [v \in Workers |-> call'[v]]
    BY DEF Continue, SessionsInv, CallsFit
  <2> QED
    BY <1>2, <2>1 DEF SessionsInv, CallsFit, Issued
<1>4. RefreshesAreNewer'
  BY <1>2 DEF SessionsInv, RefreshesAreNewer
<1>5. NewestTokenAdmits'
  BY DEF SessionsInv, NewestTokenAdmits, Active, Issued
<1> QED
  BY <1>1, <1>3, <1>4, <1>5 DEF SessionsInv

LEMMA TickInv ==
  ASSUME SessionsInv, Tick
  PROVE  SessionsInv'
<1>1. now \in Int /\ now' = now + 1 /\ now' \in Time
  BY SessionsAssumption DEF SessionsInv, SessionsTypeOK, Tick, Time
<1>2. SessionsTypeOK'
  BY <1>1 DEF Tick, history, SessionsInv, SessionsTypeOK, Issued
<1>3. CallsFit'
  BY <1>1 DEF Tick, history, SessionsInv, CallsFit, Issued, Time
<1>4. RefreshesAreNewer'
  BY <1>1 DEF Tick, history, SessionsInv, SessionsTypeOK, RefreshesAreNewer, Time
<1>5. NewestTokenAdmits'
  BY DEF Tick, history, SessionsInv, NewestTokenAdmits, Active, Issued
<1> QED
  BY <1>2, <1>3, <1>4, <1>5 DEF SessionsInv

\* Requests that change no session.
LEMMA LookingInv ==
  ASSUME SessionsInv, NEW w \in Workers,
         \/ \E u \in Users : SignIn(w, u) \/ \E t \in Time : Present(w, u, t)
         \/ \E s \in Ids : RefreshToken(w, s)
         \/ Validate(w) \/ ReadToRevoke(w) \/ Serve(w)
  PROVE  SessionsInv'
<1> USE DEF history
<1>0. now \in Time /\ now \in Int
  BY DEF SessionsInv, SessionsTypeOK, Time
<1>1. ASSUME NEW u \in Users, SignIn(w, u) PROVE SessionsInv'
  <2> DEFINE c == [op |-> "open", user |-> u, token |-> now]
  <2>1. Continue(w, c) /\ c.op = "open" /\ c.user \in Users /\ c.token \in Time /\ c.token <= now
    BY <1>0, <1>1 DEF SignIn
  <2> HIDE DEF c
  <2> QED
    BY <1>1, <2>1, LookedAtInv DEF SignIn
<1>2. ASSUME NEW u \in Users, NEW t \in Time, Present(w, u, t) PROVE SessionsInv'
  <2> DEFINE c == [op |-> "check", user |-> u, token |-> t]
  <2>1. Continue(w, c) /\ c.op = "check"
    BY <1>2 DEF Present
  <2> HIDE DEF c
  <2> QED
    BY <1>2, <2>1, LookedAtInv DEF Present
<1>3. ASSUME NEW s \in Ids, RefreshToken(w, s) PROVE SessionsInv'
  <2> DEFINE c == [op |-> "renew", session |-> s, token |-> now]
  <2>1. /\ Continue(w, c) /\ c.op = "renew" /\ c.session \in Issued
        /\ c.token \in Time /\ c.token <= now /\ answered[c.session] <= c.token
    BY <1>0, <1>3 DEF RefreshToken, Active, SessionsInv, RefreshesAreNewer
  <2> HIDE DEF c
  <2> QED
    BY <1>3, <2>1, LookedAtInv DEF RefreshToken
<1>4. CASE Validate(w)
  <2>1. ASSUME NEW s \in Active, NEW op \in {"mark", "accepted"},
               Continue(w, [op |-> op, session |-> s, user |-> call[w].user, token |-> call[w].token])
        PROVE  SessionsInv'
    <3> DEFINE c == [op |-> op, session |-> s, user |-> call[w].user, token |-> call[w].token]
    <3>1. Continue(w, c) /\ c.op \in {"mark", "accepted"} /\ c.session \in Issued
      BY <2>1 DEF Active
    <3> HIDE DEF c
    <3> QED
      BY <1>4, <3>1, LookedAtInv DEF Validate
  <2>2. CASE Finish(w)
    <3>1. Idle.op = "idle"
      BY DEF Idle
    <3> QED
      BY <1>4, <2>2, <3>1, LookedAtInv DEF Validate, Finish
  <2>3. \/ Finish(w)
        \/ \E s \in Active : \E op \in {"mark", "accepted"} :
             Continue(w, [op |-> op, session |-> s, user |-> call[w].user, token |-> call[w].token])
    BY <1>4 DEF Validate
  <2> QED
    BY <2>1, <2>2, <2>3
<1>5. CASE ReadToRevoke(w)
  <2>1. PICK s \in Issued : Continue(w, [op |-> "revoke", session |-> s, row |-> sessions[s]])
    BY <1>5 DEF ReadToRevoke
  <2> DEFINE c == [op |-> "revoke", session |-> s, row |-> sessions[s]]
  <2>2. Continue(w, c) /\ c.op = "revoke" /\ c.session \in Issued /\ c.row \in SessionRow
    BY <2>1 DEF SessionsInv, SessionsTypeOK, Issued
  <2> HIDE DEF c
  <2> QED
    BY <1>5, <2>2, LookedAtInv DEF ReadToRevoke
<1>6. CASE Serve(w)
  <2>1. Idle.op = "idle"
    BY DEF Idle
  <2> QED
    BY <1>6, <2>1, LookedAtInv DEF Serve, Finish
<1> QED
  BY <1>1, <1>2, <1>3, <1>4, <1>5, <1>6

\* The other requests keep what they know when one is over and no session is gone.
LEMMA FinishedFit ==
  ASSUME SessionsInv, NEW w \in Workers, Finish(w), UNCHANGED now, Issued \subseteq Issued'
  PROVE  /\ CallsFit'
         /\ \A v \in Workers : call'[v] = IF v = w THEN Idle ELSE call[v]
<1>1. \A v \in Workers : call'[v] = IF v = w THEN Idle ELSE call[v]
  BY DEF Finish, Continue, SessionsInv, CallsFit
<1>2. call' = [v \in Workers |-> call'[v]]
  BY DEF Finish, Continue, SessionsInv, CallsFit
<1>3. Idle.op = "idle"
  BY DEF Idle
<1> QED
  BY <1>1, <1>2, <1>3 DEF SessionsInv, CallsFit

LEMMA CreateSessionInv ==
  ASSUME SessionsInv, NEW w \in Workers, CreateSession(w)
  PROVE  SessionsInv'
<1> DEFINE c == call[w]
<1>1. c.op = "open" /\ c.user \in Users /\ c.token \in Time /\ c.token <= now /\ Finish(w)
  BY DEF CreateSession, SessionsInv, CallsFit
<1>2. UNCHANGED <<now, raced>>
  BY DEF CreateSession
<1>3. ASSUME NEW s \in Ids \ Issued, Free(s, c.user, c.token),
             sessions' = [sessions EXCEPT ![s] = [user |-> c.user, token |-> c.token, status |-> "ACTIVE"]],
             refresh' = [refresh EXCEPT ![s] = c.token],
             answered' = [answered EXCEPT ![s] = c.token]
      PROVE  SessionsInv'
  <2> DEFINE row == [user |-> c.user, token |-> c.token, status |-> "ACTIVE"]
  <2>1. row \in SessionRow /\ row.user = c.user /\ row.token = c.token
    BY <1>1 DEF SessionRow, Statuses
  <2> HIDE DEF row, c
  <2>2. row # NoSession
    BY <2>1, SessionsAssumption
  <2>3. sessions' = [sessions EXCEPT ![s] = row]
    BY <1>3 DEF row
  <2>4. Issued' = Issued \cup {s}
    BY <2>2, <2>3, <1>3 DEF Issued, SessionsInv, SessionsTypeOK
  <2>5. /\ sessions' \in [Ids -> SessionRow \cup {NoSession}]
        /\ refresh' \in [Ids -> Time] /\ answered' \in [Ids -> Time]
    BY <1>1, <1>3, <2>1, <2>3 DEF SessionsInv, SessionsTypeOK
  <2>6. \A q \in Issued : sessions'[q] = sessions[q] /\ q # s
    BY <2>3, <1>3 DEF Issued, SessionsInv, SessionsTypeOK
  <2>7. sessions'[s] = row /\ answered'[s] = c.token
    BY <2>3, <1>3 DEF SessionsInv, SessionsTypeOK
  <2>8. SessionsTypeOK'
    BY <1>2, <1>3, <2>1, <2>4, <2>5, <2>6, <2>7 DEF SessionsInv, SessionsTypeOK, Free
  <2>9. CallsFit' /\ \A v \in Workers : call'[v] = IF v = w THEN Idle ELSE call[v]
    BY <1>1, <1>2, <2>4, FinishedFit
  <2>10. RefreshesAreNewer'
    <3>1. \A q \in Ids : answered'[q] <= now'
      BY <1>1, <1>2, <1>3 DEF SessionsInv, SessionsTypeOK, RefreshesAreNewer
    <3>2. ASSUME NEW v \in Workers, call'[v].op = "renew", call'[v].session \notin raced'
          PROVE  answered'[call'[v].session] <= call'[v].token
      <4>1. v # w /\ call'[v] = call[v]
        BY <2>9, <3>2 DEF Idle
      <4>2. call[v].session \in Issued
        BY <3>2, <4>1 DEF SessionsInv, CallsFit
      <4>3. answered'[call[v].session] = answered[call[v].session]
        BY <1>3, <2>6, <4>2 DEF SessionsInv, SessionsTypeOK, Issued
      <4> QED
        BY <1>2, <3>2, <4>1, <4>3 DEF SessionsInv, RefreshesAreNewer
    <3> QED
      BY <3>1, <3>2 DEF RefreshesAreNewer
  <2>11. NewestTokenAdmits'
    <3>1. \A q \in Ids \ {s} : answered'[q] = answered[q]
      BY <1>3 DEF SessionsInv, SessionsTypeOK
    <3>2. Active' \subseteq Active \cup {s}
      BY <2>4, <2>6 DEF Active
    <3>3. Active \subseteq Issued /\ Issued \subseteq Ids
      BY DEF Active, Issued
    <3> QED
      BY <1>2, <2>1, <2>6, <2>7, <3>1, <3>2, <3>3 DEF SessionsInv, NewestTokenAdmits
  <2> QED
    BY <2>8, <2>9, <2>10, <2>11 DEF SessionsInv
<1>4. CASE UNCHANGED <<sessions, refresh, answered>>
  <2>1. Continue(w, Idle) /\ Idle.op = "idle"
    BY <1>1 DEF Finish, Idle
  <2> QED
    BY <1>2, <1>4, <2>1, LookedAtInv
<1> QED
  BY <1>3, <1>4 DEF CreateSession

LEMMA UpdateSessionTokenInv ==
  ASSUME SessionsInv, NEW w \in Workers, UpdateSessionToken(w)
  PROVE  SessionsInv'
<1>0. PICK s : s = call[w].session
  OBVIOUS
<1>1. PICK t : t = call[w].token
  OBVIOUS
<1>2. /\ call[w].op = "renew" /\ s \in Issued /\ s \in Ids
      /\ t \in Time /\ t <= now /\ Finish(w) /\ now' = now
  BY <1>0, <1>1 DEF UpdateSessionToken, SessionsInv, CallsFit, Issued
<1>3. ASSUME Free(s, sessions[s].user, t),
             sessions' = [sessions EXCEPT ![s] = Renewed(@, t)],
             refresh' = [refresh EXCEPT ![s] = IF @ > t THEN @ ELSE t],
             answered' = [answered EXCEPT ![s] = IF @ > t THEN @ ELSE t],
             raced' = IF OtherRefreshes(w, s) = {} THEN raced ELSE raced \cup {s}
      PROVE  SessionsInv'
  <2>1. sessions[s] \in SessionRow /\ sessions[s] # NoSession
    BY <1>2 DEF SessionsInv, SessionsTypeOK, Issued
  <2> DEFINE row == [sessions[s] EXCEPT !.token = t]
  <2>2. /\ row \in SessionRow /\ row.user = sessions[s].user /\ row.token = t
        /\ row.status = sessions[s].status
    BY <1>2, <2>1 DEF SessionRow
  <2> HIDE DEF row
  <2>3. row # NoSession
    BY <2>2, SessionsAssumption
  <2>4. sessions' = [sessions EXCEPT ![s] = row]
    BY <1>3 DEF row, Renewed
  <2>5. Issued' = Issued
    BY <1>2, <2>3, <2>4 DEF Issued, SessionsInv, SessionsTypeOK
  <2>6. /\ \A q \in Ids \ {s} : sessions'[q] = sessions[q] /\ answered'[q] = answered[q]
        /\ sessions'[s] = row
        /\ answered'[s] = IF answered[s] > t THEN answered[s] ELSE t
    BY <1>2, <1>3, <2>4 DEF SessionsInv, SessionsTypeOK
  <2>7. /\ sessions' \in [Ids -> SessionRow \cup {NoSession}]
        /\ refresh' \in [Ids -> Time] /\ answered' \in [Ids -> Time]
        /\ raced' \subseteq Ids /\ raced \subseteq raced'
    BY <1>2, <1>3, <2>2, <2>4 DEF SessionsInv, SessionsTypeOK
  <2>8. \A q, r \in Issued : q # r =>
          <<sessions'[q].user, sessions'[q].token>> # <<sessions'[r].user, sessions'[r].token>>
    BY <1>2, <1>3, <2>2, <2>6 DEF SessionsInv, SessionsTypeOK, Free, Issued
  <2>9. SessionsTypeOK'
    BY <1>2, <2>5, <2>7, <2>8 DEF SessionsInv, SessionsTypeOK
  <2>10. CallsFit' /\ \A v \in Workers : call'[v] = IF v = w THEN Idle ELSE call[v]
    BY <1>2, <2>5, FinishedFit
  <2>11. RefreshesAreNewer'
    <3>1. ASSUME NEW q \in Ids PROVE answered'[q] <= now'
      BY <1>2, <2>6 DEF SessionsInv, SessionsTypeOK, RefreshesAreNewer, Time
    <3>2. ASSUME NEW v \in Workers, call'[v].op = "renew", call'[v].session \notin raced'
          PROVE  answered'[call'[v].session] <= call'[v].token
      <4>1. v # w /\ call'[v] = call[v]
        BY <2>10, <3>2 DEF Idle
      <4>2. call[v].session # s
        BY <1>3, <3>2, <4>1 DEF OtherRefreshes
      <4>3. call[v].session \in Ids
        BY <3>2, <4>1 DEF SessionsInv, CallsFit, Issued
      <4> QED
        BY <2>6, <2>7, <3>2, <4>1, <4>2, <4>3 DEF SessionsInv, RefreshesAreNewer
    <3> QED
      BY <3>1, <3>2 DEF RefreshesAreNewer
  <2>12. NewestTokenAdmits'
    <3>1. ASSUME s \notin raced' PROVE answered'[s] = t
      <4>1. s \notin raced
        BY <2>7, <3>1
      <4>2. answered[s] <= t
        BY <1>0, <1>1, <1>2, <4>1 DEF SessionsInv, RefreshesAreNewer
      <4> QED
        BY <1>2, <2>6, <4>2 DEF SessionsInv, SessionsTypeOK, Time
    <3>2. Active' = Active
      BY <1>2, <2>1, <2>2, <2>5, <2>6 DEF Active, Issued
    <3>3. Active \subseteq Ids
      BY DEF Active, Issued
    <3> QED
      BY <2>2, <2>6, <2>7, <3>1, <3>2, <3>3 DEF SessionsInv, NewestTokenAdmits
  <2> QED
    BY <2>9, <2>10, <2>11, <2>12 DEF SessionsInv
<1>4. CASE UNCHANGED <<sessions, refresh, history>>
  <2>1. Continue(w, Idle) /\ Idle.op = "idle"
    BY <1>2 DEF Finish, Idle
  <2> QED
    BY <1>2, <1>4, <2>1, LookedAtInv DEF history
<1> QED
  BY <1>0, <1>1, <1>3, <1>4 DEF UpdateSessionToken

\* Sessions are closed, with any token that leaves no two of them the same; nothing else changes.
LEMMA ClosedInv ==
  ASSUME SessionsInv, UNCHANGED <<now, refresh, answered, raced>>,
         sessions' \in [Ids -> SessionRow \cup {NoSession}],
         Issued' = Issued,
         \A s \in Issued : sessions'[s] = sessions[s] \/ sessions'[s].status # "ACTIVE",
         \A q, r \in Issued : q # r =>
           <<sessions'[q].user, sessions'[q].token>> # <<sessions'[r].user, sessions'[r].token>>,
         CallsFit',
         \A v \in Workers : call'[v] = call[v] \/ call'[v] = Idle
  PROVE  SessionsInv'
<1>1. SessionsTypeOK'
  BY DEF SessionsInv, SessionsTypeOK
<1>2. RefreshesAreNewer'
  BY DEF SessionsInv, RefreshesAreNewer, Idle
<1>3. \A s \in Active' : s \in Active /\ sessions'[s] = sessions[s]
  BY DEF Active
<1>4. NewestTokenAdmits'
  BY <1>3 DEF SessionsInv, NewestTokenAdmits
<1> QED
  BY <1>1, <1>2, <1>4 DEF SessionsInv

LEMMA MarkExpiredInv ==
  ASSUME SessionsInv, NEW w \in Workers, MarkExpired(w)
  PROVE  SessionsInv'
<1>0. PICK s : s = call[w].session
  OBVIOUS
<1>1. s \in Issued /\ s \in Ids /\ sessions[s] \in SessionRow
  BY <1>0 DEF MarkExpired, SessionsInv, CallsFit, SessionsTypeOK, Issued
<1> DEFINE row == [sessions[s] EXCEPT !.status = "EXPIRED"]
<1>2. /\ row \in SessionRow /\ row.user = sessions[s].user /\ row.token = sessions[s].token
      /\ row.status # "ACTIVE"
  BY <1>1 DEF SessionRow, Statuses
<1>3. sessions' = [sessions EXCEPT ![s] = row]
  BY <1>0 DEF MarkExpired
<1> HIDE DEF row
<1>4. row # NoSession
  BY <1>2, SessionsAssumption
<1>5. /\ \A q \in Ids \ {s} : sessions'[q] = sessions[q]
      /\ sessions'[s] = row
      /\ sessions' \in [Ids -> SessionRow \cup {NoSession}]
  BY <1>1, <1>2, <1>3 DEF SessionsInv, SessionsTypeOK
<1>6. Issued' = Issued
  BY <1>1, <1>4, <1>5 DEF Issued
<1>7. CallsFit' /\ \A v \in Workers : call'[v] = call[v] \/ call'[v] = Idle
  BY <1>6, FinishedFit DEF MarkExpired
<1>8. \A q, r \in Issued : q # r =>
        <<sessions'[q].user, sessions'[q].token>> # <<sessions'[r].user, sessions'[r].token>>
  BY <1>2, <1>5 DEF SessionsInv, SessionsTypeOK, Issued
<1>9. \A q \in Issued : sessions'[q] = sessions[q] \/ sessions'[q].status # "ACTIVE"
  BY <1>2, <1>5 DEF Issued
<1> QED
  BY <1>5, <1>6, <1>7, <1>8, <1>9, ClosedInv DEF MarkExpired, history

LEMMA RevokeSessionInv ==
  ASSUME SessionsInv, NEW w \in Workers, RevokeSession(w)
  PROVE  SessionsInv'
<1>0. PICK s : s = call[w].session
  OBVIOUS
<1>1. s \in Issued /\ s \in Ids /\ call[w].row \in SessionRow
  BY <1>0 DEF RevokeSession, SessionsInv, CallsFit, Issued
<1> DEFINE row == [call[w].row EXCEPT !.status = "REVOKED"]
<1>2. /\ row \in SessionRow /\ row.user = call[w].row.user /\ row.token = call[w].row.token
      /\ row.status # "ACTIVE"
  BY <1>1 DEF SessionRow, Statuses
<1>3. \/ Free(s, row.user, row.token) /\ sessions' = [sessions EXCEPT ![s] = row]
      \/ UNCHANGED sessions
  BY <1>0, <1>2 DEF RevokeSession
<1> HIDE DEF row
<1>4. row # NoSession
  BY <1>2, SessionsAssumption
<1>5. Finish(w) /\ UNCHANGED <<now, refresh, answered, raced>>
  BY DEF RevokeSession, history
<1>6. CASE Free(s, row.user, row.token) /\ sessions' = [sessions EXCEPT ![s] = row]
  <2>1. /\ \A q \in Ids \ {s} : sessions'[q] = sessions[q]
        /\ sessions'[s] = row
        /\ sessions' \in [Ids -> SessionRow \cup {NoSession}]
    BY <1>1, <1>2, <1>6 DEF SessionsInv, SessionsTypeOK
  <2>2. Issued' = Issued
    BY <1>1, <1>4, <2>1 DEF Issued
  <2>3. CallsFit' /\ \A v \in Workers : call'[v] = call[v] \/ call'[v] = Idle
    BY <1>5, <2>2, FinishedFit
  <2>4. \A q, r \in Issued : q # r =>
          <<sessions'[q].user, sessions'[q].token>> # <<sessions'[r].user, sessions'[r].token>>
    BY <1>6, <2>1 DEF SessionsInv, SessionsTypeOK, Issued, Free
  <2>5. \A q \in Issued : sessions'[q] = sessions[q] \/ sessions'[q].status # "ACTIVE"
    BY <1>2, <2>1 DEF Issued
  <2> QED
    BY <1>5, <2>1, <2>2, <2>3, <2>4, <2>5, ClosedInv
<1>7. CASE UNCHANGED sessions
  <2>1. Continue(w, Idle) /\ Idle.op = "idle"
    BY <1>5 DEF Finish, Idle
  <2> QED
    BY <1>5, <1>7, <2>1, LookedAtInv
<1> QED
  BY <1>3, <1>6, <1>7

\* A set of active sessions gets another status.
LEMMA StatusesInv ==
  ASSUME SessionsInv, UNCHANGED <<now, refresh, answered, raced>>,
         NEW S \in SUBSET Active, NEW status \in Statuses \ {"ACTIVE"},
         sessions' = [s \in Ids |->
           IF s \in S THEN [sessions[s] EXCEPT !.status = status] ELSE sessions[s]],
         UNCHANGED call \/ \E w \in Workers : Finish(w)
  PROVE  SessionsInv'
<1>1. \A s \in S : s \in Ids /\ sessions[s] \in SessionRow
  BY DEF Active, Issued, SessionsInv, SessionsTypeOK
<1>2. \A s \in S : /\ sessions'[s] \in SessionRow /\ sessions'[s].status # "ACTIVE"
                   /\ sessions'[s].user = sessions[s].user /\ sessions'[s].token = sessions[s].token
  BY <1>1 DEF SessionRow
<1>3. \A s \in Ids \ S : sessions'[s] = sessions[s]
  OBVIOUS
<1>4. sessions' = [s \in Ids |-> sessions'[s]]
  OBVIOUS
<1>5. sessions' \in [Ids -> SessionRow \cup {NoSession}]
  BY <1>2, <1>3, <1>4 DEF SessionsInv, SessionsTypeOK
<1>6. \A s \in S : sessions'[s] # NoSession /\ s \in Issued
  BY <1>2, SessionsAssumption DEF Active
<1>7. Issued' = Issued
  BY <1>1, <1>3, <1>6 DEF Issued
<1>8. CallsFit' /\ \A v \in Workers : call'[v] = call[v] \/ call'[v] = Idle
  <2>1. CASE UNCHANGED call
    BY <1>7, <2>1 DEF SessionsInv, CallsFit
  <2>2. CASE \E w \in Workers : Finish(w)
    BY <1>7, <2>2, FinishedFit
  <2> QED
    BY <2>1, <2>2
<1>9. \A q \in Issued : sessions'[q].user = sessions[q].user /\ sessions'[q].token = sessions[q].token
  BY <1>2, <1>3 DEF Issued
<1>10. \A q, r \in Issued : q # r =>
         <<sessions'[q].user, sessions'[q].token>> # <<sessions'[r].user, sessions'[r].token>>
  BY <1>9 DEF SessionsInv, SessionsTypeOK
<1>11. \A q \in Issued : sessions'[q] = sessions[q] \/ sessions'[q].status # "ACTIVE"
  BY <1>2, <1>3 DEF Issued
<1> HIDE DEF Active
<1> QED
  BY <1>5, <1>7, <1>8, <1>10, <1>11, ClosedInv

LEMMA RevokeAllOthersInv ==
  ASSUME SessionsInv, NEW w \in Workers, RevokeAllOthers(w)
  PROVE  SessionsInv'
<1> DEFINE S == {s \in Active : sessions[s].user = call[w].user /\ sessions[s].token # call[w].token}
<1>1. sessions' = [s \in Ids |->
        IF s \in S THEN [sessions[s] EXCEPT !.status = "REVOKED"] ELSE sessions[s]]
  BY DEF RevokeAllOthers
<1>2. S \in SUBSET Active /\ "REVOKED" \in Statuses \ {"ACTIVE"}
  BY DEF Statuses
<1>3. Finish(w) /\ UNCHANGED <<now, refresh, answered, raced>>
  BY DEF RevokeAllOthers, history
<1> HIDE DEF S
<1> QED
  BY <1>1, <1>2, <1>3, StatusesInv

LEMMA CleanUpInv ==
  ASSUME SessionsInv, CleanUp
  PROVE  SessionsInv'
<1>1. Overdue \in SUBSET Active /\ "EXPIRED" \in Statuses \ {"ACTIVE"}
  BY DEF Statuses, Overdue
<1>2. UNCHANGED <<now, refresh, answered, raced, call>>
  BY DEF CleanUp, history
<1>3. sessions' = [s \in Ids |->
        IF s \in Overdue THEN [sessions[s] EXCEPT !.status = "EXPIRED"] ELSE sessions[s]]
  BY DEF CleanUp
<1> QED
  BY <1>1, <1>2, <1>3, StatusesInv

LEMMA SessionsInvKept == SessionsInv /\ [SessionsNext]_sessionsVars => SessionsInv'
<1> SUFFICES ASSUME SessionsInv, [SessionsNext]_sessionsVars PROVE SessionsInv'
  OBVIOUS
<1>1. CASE UNCHANGED sessionsVars
  <2>1. /\ SessionsTypeOK' /\ CallsFit'
    BY <1>1 DEF SessionsInv, SessionsTypeOK, CallsFit, Issued, sessionsVars, history
  <2>2. RefreshesAreNewer' /\ NewestTokenAdmits'
    BY <1>1 DEF SessionsInv, RefreshesAreNewer, NewestTokenAdmits, Active, Issued, sessionsVars, history
  <2> QED
    BY <2>1, <2>2 DEF SessionsInv
<1>2. CASE Tick
  BY <1>2, TickInv
<1>3. CASE CleanUp
  BY <1>3, CleanUpInv
<1>4. ASSUME NEW w \in Workers,
             \/ \E u \in Users : SignIn(w, u) \/ \E t \in Time : Present(w, u, t)
             \/ \E s \in Ids : RefreshToken(w, s)
             \/ CreateSession(w) \/ UpdateSessionToken(w)
             \/ Validate(w) \/ MarkExpired(w) \/ Serve(w)
             \/ RevokeAllOthers(w) \/ ReadToRevoke(w) \/ RevokeSession(w)
      PROVE  SessionsInv'
  BY <1>4, LookingInv, CreateSessionInv, UpdateSessionTokenInv, MarkExpiredInv, RevokeAllOthersInv,
     RevokeSessionInv
<1> QED
  BY <1>1, <1>2, <1>3, <1>4 DEF SessionsNext

LEMMA SessionsInvAlways == SessionsSpec => []SessionsInv
<1> QED
  BY SessionsInvInitially, SessionsInvKept, PTL DEF SessionsSpec

\* Every session is a row that may exist, at most one per user and token.
THEOREM SessionsAreTyped == SessionsSpec => []SessionsTypeOK
<1> QED
  BY SessionsInvAlways, PTL DEF SessionsInv

\* The newest token a client was answered admits it, unless two refreshes of its session
\* overlapped: updateSessionToken never leaves an older one otherwise.
THEOREM SessionsNewestTokenAdmits == SessionsSpec => []NewestTokenAdmits
<1> QED
  BY SessionsInvAlways, PTL DEF SessionsInv
------------------------------------------------------------------------------
\* Sessions implement Registry.  An active session is open and admits with its user and token.
Admitted(s) == IF s \in Active THEN <<sessions[s].user, sessions[s].token>> ELSE NoSession

LEMMA OnlyActiveAdmit ==
  ASSUME SessionsInv, NEW s \in Ids
  PROVE  /\ s \in Active => Admitted(s) \in Credentials
         /\ Admitted(s) # NoSession <=> s \in Active
<1>1. ASSUME s \in Active PROVE Admitted(s) \in Credentials
  <2>1. sessions[s] \in SessionRow
    BY <1>1 DEF Active, Issued, SessionsInv, SessionsTypeOK
  <2> QED
    BY <1>1, <2>1 DEF Admitted, SessionRow, Credentials
<1> QED
  BY <1>1, SessionsAssumption DEF Admitted

\* Whatever ends sessions and leaves the others alone is Close.
LEMMA ClosingStep ==
  ASSUME SessionsInv, NEW S \in SUBSET Active, UNCHANGED Issued, Active' = Active \ S,
         \A s \in Active \ S : sessions'[s] = sessions[s]
  PROVE  Promise!Close(S)
<1>1. Active \subseteq Ids /\ Active \subseteq Issued
  BY DEF Active, Issued
<1>2. \A s \in S : Admitted(s) # NoSession
  BY <1>1, OnlyActiveAdmit
<1>3. \A s \in Ids : Admitted(s)' = IF s \in S THEN NoSession ELSE Admitted(s)
  BY DEF Admitted
<1>4. (Issued \ Active)' = (Issued \ Active) \cup S
  BY <1>1
<1> HIDE DEF Active, Issued
<1> QED
  BY <1>1, <1>2, <1>3, <1>4 DEF Promise!Close, Admitted

LEMMA StutterStep ==
  ASSUME UNCHANGED sessions
  PROVE  UNCHANGED Promise!registryVars
BY DEF Promise!registryVars, Active, Issued

LEMMA OpeningStep ==
  ASSUME SessionsInv, NEW w \in Workers, CreateSession(w), ~UNCHANGED sessions
  PROVE  Promise!RegistryNext
<1>0. PICK u, t : u = call[w].user /\ t = call[w].token
  OBVIOUS
<1>1. u \in Users /\ t \in Time
  BY <1>0 DEF CreateSession, SessionsInv, CallsFit
<1>2. PICK s \in Ids \ Issued :
        /\ Free(s, u, t)
        /\ sessions' = [sessions EXCEPT ![s] = [user |-> u, token |-> t, status |-> "ACTIVE"]]
  BY <1>0 DEF CreateSession
<1> DEFINE row == [user |-> u, token |-> t, status |-> "ACTIVE"]
<1>3. row \in SessionRow /\ row.user = u /\ row.token = t /\ row.status = "ACTIVE"
  BY <1>1 DEF SessionRow, Statuses
<1> HIDE DEF row
<1>4. row # NoSession /\ sessions[s] = NoSession
  BY <1>2, <1>3, SessionsAssumption DEF Issued
<1>5. sessions'[s] = row /\ \A q \in Ids \ {s} : sessions'[q] = sessions[q]
  BY <1>2 DEF row, SessionsInv, SessionsTypeOK
<1>6. s \notin Active /\ Active' = Active \cup {s} /\ (Issued \ Active)' = Issued \ Active
  BY <1>2, <1>3, <1>4, <1>5 DEF Active, Issued
<1>7. Admitted(s)' = <<u, t>> /\ \A q \in Ids \ {s} : Admitted(q)' = Admitted(q)
  BY <1>3, <1>5, <1>6 DEF Admitted
<1>8. <<u, t>> \in Credentials /\ \A q \in Ids : Admitted(q) # <<u, t>>
  <2>1. <<u, t>> \in Credentials
    BY <1>1 DEF Credentials
  <2>2. ASSUME NEW q \in Active PROVE Admitted(q) # <<u, t>>
    BY <1>2, <1>6, <2>2 DEF Free, Admitted, Active
  <2> QED
    BY <2>1, <2>2, SessionsAssumption DEF Admitted
<1>9. Admitted(s) = NoSession /\ s \in Ids /\ s \notin Issued \ Active
  BY <1>2, <1>6 DEF Admitted
<1>10. [q \in Ids |-> Admitted(q)]' = [[q \in Ids |-> Admitted(q)] EXCEPT ![s] = <<u, t>>]
  BY <1>7, <1>9
<1> HIDE DEF Active, Issued
<1>11. Promise!Open(s)
  BY <1>6, <1>8, <1>9, <1>10 DEF Promise!Open, Promise!Unused, Admitted
<1> QED
  BY <1>9, <1>11 DEF Promise!RegistryNext

LEMMA RenewingStep ==
  ASSUME SessionsInv, NEW w \in Workers, UpdateSessionToken(w), ~UNCHANGED sessions
  PROVE  Promise!RegistryNext \/ UNCHANGED Promise!registryVars
<1>0. PICK s, t : s = call[w].session /\ t = call[w].token
  OBVIOUS
<1>1. s \in Issued /\ s \in Ids /\ t \in Time /\ sessions[s] \in SessionRow
  BY <1>0 DEF UpdateSessionToken, SessionsInv, CallsFit, SessionsTypeOK, Issued
<1>2. Free(s, sessions[s].user, t) /\ sessions' = [sessions EXCEPT ![s] = [@ EXCEPT !.token = t]]
  BY <1>0 DEF UpdateSessionToken, Renewed
<1> DEFINE row == [sessions[s] EXCEPT !.token = t]
<1>3. /\ row \in SessionRow /\ row.user = sessions[s].user /\ row.token = t
      /\ row.status = sessions[s].status
  BY <1>1 DEF SessionRow
<1> HIDE DEF row
<1>4. row # NoSession /\ sessions[s] # NoSession
  BY <1>3, <1>1, SessionsAssumption
<1>5. sessions'[s] = row /\ \A q \in Ids \ {s} : sessions'[q] = sessions[q]
  BY <1>1, <1>2 DEF row, SessionsInv, SessionsTypeOK
<1>6. Active' = Active /\ Issued' = Issued
  BY <1>3, <1>4, <1>5 DEF Active, Issued
<1>7. \A q \in Ids \ {s} : Admitted(q)' = Admitted(q)
  BY <1>5, <1>6 DEF Admitted
<1>8. CASE s \notin Active
  <2>1. \A q \in Ids : Admitted(q)' = Admitted(q)
    BY <1>6, <1>7, <1>8 DEF Admitted
  <2> HIDE DEF Active, Issued
  <2> QED
    BY <1>6, <2>1 DEF Promise!registryVars, Admitted
<1>9. CASE s \in Active /\ t = sessions[s].token
  <2>1. \A q \in Ids : Admitted(q)' = Admitted(q)
    BY <1>3, <1>5, <1>6, <1>7, <1>9 DEF Admitted
  <2> HIDE DEF Active, Issued
  <2> QED
    BY <1>6, <2>1 DEF Promise!registryVars, Admitted
<1>10. CASE s \in Active /\ t # sessions[s].token
  <2>1. PICK u : u = sessions[s].user
    OBVIOUS
  <2>2. u \in Users /\ Admitted(s)' = <<u, t>>
    BY <1>1, <1>3, <1>5, <1>6, <1>10, <2>1 DEF Admitted, SessionRow
  <2>3. <<u, t>> \in Credentials
    BY <1>1, <2>2 DEF Credentials
  <2>4. ASSUME NEW q \in Ids PROVE Admitted(q) # <<u, t>>
    <3>1. CASE q = s
      BY <1>10, <3>1 DEF Admitted
    <3>2. CASE q # s /\ q \in Active
      BY <1>2, <2>1, <3>2 DEF Free, Admitted, Active
    <3>3. CASE q \notin Active
      BY <2>3, <3>3, SessionsAssumption DEF Admitted
    <3> QED
      BY <3>1, <3>2, <3>3
  <2>5. Admitted(s) # NoSession
    BY <1>1, <1>10, OnlyActiveAdmit
  <2>6. [q \in Ids |-> Admitted(q)]' = [[q \in Ids |-> Admitted(q)] EXCEPT ![s] = <<u, t>>]
    BY <1>1, <1>7, <2>2
  <2> HIDE DEF Active, Issued
  <2>7. Promise!Renew(s)
    BY <1>1, <1>6, <2>3, <2>4, <2>5, <2>6 DEF Promise!Renew, Promise!Unused, Admitted
  <2> QED
    BY <1>1, <2>7 DEF Promise!RegistryNext
<1> QED
  BY <1>8, <1>9, <1>10

\* Saving a row that has ended closes its session, if it was still open.
LEMMA EndedRowStep ==
  ASSUME SessionsInv, NEW s \in Issued, NEW row \in SessionRow, row.status # "ACTIVE",
         sessions' = [sessions EXCEPT ![s] = row]
  PROVE  Promise!RegistryNext
<1> DEFINE S == Active \cap {s}
<1>1. row # NoSession /\ s \in Ids /\ Active \subseteq Ids
  BY SessionsAssumption DEF Issued, Active
<1>2. sessions'[s] = row /\ \A q \in Ids \ {s} : sessions'[q] = sessions[q]
  BY <1>1 DEF SessionsInv, SessionsTypeOK
<1>3. UNCHANGED Issued /\ Active' = Active \ S
  BY <1>1, <1>2 DEF Issued, Active
<1>4. S \in SUBSET Active /\ S \in SUBSET Ids /\ \A q \in Active \ S : sessions'[q] = sessions[q]
  BY <1>1, <1>2
<1> HIDE DEF S
<1> QED
  BY <1>3, <1>4, ClosingStep DEF Promise!RegistryNext

LEMMA EndedSetStep ==
  ASSUME SessionsInv, NEW S \in SUBSET Active, NEW status \in Statuses \ {"ACTIVE"},
         sessions' = [s \in Ids |->
           IF s \in S THEN [sessions[s] EXCEPT !.status = status] ELSE sessions[s]]
  PROVE  Promise!RegistryNext
<1>1. \A s \in S : s \in Ids /\ sessions[s] \in SessionRow /\ s \in Issued
  BY DEF Active, Issued, SessionsInv, SessionsTypeOK
<1>2. \A s \in S : sessions'[s] \in SessionRow /\ sessions'[s].status # "ACTIVE"
  BY <1>1 DEF SessionRow
<1>3. \A s \in Ids \ S : sessions'[s] = sessions[s]
  OBVIOUS
<1>4. \A s \in S : sessions'[s] # NoSession
  BY <1>2, SessionsAssumption
<1>5. UNCHANGED Issued
  BY <1>1, <1>3, <1>4 DEF Issued
<1>6. Active' = Active \ S
  BY <1>2, <1>3, <1>5 DEF Active, Issued
<1>7. \A q \in Active \ S : sessions'[q] = sessions[q]
  BY <1>3 DEF Active, Issued
<1>8. S \in SUBSET Ids
  BY <1>1
<1> QED
  BY <1>5, <1>6, <1>7, <1>8, ClosingStep DEF Promise!RegistryNext

LEMMA RegistryStep ==
  ASSUME SessionsInv, [SessionsNext]_sessionsVars
  PROVE  [Promise!RegistryNext]_(Promise!registryVars)
<1>1. CASE UNCHANGED sessions
  BY <1>1, StutterStep
<1>2. ASSUME NEW w \in Workers, CreateSession(w) PROVE [Promise!RegistryNext]_(Promise!registryVars)
  BY <1>1, <1>2, OpeningStep
<1>3. ASSUME NEW w \in Workers, UpdateSessionToken(w)
      PROVE  [Promise!RegistryNext]_(Promise!registryVars)
  BY <1>1, <1>3, RenewingStep
<1>4. ASSUME NEW w \in Workers, MarkExpired(w) PROVE Promise!RegistryNext
  <2>1. PICK s : s = call[w].session
    OBVIOUS
  <2>2. s \in Issued /\ sessions[s] \in SessionRow
    BY <1>4, <2>1 DEF MarkExpired, SessionsInv, CallsFit, SessionsTypeOK, Issued
  <2> DEFINE row == [sessions[s] EXCEPT !.status = "EXPIRED"]
  <2>3. row \in SessionRow /\ row.status # "ACTIVE"
    BY <2>2 DEF SessionRow, Statuses
  <2>4. sessions' = [sessions EXCEPT ![s] = row]
    BY <1>4, <2>1 DEF MarkExpired
  <2> HIDE DEF row
  <2> QED
    BY <2>2, <2>3, <2>4, EndedRowStep
<1>5. ASSUME NEW w \in Workers, RevokeSession(w), ~UNCHANGED sessions PROVE Promise!RegistryNext
  <2>1. PICK s : s = call[w].session
    OBVIOUS
  <2>2. s \in Issued /\ call[w].row \in SessionRow
    BY <1>5, <2>1 DEF RevokeSession, SessionsInv, CallsFit
  <2> DEFINE row == [call[w].row EXCEPT !.status = "REVOKED"]
  <2>3. row \in SessionRow /\ row.status # "ACTIVE"
    BY <2>2 DEF SessionRow, Statuses
  <2>4. sessions' = [sessions EXCEPT ![s] = row]
    BY <1>5, <2>1 DEF RevokeSession
  <2> HIDE DEF row
  <2> QED
    BY <2>2, <2>3, <2>4, EndedRowStep
<1>6. ASSUME NEW w \in Workers, RevokeAllOthers(w) PROVE Promise!RegistryNext
  <2> DEFINE S == {s \in Active : sessions[s].user = call[w].user /\ sessions[s].token # call[w].token}
  <2>1. sessions' = [s \in Ids |->
          IF s \in S THEN [sessions[s] EXCEPT !.status = "REVOKED"] ELSE sessions[s]]
    BY <1>6 DEF RevokeAllOthers
  <2>2. S \in SUBSET Active /\ "REVOKED" \in Statuses \ {"ACTIVE"}
    BY DEF Statuses
  <2> HIDE DEF S
  <2> QED
    BY <2>1, <2>2, EndedSetStep
<1>7. CASE CleanUp
  <2>1. Overdue \in SUBSET Active /\ "EXPIRED" \in Statuses \ {"ACTIVE"}
    BY DEF Statuses, Overdue
  <2>2. sessions' = [s \in Ids |->
          IF s \in Overdue THEN [sessions[s] EXCEPT !.status = "EXPIRED"] ELSE sessions[s]]
    BY <1>7 DEF CleanUp
  <2> QED
    BY <2>1, <2>2, EndedSetStep
<1>8. CASE UNCHANGED sessionsVars
  BY <1>1, <1>8 DEF sessionsVars
<1>9. CASE Tick
  BY <1>1, <1>9 DEF Tick
<1>10. ASSUME NEW w \in Workers,
              \/ \E u \in Users : SignIn(w, u) \/ \E t \in Time : Present(w, u, t)
              \/ \E s \in Ids : RefreshToken(w, s)
              \/ Validate(w) \/ Serve(w) \/ ReadToRevoke(w)
       PROVE  UNCHANGED sessions
  BY <1>10 DEF SignIn, Present, RefreshToken, Validate, Serve, ReadToRevoke
<1> QED
  BY <1>1, <1>2, <1>3, <1>4, <1>5, <1>6, <1>7, <1>8, <1>9, <1>10 DEF SessionsNext

\* However refreshes, revocations, expiry marks and the clean-up overlap, a session that has
\* ended never admits again, and no credential admits two sessions.
THEOREM SessionsImplementRegistry == SessionsSpec => ImplementsRegistry
<1>1. SessionsInit => Promise!RegistryInit
  BY DEF SessionsInit, Promise!RegistryInit, Active, Issued
<1>2. SessionsInv /\ [SessionsNext]_sessionsVars => [Promise!RegistryNext]_(Promise!registryVars)
  BY RegistryStep
<1> QED
  BY <1>1, <1>2, SessionsInvAlways, PTL DEF SessionsSpec, ImplementsRegistry, Promise!RegistrySpec

==============================================================================
