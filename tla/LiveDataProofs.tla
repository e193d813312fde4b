--------------------------- MODULE LiveDataProofs ---------------------------
(***************************************************************************)
(* Theorems of LiveData for any number of clients, calls, marathons and    *)
(* participants.  The reference counts follow the sets of the clients at   *)
(* every step, because both change in the same one; and while the last     *)
(* topic is being given up, the call that does so will stop listening.     *)
(* The consumers follow the counts, because the channel answers in order   *)
(* and whoever gives up a topic looks for the others of its marathon.      *)
(***************************************************************************)
EXTENDS LiveData, FiniteSetTheorems, TLAPS

LiveFits ==
  /\ socket \in [Clients -> {"open", "closed", "gone"}]
  /\ watch \in [Clients -> SUBSET Topics]
  /\ released \in [Clients -> SUBSET Topics]
  /\ count \in [Topics -> Nat]
  /\ listening \in BOOLEAN
  /\ pc = [w \in Workers |-> pc[w]]
  /\ client = [w \in Workers |-> client[w]]
  /\ topic = [w \in Workers |-> topic[w]]
  /\ tag = [w \in Workers |-> tag[w]]

\* What a call knows of its client: one that leaves has closed the socket.
CallFits(w) ==
  /\ pc[w] # "idle" => client[w] \in Clients
  /\ pc[w] = "idle" => w \notin leaving
  /\ w \in leaving => socket[client[w]] # "open"
  /\ pc[w] = "next" => w \in leaving
  /\ pc[w] = "member" => topic[w] \in Topics /\ topic[w].kind = "myLive"
  /\ pc[w] = "cancel" => tag[w] # NoTag

OpenHoldAll == \A c \in Clients : socket[c] = "open" => released[c] = {}

TopicFits(t) ==
  /\ Cardinality(Holders(t)) <= count[t]
  /\ t.kind # "myLive" => count[t] = Cardinality(Holders(t))

CountsFit == \A t \in Topics : TopicFits(t)

Counted == \E t \in Topics : count[t] > 0

\* The call will come to Finish, and stop listening unless somebody is counted by then.
Ending(w) == pc[w] \in {"which", "looking", "cancel"} \/ (pc[w] = "failed" /\ tag[w] # NoTag)

ListeningFits ==
  /\ Counted => listening
  /\ listening /\ ~Counted => \E w \in Workers : Ending(w)

LiveInv ==
  /\ LiveFits
  /\ \A w \in Workers : CallFits(w)
  /\ OpenHoldAll
  /\ CountsFit
  /\ ListeningFits

LEMMA CountsFollow ==
  ASSUME LiveInv
  PROVE  CountsMatchHolders
<1>1. Quiet => \A w \in Workers : ~Ending(w)
  BY DEF Quiet, Ending
<1> QED
  BY <1>1 DEF LiveInv, CountsFit, TopicFits, ListeningFits, Counted, CountsMatchHolders

LEMMA HoldersAreFinite ==
  ASSUME NEW t
  PROVE  IsFiniteSet(Holders(t)) /\ Cardinality(Holders(t)) \in Nat
BY LiveDataAssumption, FS_Subset, FS_CardinalityType DEF Holders

LEMMA InitLiveInv == LiveInit => LiveInv
<1> SUFFICES ASSUME LiveInit PROVE LiveInv
  OBVIOUS
<1>1. LiveFits
  BY DEF LiveInit, LiveFits
<1>2. (\A w \in Workers : CallFits(w)) /\ OpenHoldAll
  BY DEF LiveInit, CallFits, OpenHoldAll
<1>3. CountsFit
  <2> SUFFICES ASSUME NEW t \in Topics PROVE TopicFits(t)
    BY DEF CountsFit
  <2>1. Holders(t) = {} /\ count[t] = 0
    BY DEF LiveInit, Holders, Held
  <2> QED
    BY <2>1, FS_EmptySet DEF TopicFits
<1>4. ListeningFits
  BY DEF LiveInit, ListeningFits, Counted
<1> QED
  BY <1>1, <1>2, <1>3, <1>4 DEF LiveInv

------------------------------------------------------------------------------
\* Counts.

\* One client takes up or gives up one topic, and its count follows; a my-live count may
\* go up although its client has the topic.
LEMMA CountsStep ==
  ASSUME LiveFits, CountsFit, NEW c \in Clients, NEW t \in Topics,
         \A d \in Clients \ {c} : Held(d)' = Held(d),
         \A s \in Topics \ {t} : s \in Held(c)' <=> s \in Held(c),
         \A s \in Topics \ {t} : count'[s] = count[s],
         \/ t \notin Held(c) /\ t \in Held(c)' /\ count'[t] = count[t] + 1
         \/ t \in Held(c) /\ t \notin Held(c)' /\ count[t] > 0 /\ count'[t] = count[t] - 1
         \/ (t \in Held(c)' <=> t \in Held(c)) /\ t.kind = "myLive" /\ count'[t] = count[t] + 1
  PROVE  CountsFit'
<1>1. ASSUME NEW s \in Topics, s # t
      PROVE  TopicFits(s)'
  <2>1. Holders(s)' = Holders(s)
    BY <1>1 DEF Holders
  <2> QED
    BY <1>1, <2>1 DEF CountsFit, TopicFits
<1>2. TopicFits(t)'
  <2>1. TopicFits(t) /\ count[t] \in Nat /\ Cardinality(Holders(t)) \in Nat /\ IsFiniteSet(Holders(t))
    BY HoldersAreFinite DEF CountsFit, LiveFits
  <2>2. CASE t \notin Held(c) /\ t \in Held(c)' /\ count'[t] = count[t] + 1
    <3>1. Holders(t)' = Holders(t) \cup {c} /\ c \notin Holders(t)
      BY <2>2 DEF Holders
    <3>2. Cardinality(Holders(t) \cup {c}) = Cardinality(Holders(t)) + 1
      BY <2>1, <3>1, FS_AddElement
    <3> QED
      BY <2>1, <2>2, <3>1, <3>2 DEF TopicFits
  <2>3. CASE t \in Held(c) /\ t \notin Held(c)' /\ count[t] > 0 /\ count'[t] = count[t] - 1
    <3>1. Holders(t)' = Holders(t) \ {c} /\ c \in Holders(t)
      BY <2>3 DEF Holders
    <3>2. Cardinality(Holders(t) \ {c}) = Cardinality(Holders(t)) - 1
      BY <2>1, <3>1, FS_RemoveElement
    <3> QED
      BY <2>1, <2>3, <3>1, <3>2 DEF TopicFits
  <2>4. CASE (t \in Held(c)' <=> t \in Held(c)) /\ t.kind = "myLive" /\ count'[t] = count[t] + 1
    <3>1. Holders(t)' = Holders(t)
      BY <2>4 DEF Holders
    <3> QED
      BY <2>1, <2>4, <3>1 DEF TopicFits
  <2> QED
    BY <2>2, <2>3, <2>4
<1> QED
  BY <1>1, <1>2 DEF CountsFit

LEMMA CountsKept ==
  ASSUME CountsFit, UNCHANGED <<watch, released, count>>
  PROVE  CountsFit'
BY DEF CountsFit, TopicFits, Holders, Held

------------------------------------------------------------------------------
\* Calls and listening.

StepOf(w) ==
  \A v \in Workers \ {w} : /\ pc'[v] = pc[v] /\ tag'[v] = tag[v] /\ client'[v] = client[v]
                           /\ topic'[v] = topic[v] /\ (v \in leaving' <=> v \in leaving)

\* One call goes on, and no socket opens again.
LEMMA CallsStep ==
  ASSUME LiveInv, NEW w \in Workers, StepOf(w),
         \A c : socket[c] # "open" => socket'[c] # "open",
         CallFits(w)'
  PROVE  \A v \in Workers : CallFits(v)'
BY DEF LiveInv, CallFits, StepOf

\* What a step of call w may do to the counts and to listening.
Heard(w) ==
  \/ listening' /\ Counted'
  \/ (listening' <=> listening /\ Counted') /\ (Counted' => Counted)
  \/ Ending(w)' /\ (listening' <=> listening) /\ (Counted' => Counted)
  \/ ~Ending(w) /\ (listening' <=> listening) /\ (Counted' <=> Counted)
  \/ Counted /\ Counted' /\ (listening' <=> listening)

LEMMA ListeningStep ==
  ASSUME LiveInv, NEW w \in Workers, StepOf(w), Heard(w)
  PROVE  ListeningFits'
<1>1. \A v \in Workers \ {w} : Ending(v) => Ending(v)'
  BY DEF StepOf, Ending
<1>2. (Counted => listening) /\ (listening /\ ~Counted => \E v \in Workers : Ending(v))
  BY DEF LiveInv, ListeningFits
<1>3. Counted' => listening'
  BY <1>2, Zenon DEF Heard
<1>4. ASSUME listening', ~Counted'
      PROVE  \E v \in Workers : Ending(v)'
  <2>1. CASE Ending(w)'
    BY <2>1
  <2>2. CASE ~Ending(w) /\ (listening' <=> listening) /\ (Counted' <=> Counted)
    <3>1. PICK v \in Workers : Ending(v)
      BY <1>2, <1>4, <2>2
    <3>2. v # w
      BY <2>2, <3>1
    <3> QED
      BY <1>1, <3>1, <3>2
  <2> QED
    BY <1>4, <2>1, <2>2, Zenon DEF Heard
<1> QED
  BY <1>3, <1>4, Zenon DEF ListeningFits

LEMMA StepsAreLocal ==
  ASSUME LiveFits, NEW w \in Workers, NEW there, Goto(w, there),
         UNCHANGED client \/ \E c : client' = [client EXCEPT ![w] = c],
         UNCHANGED topic \/ \E t : topic' = [topic EXCEPT ![w] = t],
         UNCHANGED tag \/ \E x : tag' = [tag EXCEPT ![w] = x],
         UNCHANGED leaving \/ leaving' = leaving \cup {w}
  PROVE  /\ StepOf(w) /\ pc'[w] = there
         /\ pc' = [v \in Workers |-> pc'[v]]
         /\ client' = [v \in Workers |-> client'[v]]
         /\ topic' = [v \in Workers |-> topic'[v]]
         /\ tag' = [v \in Workers |-> tag'[v]]
BY DEF LiveFits, Goto, StepOf

LEMMA FinishHeard ==
  ASSUME LiveInv, NEW w \in Workers, Finish(w), Counted' => Counted
  PROVE  /\ Heard(w) /\ listening' \in BOOLEAN
         /\ \E there \in {"next", "done"} : Goto(w, there) /\ (there = "next" => w \in leaving')
<1>1. listening' = (listening /\ \E t \in Topics : count'[t] > 0)
  BY DEF Finish
<1>2. Counted' <=> \E t \in Topics : count'[t] > 0
  BY DEF Counted
<1>3. listening' \in BOOLEAN /\ (listening' <=> listening /\ Counted')
  BY <1>1, <1>2, Zenon
<1> QED
  BY <1>3 DEF Heard, Finish

\* What is left of a subscription to do after the count has gone up.
LEMMA IncrementKnows ==
  ASSUME LiveFits, NEW w \in Workers, NEW t \in Topics, Increment(w, t)
  PROVE  /\ count' \in [Topics -> Nat] /\ count'[t] = count[t] + 1
         /\ \A s \in Topics \ {t} : count'[s] = count[s]
         /\ listening' \in BOOLEAN /\ listening' /\ Counted'
         /\ \E there \in {"done", "lookup", "declare"} : Goto(w, there)
<1>1. count' = [count EXCEPT ![t] = @ + 1] /\ listening' = TRUE
  BY DEF Increment
<1>2. count' \in [Topics -> Nat] /\ count'[t] = count[t] + 1 /\ count'[t] > 0
  BY <1>1 DEF LiveFits
<1>3. \A s \in Topics \ {t} : count'[s] = count[s]
  BY <1>1 DEF LiveFits
<1>4. Counted'
  BY <1>2 DEF Counted
<1>5. \E there \in {"done", "lookup", "declare"} : Goto(w, there)
  BY DEF Increment, RequestConsume
<1> QED
  BY <1>1, <1>2, <1>3, <1>4, <1>5

\* What is left of the end of a subscription to do after the count has gone down.
LEMMA CountDownKnows ==
  ASSUME LiveInv, NEW w \in Workers, NEW t \in Topics, CountDown(w, t)
  PROVE  /\ count' \in [Topics -> Nat] /\ count[t] > 0 /\ count'[t] = count[t] - 1
         /\ \A s \in Topics \ {t} : count'[s] = count[s]
         /\ listening' \in BOOLEAN /\ Heard(w)
         /\ \E there \in {"next", "done", "which", "looking", "cancel"} :
              /\ Goto(w, there)
              /\ there = "next" => w \in leaving'
              /\ IF there = "cancel" THEN \E x : x # NoTag /\ tag' = [tag EXCEPT ![w] = x]
                                     ELSE UNCHANGED tag
<1>1. count' = [count EXCEPT ![t] = @ - 1] /\ (count[t] > 1 \/ count[t] = 1) /\ count[t] \in Nat
  BY DEF CountDown, LiveInv, LiveFits
<1>2. /\ count' \in [Topics -> Nat] /\ count[t] > 0 /\ count'[t] = count[t] - 1
      /\ \A s \in Topics \ {t} : count'[s] = count[s]
  <2>1. PICK n \in Nat : n = count[t] - 1
    BY <1>1
  <2>2. count' = [count EXCEPT ![t] = n]
    BY <1>1, <2>1
  <2> QED
    BY <1>1, <2>1, <2>2 DEF LiveInv, LiveFits
<1>3. Counted /\ listening \in BOOLEAN
  BY <1>2 DEF Counted, LiveInv, LiveFits
<1>4. pc = [v \in Workers |-> pc[v]]
  BY DEF LiveInv, LiveFits
<1>5. ASSUME NEW there \in {"which", "looking"}, Goto(w, there), UNCHANGED <<listening, tag>>
      PROVE  /\ listening' \in BOOLEAN /\ Heard(w)
             /\ Goto(w, there) /\ UNCHANGED tag
  <2>1. Ending(w)'
    BY <1>4, <1>5 DEF Goto, Ending
  <2> QED
    BY <1>3, <1>5, <2>1 DEF Heard
<1>6. CASE count[t] > 1
  <2>1. Counted'
    BY <1>1, <1>2, <1>6 DEF Counted
  <2>2. UNCHANGED <<listening, tag>> /\ Goto(w, IF w \in leaving' THEN "next" ELSE "done")
    BY <1>1, <1>6 DEF CountDown
  <2> QED
    BY <1>2, <1>3, <2>1, <2>2 DEF Heard
<1>7. CASE count[t] = 1 /\ RequestCancel(w, t.id)
  <2>1. CASE Finish(w) /\ UNCHANGED tag
    BY <1>2, <1>3, <2>1, FinishHeard
  <2>2. CASE /\ consumer[t.id] # NoTag /\ Goto(w, "cancel")
             /\ tag' = [tag EXCEPT ![w] = consumer[t.id]] /\ UNCHANGED listening
    <3>1. Ending(w)'
      BY <1>4, <2>2 DEF Goto, Ending
    <3> QED
      BY <1>2, <1>3, <2>2, <3>1 DEF Heard
  <2> QED
    BY <1>7, <2>1, <2>2 DEF RequestCancel
<1>8. CASE count[t] = 1 /\ (\E there \in {"which", "looking"} : Goto(w, there)) /\ UNCHANGED <<listening, tag>>
  BY <1>2, <1>5, <1>8
<1> QED
  BY <1>6, <1>7, <1>8 DEF CountDown

------------------------------------------------------------------------------
\* A call that has begun goes on, and changes no subscription.
LEMMA Proceeds ==
  ASSUME LiveInv, NEW w \in Workers, pc[w] # "idle",
         UNCHANGED <<socket, watch, released, count, client, topic, leaving>>,
         UNCHANGED tag \/ \E x : tag' = [tag EXCEPT ![w] = x],
         NEW there, Goto(w, there), there \notin {"idle", "member"},
         there = "next" => w \in leaving,
         there = "cancel" => tag'[w] # NoTag,
         listening' \in BOOLEAN, Heard(w)
  PROVE  LiveInv'
<1>1. /\ StepOf(w) /\ pc'[w] = there
      /\ pc' = [v \in Workers |-> pc'[v]] /\ client' = [v \in Workers |-> client'[v]]
      /\ topic' = [v \in Workers |-> topic'[v]] /\ tag' = [v \in Workers |-> tag'[v]]
  BY StepsAreLocal DEF LiveInv
<1>2. LiveFits'
  BY <1>1 DEF LiveInv, LiveFits
<1>3. CallFits(w)'
  BY <1>1 DEF LiveInv, CallFits
<1>4. (\A v \in Workers : CallFits(v))'
  BY <1>1, <1>3, CallsStep
<1>5. OpenHoldAll' /\ CountsFit'
  BY CountsKept DEF LiveInv, OpenHoldAll
<1>6. ListeningFits'
  BY <1>1, ListeningStep
<1> QED
  BY <1>2, <1>4, <1>5, <1>6 DEF LiveInv

\* Nothing changes that the invariant looks at.
LEMMA Stutters ==
  ASSUME LiveInv, UNCHANGED <<subscriptions, pc, client, topic, leaving, tag>>
  PROVE  LiveInv'
<1> USE DEF subscriptions
<1>1. LiveFits' /\ (\A w \in Workers : CallFits(w))' /\ OpenHoldAll'
  BY DEF LiveInv, LiveFits, CallFits, OpenHoldAll
<1>2. CountsFit'
  BY CountsKept DEF LiveInv
<1>3. ListeningFits'
  BY DEF LiveInv, ListeningFits, Counted, Ending
<1> QED
  BY <1>1, <1>2, <1>3 DEF LiveInv

\* A call that was not about to stop listening goes on, and is not about to.
LEMMA AnsweredInv ==
  ASSUME LiveInv, NEW w \in Workers,
         NoMember(w) \/ FoundHome(w) \/ NoHome(w) \/ AnswerDeclare(w) \/ AnswerConsume(w)
  PROVE  LiveInv'
<1>1. /\ pc[w] \in {"member", "lookup", "declare", "consume"}
      /\ UNCHANGED subscriptions /\ UNCHANGED local
      /\ \E there \in {"done", "declare", "consume"} : Goto(w, there)
  BY DEF NoMember, FoundHome, NoHome, AnswerDeclare, AnswerConsume, RequestConsume, subscriptions
<1>2. ~Ending(w) /\ (Counted' <=> Counted) /\ listening' = listening /\ listening \in BOOLEAN
  BY <1>1 DEF Ending, Counted, subscriptions, LiveInv, LiveFits
<1>3. Heard(w)
  BY <1>2 DEF Heard
<1> QED
  BY <1>1, <1>2, <1>3, Proceeds DEF subscriptions, local

LEMMA WhichInv ==
  ASSUME LiveInv, NEW w \in Workers, Which(w)
  PROVE  LiveInv'
<1>1. /\ pc[w] = "which" /\ Goto(w, "looking")
      /\ UNCHANGED <<socket, watch, released, count, listening, client, topic, leaving, tag>>
  BY DEF Which, subscriptions
<1>2. Ending(w)' /\ (Counted' <=> Counted) /\ listening \in BOOLEAN
  BY <1>1 DEF Goto, Ending, Counted, LiveInv, LiveFits
<1>3. Heard(w)
  BY <1>1, <1>2 DEF Heard
<1> QED
  BY <1>1, <1>2, <1>3, Proceeds

\* A call finishes.
LEMMA FinishInv ==
  ASSUME LiveInv, NEW w \in Workers, pc[w] # "idle", Finish(w),
         UNCHANGED <<socket, watch, released, count, client, topic, leaving, tag>>
  PROVE  LiveInv'
<1>1. Counted' => Counted
  BY DEF Counted
<1>2. PICK there \in {"next", "done"} : Goto(w, there) /\ (there = "next" => w \in leaving')
  BY <1>1, FinishHeard
<1> QED
  BY <1>1, <1>2, FinishHeard, Proceeds

LEMMA DecideInv ==
  ASSUME LiveInv, NEW w \in Workers, Decide(w)
  PROVE  LiveInv'
<1>1. pc[w] = "looking" /\ UNCHANGED <<socket, watch, released, count, client, topic, leaving>>
  BY DEF Decide
<1>2. CASE Finish(w) /\ UNCHANGED tag
  BY <1>1, <1>2, FinishInv
<1>3. CASE \E x : x # NoTag /\ tag' = [tag EXCEPT ![w] = x] /\ Goto(w, "cancel") /\ UNCHANGED listening
  <2>1. PICK x : x # NoTag /\ tag' = [tag EXCEPT ![w] = x]
    BY <1>3
  <2>2. tag'[w] # NoTag
    BY <2>1 DEF LiveInv, LiveFits
  <2>3. Ending(w)' /\ (Counted' <=> Counted) /\ listening' \in BOOLEAN
    BY <1>1, <1>3 DEF Goto, Ending, Counted, LiveInv, LiveFits
  <2>4. Heard(w)
    BY <1>3, <2>3 DEF Heard
  <2> QED
    BY <1>1, <1>3, <2>1, <2>2, <2>3, <2>4, Proceeds
<1> QED
  BY <1>2, <1>3 DEF Decide, RequestCancel

LEMMA CancelledInv ==
  ASSUME LiveInv, NEW w \in Workers, WhichFails(w) \/ AnswerCancel(w) \/ RequestFails(w)
  PROVE  LiveInv'
<1>1. /\ pc[w] \in {"which", "cancel", "failed"}
      /\ UNCHANGED <<socket, watch, released, count, client, topic, leaving, tag>>
  BY DEF WhichFails, AnswerCancel, RequestFails, local
<1>2. CASE Finish(w)
  BY <1>1, <1>2, FinishInv
<1>3. CASE pc[w] = "failed" /\ tag[w] = NoTag /\ Goto(w, "done") /\ UNCHANGED listening
  <2>1. ~Ending(w) /\ (Counted' <=> Counted) /\ listening \in BOOLEAN
    BY <1>1, <1>3 DEF Ending, Counted, LiveInv, LiveFits
  <2>2. Heard(w)
    BY <1>3, <2>1 DEF Heard
  <2> QED
    BY <1>1, <1>3, <2>1, <2>2, Proceeds
<1> QED
  BY <1>2, <1>3 DEF WhichFails, AnswerCancel, RequestFails

\* The requests that were to be answered fail; those who gave up a topic still do.
LEMMA LinkFailsInv ==
  ASSUME LiveInv, NEW now, LinkFails(now)
  PROVE  LiveInv'
<1>1. /\ UNCHANGED subscriptions /\ UNCHANGED local
      /\ pc' = [w \in Workers |-> IF pc[w] \in {"declare", "consume", "cancel"} THEN "failed" ELSE pc[w]]
  BY DEF LinkFails
<1> USE DEF subscriptions, local
<1>2. LiveFits' /\ (\A w \in Workers : CallFits(w))' /\ OpenHoldAll'
  BY <1>1 DEF LiveInv, LiveFits, CallFits, OpenHoldAll
<1>3. CountsFit'
  BY <1>1, CountsKept DEF LiveInv
<1>4. \A w \in Workers : Ending(w) => Ending(w)'
  BY <1>1 DEF LiveInv, CallFits, Ending
<1>5. ListeningFits'
  BY <1>1, <1>4 DEF LiveInv, ListeningFits, Counted
<1> QED
  BY <1>2, <1>3, <1>5 DEF LiveInv

\* A subscription begins.
LEMMA SubscribeInv ==
  ASSUME LiveInv, NEW w \in Workers, NEW c \in Clients, NEW t \in Topics, Subscribe(w, c, t)
  PROVE  LiveInv'
<1>1. /\ pc[w] = "idle" /\ socket[c] = "open" /\ t \notin watch[c]
      /\ client' = [client EXCEPT ![w] = c] /\ topic' = [topic EXCEPT ![w] = t]
      /\ UNCHANGED <<socket, released, leaving, tag>>
  BY DEF Subscribe, Call, AlreadyWatched
<1>2. ~Ending(w) /\ w \notin leaving /\ released[c] = {} /\ LiveFits
  BY <1>1 DEF Ending, LiveInv, CallFits, OpenHoldAll
<1>3. OpenHoldAll'
  BY <1>1 DEF LiveInv, OpenHoldAll
<1>4. CASE t.kind # "myLive" /\ watch' = [watch EXCEPT ![c] = @ \cup {t}] /\ Increment(w, t)
  <2>1. /\ count' \in [Topics -> Nat] /\ count'[t] = count[t] + 1
        /\ \A s \in Topics \ {t} : count'[s] = count[s]
        /\ listening' \in BOOLEAN /\ listening' /\ Counted'
    BY <1>2, <1>4, IncrementKnows
  <2>2. PICK there \in {"done", "lookup", "declare"} : Goto(w, there)
    BY <1>2, <1>4, IncrementKnows
  <2>3. /\ StepOf(w) /\ pc'[w] = there
        /\ pc' = [v \in Workers |-> pc'[v]] /\ client' = [v \in Workers |-> client'[v]]
        /\ topic' = [v \in Workers |-> topic'[v]] /\ tag' = [v \in Workers |-> tag'[v]]
    BY <1>1, <1>2, <2>2, StepsAreLocal
  <2>4. LiveFits'
    BY <1>1, <1>2, <1>4, <2>1, <2>3 DEF LiveFits
  <2>5. CallFits(w)'
    BY <1>1, <1>2, <2>3 DEF LiveFits, CallFits
  <2>6. (\A v \in Workers : CallFits(v))'
    BY <1>1, <2>3, <2>5, CallsStep
  <2>7. CountsFit'
    <3>1. /\ \A d \in Clients \ {c} : Held(d)' = Held(d)
          /\ \A s \in Topics \ {t} : s \in Held(c)' <=> s \in Held(c)
          /\ t \notin Held(c) /\ t \in Held(c)'
      BY <1>1, <1>2, <1>4 DEF Held, LiveFits
    <3> QED
      BY <1>2, <2>1, <3>1, CountsStep DEF LiveInv
  <2>8. Heard(w)
    BY <2>1 DEF Heard
  <2> QED
    BY <1>3, <2>3, <2>4, <2>6, <2>7, <2>8, ListeningStep DEF LiveInv
<1>5. CASE t.kind = "myLive" /\ Goto(w, "member") /\ UNCHANGED <<watch, count, listening>>
  <2>1. /\ StepOf(w) /\ pc'[w] = "member"
        /\ pc' = [v \in Workers |-> pc'[v]] /\ client' = [v \in Workers |-> client'[v]]
        /\ topic' = [v \in Workers |-> topic'[v]] /\ tag' = [v \in Workers |-> tag'[v]]
    BY <1>1, <1>2, <1>5, StepsAreLocal
  <2>2. LiveFits'
    BY <1>1, <1>2, <1>5, <2>1 DEF LiveFits
  <2>3. CallFits(w)'
    BY <1>1, <1>2, <1>5, <2>1 DEF LiveFits, CallFits
  <2>4. (\A v \in Workers : CallFits(v))'
    BY <1>1, <2>1, <2>3, CallsStep
  <2>5. CountsFit'
    BY <1>1, <1>5, CountsKept DEF LiveInv
  <2>6. Heard(w)
    BY <1>2, <1>5 DEF Heard, Counted
  <2> QED
    BY <1>3, <2>1, <2>2, <2>4, <2>5, <2>6, ListeningStep DEF LiveInv
<1> QED
  BY <1>4, <1>5 DEF Subscribe

\* The topic is counted even if the client is gone or has it by now.
LEMMA FoundMemberInv ==
  ASSUME LiveInv, NEW w \in Workers, FoundMember(w)
  PROVE  LiveInv'
<1>1. PICK c, t : c = client[w] /\ t = topic[w]
  OBVIOUS
<1>2. /\ pc[w] = "member" /\ Increment(w, t)
      /\ watch' = IF socket[c] = "gone" THEN watch ELSE [watch EXCEPT ![c] = @ \cup {t}]
      /\ UNCHANGED <<socket, released, client, topic, leaving, tag>>
  BY <1>1 DEF FoundMember, local
<1>3. c \in Clients /\ t \in Topics /\ t.kind = "myLive" /\ LiveFits
  BY <1>1, <1>2 DEF LiveInv, CallFits
<1>4. /\ count' \in [Topics -> Nat] /\ count'[t] = count[t] + 1
      /\ \A s \in Topics \ {t} : count'[s] = count[s]
      /\ listening' \in BOOLEAN /\ listening' /\ Counted'
  BY <1>2, <1>3, IncrementKnows
<1>5. PICK there \in {"done", "lookup", "declare"} : Goto(w, there)
  BY <1>2, <1>3, IncrementKnows
<1>6. /\ StepOf(w) /\ pc'[w] = there
      /\ pc' = [v \in Workers |-> pc'[v]] /\ client' = [v \in Workers |-> client'[v]]
      /\ topic' = [v \in Workers |-> topic'[v]] /\ tag' = [v \in Workers |-> tag'[v]]
  BY <1>2, <1>3, <1>5, StepsAreLocal
<1>7. LiveFits'
  BY <1>2, <1>3, <1>4, <1>6 DEF LiveFits
<1>8. CallFits(w)'
  BY <1>1, <1>2, <1>3, <1>6 DEF LiveInv, CallFits
<1>9. (\A v \in Workers : CallFits(v))'
  BY <1>2, <1>6, <1>8, CallsStep
<1>10. OpenHoldAll'
  BY <1>2 DEF LiveInv, OpenHoldAll
<1>11. CountsFit'
  <2>1. /\ \A d \in Clients \ {c} : Held(d)' = Held(d)
        /\ \A s \in Topics \ {t} : s \in Held(c)' <=> s \in Held(c)
        /\ t \in Held(c) => t \in Held(c)'
    BY <1>2, <1>3 DEF Held, LiveFits
  <2> QED
    BY <1>3, <1>4, <2>1, CountsStep DEF LiveInv
<1>12. Heard(w)
  BY <1>4 DEF Heard
<1> QED
  BY <1>6, <1>7, <1>9, <1>10, <1>11, <1>12, ListeningStep DEF LiveInv

LEMMA UnsubscribeInv ==
  ASSUME LiveInv, NEW w \in Workers, NEW c \in Clients, NEW t \in Topics, Unsubscribe(w, c, t)
  PROVE  LiveInv'
<1>1. /\ pc[w] = "idle" /\ socket[c] = "open" /\ t \in watch[c] /\ CountDown(w, t)
      /\ client' = [client EXCEPT ![w] = c] /\ topic' = [topic EXCEPT ![w] = t]
      /\ watch' = [watch EXCEPT ![c] = @ \ {t}]
      /\ UNCHANGED <<socket, released, leaving>>
  BY DEF Unsubscribe, Call
<1>2. w \notin leaving /\ released[c] = {} /\ LiveFits
  BY <1>1 DEF LiveInv, CallFits, OpenHoldAll
<1>3. /\ count' \in [Topics -> Nat] /\ count[t] > 0 /\ count'[t] = count[t] - 1
      /\ \A s \in Topics \ {t} : count'[s] = count[s]
      /\ listening' \in BOOLEAN /\ Heard(w)
  BY <1>1, CountDownKnows
<1>4. PICK there \in {"next", "done", "which", "looking", "cancel"} :
        /\ Goto(w, there)
        /\ there = "next" => w \in leaving'
        /\ IF there = "cancel" THEN \E x : x # NoTag /\ tag' = [tag EXCEPT ![w] = x]
                               ELSE UNCHANGED tag
  BY <1>1, CountDownKnows
<1>5. /\ StepOf(w) /\ pc'[w] = there
      /\ pc' = [v \in Workers |-> pc'[v]] /\ client' = [v \in Workers |-> client'[v]]
      /\ topic' = [v \in Workers |-> topic'[v]] /\ tag' = [v \in Workers |-> tag'[v]]
  BY <1>1, <1>2, <1>4, StepsAreLocal
<1>6. LiveFits'
  BY <1>1, <1>2, <1>3, <1>5 DEF LiveFits
<1>7. CallFits(w)'
  <2>1. client'[w] = c /\ (there = "cancel" => tag'[w] # NoTag)
    BY <1>1, <1>2, <1>4 DEF LiveFits
  <2> QED
    BY <1>1, <1>2, <1>4, <1>5, <2>1 DEF CallFits
<1>8. (\A v \in Workers : CallFits(v))'
  BY <1>1, <1>5, <1>7, CallsStep
<1>9. OpenHoldAll'
  BY <1>1 DEF LiveInv, OpenHoldAll
<1>10. CountsFit'
  <2>1. /\ \A d \in Clients \ {c} : Held(d)' = Held(d)
        /\ \A s \in Topics \ {t} : s \in Held(c)' <=> s \in Held(c)
        /\ t \in Held(c) /\ t \notin Held(c)'
    BY <1>1, <1>2 DEF Held, LiveFits
  <2> QED
    BY <1>2, <1>3, <2>1, CountsStep DEF LiveInv
<1> QED
  BY <1>3, <1>5, <1>6, <1>8, <1>9, <1>10, ListeningStep DEF LiveInv

\* handleDisconnect begins.
LEMMA DisconnectInv ==
  ASSUME LiveInv, NEW w \in Workers, NEW c \in Clients, Disconnect(w, c)
  PROVE  LiveInv'
<1>1. /\ pc[w] = "idle" /\ Goto(w, "next") /\ leaving' = leaving \cup {w}
      /\ client' = [client EXCEPT ![w] = c] /\ topic' = [topic EXCEPT ![w] = NoTopic]
      /\ socket' = [socket EXCEPT ![c] = "closed"]
      /\ UNCHANGED <<watch, released, count, listening, tag>>
  BY DEF Disconnect, Call
<1>3. /\ StepOf(w) /\ pc'[w] = "next"
      /\ pc' = [v \in Workers |-> pc'[v]] /\ client' = [v \in Workers |-> client'[v]]
      /\ topic' = [v \in Workers |-> topic'[v]] /\ tag' = [v \in Workers |-> tag'[v]]
  BY <1>1, StepsAreLocal DEF LiveInv
<1>4. LiveFits'
  BY <1>1, <1>3 DEF LiveInv, LiveFits
<1>5. CallFits(w)' /\ (\A d : socket[d] # "open" => socket'[d] # "open")
  BY <1>1, <1>3 DEF LiveInv, LiveFits, CallFits
<1>6. (\A v \in Workers : CallFits(v))'
  BY <1>3, <1>5, CallsStep
<1>7. OpenHoldAll' /\ CountsFit'
  BY <1>1, CountsKept DEF LiveInv, LiveFits, OpenHoldAll
<1>8. Heard(w)
  BY <1>1 DEF Heard, Counted, Ending
<1> QED
  BY <1>3, <1>4, <1>6, <1>7, <1>8, ListeningStep DEF LiveInv

LEMMA ReleaseInv ==
  ASSUME LiveInv, NEW w \in Workers, NEW t \in Topics, Release(w, t)
  PROVE  LiveInv'
<1>1. PICK c : c = client[w]
  OBVIOUS
<1>2. /\ pc[w] = "next" /\ t \in Held(c) /\ CountDown(w, t)
      /\ topic' = [topic EXCEPT ![w] = t]
      /\ released' = [released EXCEPT ![c] = @ \cup {t}]
      /\ UNCHANGED <<socket, watch, client, leaving>>
  BY <1>1 DEF Release
<1>3. c \in Clients /\ w \in leaving /\ socket[c] # "open" /\ LiveFits
  BY <1>1, <1>2 DEF LiveInv, CallFits
<1>4. /\ count' \in [Topics -> Nat] /\ count[t] > 0 /\ count'[t] = count[t] - 1
      /\ \A s \in Topics \ {t} : count'[s] = count[s]
      /\ listening' \in BOOLEAN /\ Heard(w)
  BY <1>2, CountDownKnows
<1>5. PICK there \in {"next", "done", "which", "looking", "cancel"} :
        /\ Goto(w, there)
        /\ there = "next" => w \in leaving'
        /\ IF there = "cancel" THEN \E x : x # NoTag /\ tag' = [tag EXCEPT ![w] = x]
                               ELSE UNCHANGED tag
  BY <1>2, CountDownKnows
<1>6. /\ StepOf(w) /\ pc'[w] = there
      /\ pc' = [v \in Workers |-> pc'[v]] /\ client' = [v \in Workers |-> client'[v]]
      /\ topic' = [v \in Workers |-> topic'[v]] /\ tag' = [v \in Workers |-> tag'[v]]
  BY <1>2, <1>3, <1>5, StepsAreLocal
<1>7. LiveFits'
  BY <1>2, <1>3, <1>4, <1>6 DEF LiveFits
<1>8. CallFits(w)'
  <2>1. client'[w] = c /\ (there = "cancel" => tag'[w] # NoTag)
    BY <1>1, <1>2, <1>3, <1>5 DEF LiveFits
  <2> QED
    BY <1>2, <1>3, <1>5, <1>6, <2>1 DEF CallFits
<1>9. (\A v \in Workers : CallFits(v))'
  BY <1>2, <1>6, <1>8, CallsStep
<1>10. OpenHoldAll'
  BY <1>2, <1>3 DEF LiveInv, LiveFits, OpenHoldAll
<1>11. CountsFit'
  <2>1. /\ \A d \in Clients \ {c} : Held(d)' = Held(d)
        /\ \A s \in Topics \ {t} : s \in Held(c)' <=> s \in Held(c)
        /\ t \notin Held(c)'
    BY <1>2, <1>3 DEF Held, LiveFits
  <2> QED
    BY <1>2, <1>3, <1>4, <2>1, CountsStep DEF LiveInv
<1> QED
  BY <1>4, <1>6, <1>7, <1>9, <1>10, <1>11, ListeningStep DEF LiveInv

\* The entry of a client that holds nothing any more is deleted.
LEMMA ForgetInv ==
  ASSUME LiveInv, NEW w \in Workers, Forget(w)
  PROVE  LiveInv'
<1>1. PICK c : c = client[w]
  OBVIOUS
<1>2. /\ pc[w] = "next" /\ Held(c) = {} /\ Goto(w, "done")
      /\ socket' = [socket EXCEPT ![c] = "gone"]
      /\ watch' = [watch EXCEPT ![c] = {}] /\ released' = [released EXCEPT ![c] = {}]
      /\ UNCHANGED <<count, listening, client, topic, leaving, tag>>
  BY <1>1 DEF Forget, local
<1>3. LiveFits /\ CountsFit
  BY DEF LiveInv
<1>4. /\ StepOf(w) /\ pc'[w] = "done"
      /\ pc' = [v \in Workers |-> pc'[v]] /\ client' = [v \in Workers |-> client'[v]]
      /\ topic' = [v \in Workers |-> topic'[v]] /\ tag' = [v \in Workers |-> tag'[v]]
  BY <1>2, <1>3, StepsAreLocal
<1>5. LiveFits'
  BY <1>2, <1>3, <1>4 DEF LiveFits
<1>6. \A d : socket[d] # "open" => socket'[d] # "open"
  BY <1>2, <1>3 DEF LiveFits
<1>7. CallFits(w)'
  BY <1>2, <1>4, <1>6 DEF LiveInv, CallFits
<1>8. (\A v \in Workers : CallFits(v))'
  BY <1>4, <1>6, <1>7, CallsStep
<1>9. OpenHoldAll'
  BY <1>2, <1>3 DEF LiveInv, LiveFits, OpenHoldAll
<1>10. CountsFit'
  <2>1. \A d \in Clients : Held(d)' = Held(d)
    BY <1>2, <1>3 DEF Held, LiveFits
  <2>2. \A s : Holders(s)' = Holders(s)
    BY <2>1 DEF Holders
  <2> QED
    BY <1>2, <1>3, <2>2 DEF CountsFit, TopicFits
<1>11. Heard(w)
  BY <1>2 DEF Heard, Counted, Ending
<1> QED
  BY <1>4, <1>5, <1>8, <1>9, <1>10, <1>11, ListeningStep DEF LiveInv

------------------------------------------------------------------------------
LEMMA LiveStep ==
  ASSUME LiveInv, [LiveNext]_liveVars
  PROVE  LiveInv'
<1>1. ASSUME NEW w \in Workers, NEW c \in Clients,
             (\E t \in Topics : Subscribe(w, c, t) \/ Unsubscribe(w, c, t)) \/ Disconnect(w, c)
      PROVE  LiveInv'
  BY <1>1, SubscribeInv, UnsubscribeInv, DisconnectInv
<1>2. ASSUME NEW w \in Workers,
             FoundMember(w) \/ NoMember(w) \/ FoundHome(w) \/ NoHome(w) \/ AnswerDeclare(w)
               \/ AnswerConsume(w) \/ Forget(w) \/ (\E t \in Topics : Release(w, t))
      PROVE  LiveInv'
  BY <1>2, FoundMemberInv, AnsweredInv, ForgetInv, ReleaseInv
<1>3. ASSUME NEW w \in Workers,
             Which(w) \/ WhichFails(w) \/ Decide(w) \/ AnswerCancel(w) \/ RequestFails(w)
      PROVE  LiveInv'
  BY <1>3, WhichInv, DecideInv, CancelledInv
<1>4. ASSUME (\E w \in Workers : LookingFails(w)) \/ LinkRestored \/ UNCHANGED liveVars
      PROVE  LiveInv'
  BY <1>4, Stutters DEF LookingFails, LinkRestored, liveVars, local
<1> QED
  BY <1>1, <1>2, <1>3, <1>4, LinkFailsInv DEF LiveNext

\* The gateway's maps of reference counts agree with the sets of its clients at every
\* step, and it listens to updates while anybody is counted and, between calls, only then,
\* however subscriptions, disconnections and failures overlap.
THEOREM LiveCountsMatchHolders == LiveSpec => []CountsMatchHolders
<1>1. LiveInit => LiveInv
  BY InitLiveInv
<1>2. LiveInv /\ [LiveNext]_liveVars => LiveInv'
  BY LiveStep
<1>3. LiveInv => CountsMatchHolders
  BY CountsFollow
<1> QED
  BY <1>1, <1>2, <1>3, PTL DEF LiveSpec

------------------------------------------------------------------------------
(* The consumers.  The channel answers in order, and its requests are those *)
(* of the calls that wait; hence no consumption is answered while a         *)
(* cancellation of its marathon still waits.                                *)

Waiting == {"declare", "consume", "cancel"}
Serving == {"lookup", "which", "looking"} \cup Waiting
At(w, m, places) == pc[w] \in places /\ Mine(w) = m
ServesTopic(w) ==
  /\ pc[w] \in Serving => topic[w] \in Topics
  /\ pc[w] = "which" => topic[w].kind = "participant"

\* A queue of calls: who is in it, who is in front of whom, and that nobody is twice.
IsIn(q, w) == \E i \in DOMAIN q : q[i] = w
Before(q, u, v) == \E i, j \in DOMAIN q : i < j /\ q[i] = u /\ q[j] = v
Distinct(q) == \A i, j \in DOMAIN q : q[i] = q[j] => i = j

Waits(w) == IsIn(channel, w)
Ahead(u, v) == Before(channel, u, v)

ChannelFits ==
  /\ channel \in Seq(Workers)
  /\ Distinct(channel)
  /\ \A w \in Workers : pc[w] \in Waiting <=> Waits(w)
  /\ link # "up" => channel = <<>>

FeedFits ==
  /\ consumer \in [Marathons -> Workers \cup {NoTag}]
  /\ broker \in [Marathons -> SUBSET Workers]
  /\ link \in {"up", "closed", "down"}
  /\ saw = [w \in Workers |-> saw[w]]
  /\ mishap = [m \in Marathons |-> mishap[m]]
  /\ \A w \in Workers : ServesTopic(w)
  /\ link # "up" => \A m \in Marathons : broker[m] = {}

\* At most one consumption of m is on its way, and then m has no consumer; whoever cancels
\* will leave none, and is answered before the next consumption.
InOrder(m) ==
  "overlap" \notin mishap[m] =>
    /\ broker[m] \subseteq {consumer[m]}
    /\ Consuming(m) => consumer[m] = NoTag
    /\ \A u, v \in Workers : At(u, m, {"declare", "consume"}) /\ At(v, m, {"declare", "consume"})
                               => u = v
    /\ \A v \in Workers : At(v, m, {"cancel"}) =>
         /\ broker[m] \subseteq {tag[v]}
         /\ \A u \in Workers : At(u, m, {"declare", "consume"}) => ~Ahead(u, v)

OrderInv == FeedFits /\ ChannelFits /\ \A m \in Marathons : InOrder(m)

LEMMA TopicsHaveMarathons ==
  ASSUME NEW t \in Topics
  PROVE  MarathonOf(t) \in Marathons /\ (t.kind # "participant" => MarathonOf(t) = t.id)
BY LiveDataAssumption DEF Topics, MarathonOf

LEMMA AppendToQueue ==
  ASSUME NEW q \in Seq(Workers), Distinct(q), NEW w \in Workers, ~IsIn(q, w),
         NEW r, r = Append(q, w)
  PROVE  /\ r \in Seq(Workers) /\ Distinct(r)
         /\ \A v : IsIn(r, v) <=> IsIn(q, v) \/ v = w
         /\ \A u, v : Before(r, u, v) <=> Before(q, u, v) \/ (IsIn(q, u) /\ v = w)
<1>1. PICK n \in Nat : n = Len(q) /\ DOMAIN q = 1..n
  OBVIOUS
<1>2. /\ r \in Seq(Workers) /\ DOMAIN r = 1..(n + 1)
      /\ r[n + 1] = w /\ \A i \in 1..n : r[i] = q[i]
  BY <1>1
<1>3. Distinct(r)
  BY <1>1, <1>2 DEF Distinct, IsIn
<1>4. ASSUME NEW v
      PROVE  IsIn(r, v) <=> IsIn(q, v) \/ v = w
  <2>1. n + 1 \in 1..(n + 1) /\ 1..n \subseteq 1..(n + 1) /\ \A i \in 1..(n + 1) : i \in 1..n \/ i = n + 1
    OBVIOUS
  <2> QED
    BY <1>1, <1>2, <2>1 DEF IsIn
<1>5. ASSUME NEW u, NEW v
      PROVE  Before(r, u, v) <=> Before(q, u, v) \/ (IsIn(q, u) /\ v = w)
  <2>1. ASSUME Before(r, u, v)
        PROVE  Before(q, u, v) \/ (IsIn(q, u) /\ v = w)
    <3>1. PICK i, j \in 1..(n + 1) : i < j /\ r[i] = u /\ r[j] = v
      BY <1>2, <2>1 DEF Before
    <3>2. i \in 1..n /\ (j \in 1..n \/ j = n + 1)
      BY <3>1
    <3> QED
      BY <1>1, <1>2, <3>1, <3>2 DEF Before, IsIn
  <2>2. ASSUME Before(q, u, v)
        PROVE  Before(r, u, v)
    <3>1. PICK i, j \in 1..n : i < j /\ q[i] = u /\ q[j] = v
      BY <1>1, <2>2 DEF Before
    <3>2. i \in 1..(n + 1) /\ j \in 1..(n + 1)
      BY <3>1
    <3> QED
      BY <1>2, <3>1, <3>2 DEF Before
  <2>3. ASSUME IsIn(q, u), v = w
        PROVE  Before(r, u, v)
    <3>1. PICK i \in 1..n : q[i] = u
      BY <1>1, <2>3 DEF IsIn
    <3>2. i \in 1..(n + 1) /\ n + 1 \in 1..(n + 1) /\ i < n + 1
      BY <3>1
    <3> QED
      BY <1>2, <2>3, <3>1, <3>2 DEF Before
  <2> QED
    BY <2>1, <2>2, <2>3
<1> QED
  BY <1>2, <1>3, <1>4, <1>5

LEMMA TailOfQueue ==
  ASSUME NEW q \in Seq(Workers), Distinct(q), q # <<>>, NEW w, w = Head(q), NEW r, r = Tail(q)
  PROVE  /\ w \in Workers /\ r \in Seq(Workers) /\ Distinct(r)
         /\ IsIn(q, w) /\ \A v : IsIn(r, v) <=> IsIn(q, v) /\ v # w
         /\ \A v : IsIn(q, v) /\ v # w => Before(q, w, v)
         /\ \A u, v : Before(r, u, v) <=> Before(q, u, v) /\ u # w
<1>1. PICK n \in Nat : n + 1 = Len(q) /\ DOMAIN q = 1..(n + 1) /\ q[1] = w
  <2>1. Len(q) \in Nat \ {0}
    OBVIOUS
  <2>2. PICK n \in Nat : n = Len(q) - 1
    BY <2>1
  <2>3. n + 1 = Len(q) /\ DOMAIN q = 1..Len(q) /\ Head(q) = q[1]
    BY <2>1, <2>2
  <2> QED
    BY <2>3
<1>2. 1 \in 1..(n + 1) /\ \A i \in 1..(n + 1) : (i # 1 => 1 < i)
  OBVIOUS
<1>3. w \in Workers /\ IsIn(q, w) /\ \A v : IsIn(q, v) /\ v # w => Before(q, w, v)
  BY <1>1, <1>2 DEF IsIn, Before
<1>4. r \in Seq(Workers) /\ DOMAIN r = 1..n /\ \A i \in 1..n : r[i] = q[i + 1]
  BY <1>1
<1>5. \A i \in 1..n : i + 1 \in 1..(n + 1) /\ q[i + 1] # w
  BY <1>1, <1>2 DEF Distinct
<1>6. Distinct(r)
  <2> SUFFICES ASSUME NEW i \in 1..n, NEW j \in 1..n, r[i] = r[j] PROVE i = j
    BY <1>4 DEF Distinct
  <2>1. i + 1 = j + 1
    BY <1>1, <1>4, <1>5 DEF Distinct
  <2> QED
    BY <2>1
<1>7. ASSUME NEW k \in 1..(n + 1), q[k] # w
      PROVE  k - 1 \in 1..n /\ r[k - 1] = q[k]
  <2>1. k - 1 \in 1..n
    BY <1>1, <1>7
  <2> QED
    BY <1>4, <2>1
<1>8. ASSUME NEW v
      PROVE  IsIn(r, v) <=> IsIn(q, v) /\ v # w
  <2>1. ASSUME NEW i \in 1..n, r[i] = v
        PROVE  IsIn(q, v) /\ v # w
    BY <1>1, <1>4, <1>5, <2>1 DEF IsIn
  <2>2. ASSUME IsIn(q, v), v # w
        PROVE  IsIn(r, v)
    <3>1. PICK k \in 1..(n + 1) : q[k] = v
      BY <1>1, <2>2 DEF IsIn
    <3>2. k - 1 \in 1..n /\ r[k - 1] = v
      BY <1>7, <2>2, <3>1
    <3> QED
      BY <1>4, <3>2 DEF IsIn
  <2> QED
    BY <1>4, <2>1, <2>2 DEF IsIn
<1>9. ASSUME NEW u, NEW v
      PROVE  Before(r, u, v) <=> Before(q, u, v) /\ u # w
  <2>1. ASSUME NEW i \in 1..n, NEW j \in 1..n, i < j, r[i] = u, r[j] = v
        PROVE  Before(q, u, v) /\ u # w
    <3>1. i + 1 \in 1..(n + 1) /\ j + 1 \in 1..(n + 1) /\ i + 1 < j + 1
      BY <2>1
    <3> QED
      BY <1>1, <1>4, <1>5, <2>1, <3>1 DEF Before
  <2>2. ASSUME Before(q, u, v), u # w
        PROVE  Before(r, u, v)
    <3>1. PICK k, l \in 1..(n + 1) : k < l /\ q[k] = u /\ q[l] = v
      BY <1>1, <2>2 DEF Before
    <3>2. v # w
      BY <1>1, <1>2, <3>1 DEF Distinct
    <3>3. k - 1 \in 1..n /\ l - 1 \in 1..n /\ r[k - 1] = u /\ r[l - 1] = v
      BY <1>7, <2>2, <3>1, <3>2
    <3>4. k - 1 < l - 1
      BY <3>1
    <3> QED
      BY <1>4, <3>3, <3>4 DEF Before
  <2> QED
    BY <1>4, <2>1, <2>2 DEF Before
<1> QED
  BY <1>3, <1>4, <1>6, <1>8, <1>9

------------------------------------------------------------------------------
\* One call goes on, and what has gone wrong stays known.
Proceeding(w) ==
  /\ StepOf(w) /\ \A v \in Workers \ {w} : saw'[v] = saw[v]
  /\ saw' = [v \in Workers |-> saw'[v]]
  /\ mishap' = [m \in Marathons |-> mishap'[m]]
  /\ \A m \in Marathons : mishap[m] \subseteq mishap'[m]
  /\ ServesTopic(w)'

LEMMA OthersStay ==
  ASSUME NEW w \in Workers, Proceeding(w), NEW v \in Workers \ {w}, NEW m, NEW places
  PROVE  At(v, m, places)' <=> At(v, m, places)
BY DEF Proceeding, StepOf, At, Mine

LEMMA FeedStep ==
  ASSUME FeedFits, NEW w \in Workers, Proceeding(w),
         consumer' \in [Marathons -> Workers \cup {NoTag}], broker' \in [Marathons -> SUBSET Workers],
         UNCHANGED link, link # "up" => UNCHANGED broker
  PROVE  FeedFits'
BY DEF FeedFits, ServesTopic, Proceeding, StepOf

\* No request is sent or answered.
LEMMA OrderKept ==
  ASSUME OrderInv, NEW w \in Workers, Proceeding(w), pc[w] \notin Waiting, pc'[w] \notin Waiting,
         UNCHANGED messaging
  PROVE  OrderInv'
<1> USE DEF messaging
<1>1. FeedFits'
  BY FeedStep DEF OrderInv, FeedFits
<1>2. ChannelFits'
  BY DEF OrderInv, ChannelFits, Waits, Proceeding, StepOf
<1>3. ASSUME NEW m \in Marathons
      PROVE  InOrder(m)'
  <2>1. \A v \in Workers : /\ At(v, m, {"declare", "consume"})' <=> At(v, m, {"declare", "consume"})
                           /\ At(v, m, {"cancel"})' <=> At(v, m, {"cancel"})
                           /\ At(v, m, {"cancel"}) => tag'[v] = tag[v]
    BY OthersStay DEF At, Waiting, Proceeding, StepOf
  <2>2. Consuming(m)' <=> Consuming(m)
    BY <2>1 DEF Consuming, At
  <2>3. \A u, v : Ahead(u, v)' <=> Ahead(u, v)
    BY DEF Ahead
  <2>4. "overlap" \notin mishap'[m] => "overlap" \notin mishap[m]
    BY DEF Proceeding
  <2> QED
    BY <2>1, <2>2, <2>3, <2>4 DEF OrderInv, InOrder
<1> QED
  BY <1>1, <1>2, <1>3 DEF OrderInv

LEMMA RequestFits ==
  ASSUME OrderInv, NEW w \in Workers, Proceeding(w), pc[w] \notin Waiting, pc'[w] \in Waiting,
         UNCHANGED <<consumer, broker, link>>, link = "up", channel' = Append(channel, w)
  PROVE  /\ FeedFits' /\ ChannelFits'
         /\ \A v : Waits(v)' <=> Waits(v) \/ v = w
         /\ \A u, v : Ahead(u, v)' <=> Ahead(u, v) \/ (Waits(u) /\ v = w)
         /\ ~\E v : Ahead(w, v)
<1>1. FeedFits'
  BY FeedStep DEF OrderInv, FeedFits
<1>2. ~IsIn(channel, w) /\ channel \in Seq(Workers) /\ Distinct(channel)
  BY DEF OrderInv, ChannelFits, Waits
<1>3. /\ channel' \in Seq(Workers) /\ Distinct(channel')
      /\ \A v : IsIn(channel', v) <=> IsIn(channel, v) \/ v = w
      /\ \A u, v : Before(channel', u, v) <=> Before(channel, u, v) \/ (IsIn(channel, u) /\ v = w)
  <2>1. PICK q : q = channel' /\ q = Append(channel, w)
    OBVIOUS
  <2>2. /\ q \in Seq(Workers) /\ Distinct(q)
        /\ \A v : IsIn(q, v) <=> IsIn(channel, v) \/ v = w
        /\ \A u, v : Before(q, u, v) <=> Before(channel, u, v) \/ (IsIn(channel, u) /\ v = w)
    BY <1>2, <2>1, AppendToQueue, ZenonT(60)
  <2> QED
    BY <2>1, <2>2, Zenon
<1>4. ChannelFits'
  BY <1>3 DEF OrderInv, ChannelFits, Waits, Proceeding, StepOf
<1>5. ~\E v : Ahead(w, v)
  BY <1>2 DEF IsIn, Before, Ahead
<1> QED
  BY <1>1, <1>3, <1>4, <1>5 DEF Waits, Ahead

\* A consumption is requested.
LEMMA OrderDeclare ==
  ASSUME OrderInv, NEW w \in Workers, Proceeding(w), pc[w] \notin Waiting, pc'[w] = "declare",
         UNCHANGED <<consumer, broker, link>>, link = "up", channel' = Append(channel, w),
         NEW n \in Marathons, n = Mine(w)', consumer[n] = NoTag,
         Consuming(n) => "overlap" \in mishap'[n]
  PROVE  OrderInv'
<1>1. /\ FeedFits' /\ ChannelFits'
      /\ \A u, v : Ahead(u, v)' <=> Ahead(u, v) \/ (Waits(u) /\ v = w)
      /\ ~\E v : Ahead(w, v)
  <2>1. pc'[w] \in Waiting
    BY DEF Waiting
  <2> QED
    BY <2>1, RequestFits
<1>2. ASSUME NEW m \in Marathons, "overlap" \notin mishap'[m]
      PROVE  InOrder(m)'
  <2>1. InOrder(m) /\ "overlap" \notin mishap[m]
    BY <1>2 DEF OrderInv, Proceeding
  <2>2. \A v \in Workers : At(v, m, {"cancel"})' => At(v, m, {"cancel"}) /\ v # w /\ tag'[v] = tag[v]
    BY OthersStay DEF At, Proceeding, StepOf
  <2>3. \A v \in Workers : At(v, m, {"declare", "consume"})'
                             => At(v, m, {"declare", "consume"}) \/ (v = w /\ m = n)
    BY OthersStay DEF At
  <2>4. m = n => \A v \in Workers : ~At(v, m, {"declare", "consume"})
    BY <1>2 DEF Consuming, At
  <2>5. \A u, v \in Workers : At(u, m, {"declare", "consume"})' /\ At(v, m, {"declare", "consume"})'
                                => u = v
    BY <2>1, <2>3, <2>4 DEF InOrder
  <2>6. Consuming(m)' => consumer[m] = NoTag
    BY <2>1, <2>3 DEF InOrder, Consuming, At
  <2>7. \A v \in Workers : At(v, m, {"cancel"})' =>
          \A u \in Workers : At(u, m, {"declare", "consume"})' => ~Ahead(u, v)'
    BY <1>1, <2>1, <2>2, <2>3 DEF InOrder
  <2> QED
    BY <2>1, <2>2, <2>5, <2>6, <2>7 DEF InOrder
<1> QED
  BY <1>1, <1>2 DEF OrderInv, InOrder

\* A cancellation is requested.
LEMMA OrderCancel ==
  ASSUME OrderInv, NEW w \in Workers, Proceeding(w), pc[w] \notin Waiting, pc'[w] = "cancel",
         UNCHANGED <<consumer, broker, link>>, link = "up", channel' = Append(channel, w),
         NEW n \in Marathons, n = Mine(w)', consumer[n] # NoTag, tag'[w] = consumer[n]
  PROVE  OrderInv'
<1>1. /\ FeedFits' /\ ChannelFits'
      /\ \A u, v : Ahead(u, v)' <=> Ahead(u, v) \/ (Waits(u) /\ v = w)
  <2>1. pc'[w] \in Waiting
    BY DEF Waiting
  <2> QED
    BY <2>1, RequestFits
<1>2. ASSUME NEW m \in Marathons, "overlap" \notin mishap'[m]
      PROVE  InOrder(m)'
  <2>1. InOrder(m) /\ "overlap" \notin mishap[m]
    BY <1>2 DEF OrderInv, Proceeding
  <2>2. \A v \in Workers : At(v, m, {"declare", "consume"})' => At(v, m, {"declare", "consume"}) /\ v # w
    BY OthersStay DEF At
  <2>3. \A v \in Workers : At(v, m, {"cancel"})' =>
          (At(v, m, {"cancel"}) /\ v # w /\ tag'[v] = tag[v]) \/ (v = w /\ m = n)
    <3>1. \A v \in Workers \ {w} : tag'[v] = tag[v] /\ (At(v, m, {"cancel"})' <=> At(v, m, {"cancel"}))
      BY OthersStay DEF Proceeding, StepOf
    <3>2. At(w, m, {"cancel"})' => m = n
      BY DEF At
    <3> QED
      BY <3>1, <3>2
  <2>4. m = n => \A v \in Workers : ~At(v, m, {"declare", "consume"})
    BY <2>1 DEF InOrder, Consuming, At
  <2>5. Consuming(m)' => consumer[m] = NoTag
    BY <2>1, <2>2 DEF InOrder, Consuming, At
  <2>6. \A v \in Workers : At(v, m, {"cancel"})' => broker[m] \subseteq {tag'[v]}
    BY <2>1, <2>3 DEF InOrder
  <2>7. \A v \in Workers : At(v, m, {"cancel"})' =>
          \A u \in Workers : At(u, m, {"declare", "consume"})' => ~Ahead(u, v)'
    BY <1>1, <2>1, <2>2, <2>3, <2>4 DEF InOrder
  <2> QED
    BY <2>1, <2>2, <2>5, <2>6, <2>7 DEF InOrder
<1> QED
  BY <1>1, <1>2 DEF OrderInv, InOrder

\* The first request of the channel is answered, and no other is sent.
LEMMA AnswerFits ==
  ASSUME OrderInv, NEW w \in Workers, Proceeding(w), Answered(w),
         pc'[w] \notin Waiting, channel' = Tail(channel), UNCHANGED link
  PROVE  /\ ChannelFits'
         /\ \A v : Waits(v) /\ v # w => Ahead(w, v)
         /\ \A u, v : Ahead(u, v)' <=> Ahead(u, v) /\ u # w
<1>1. /\ channel \in Seq(Workers) /\ Distinct(channel) /\ channel # <<>> /\ w = Head(channel)
      /\ link = "up"
  BY DEF OrderInv, ChannelFits, Answered
<1>2. /\ channel' \in Seq(Workers) /\ Distinct(channel')
      /\ \A v : IsIn(channel', v) <=> IsIn(channel, v) /\ v # w
      /\ \A v : IsIn(channel, v) /\ v # w => Before(channel, w, v)
      /\ \A u, v : Before(channel', u, v) <=> Before(channel, u, v) /\ u # w
  <2>1. PICK q : q = channel' /\ q = Tail(channel)
    OBVIOUS
  <2>2. /\ q \in Seq(Workers) /\ Distinct(q)
        /\ \A v : IsIn(q, v) <=> IsIn(channel, v) /\ v # w
        /\ \A v : IsIn(channel, v) /\ v # w => Before(channel, w, v)
        /\ \A u, v : Before(q, u, v) <=> Before(channel, u, v) /\ u # w
    BY <1>1, <2>1, TailOfQueue, Zenon
  <2> QED
    BY <2>1, <2>2, Zenon
<1>3. ChannelFits'
  BY <1>1, <1>2 DEF OrderInv, ChannelFits, Waits, Proceeding, StepOf
<1> QED
  BY <1>2, <1>3 DEF Waits, Ahead

\* assertQueue is answered, and the call waits again, behind all the others.
LEMMA OrderAnswerDeclare ==
  ASSUME OrderInv, NEW w \in Workers, Proceeding(w), AnswerDeclare(w), pc'[w] = "consume"
  PROVE  OrderInv'
<1>1. /\ pc[w] = "declare" /\ Answered(w) /\ channel' = Append(Tail(channel), w)
      /\ UNCHANGED <<consumer, broker, link, topic, tag>>
  BY DEF AnswerDeclare, local
<1>2. /\ channel \in Seq(Workers) /\ Distinct(channel) /\ channel # <<>> /\ w = Head(channel)
      /\ link = "up"
  BY <1>1 DEF OrderInv, ChannelFits, Answered
<1>3. PICK q : q = Tail(channel)
  OBVIOUS
<1>4. /\ q \in Seq(Workers) /\ Distinct(q) /\ IsIn(channel, w)
      /\ \A v : IsIn(q, v) <=> IsIn(channel, v) /\ v # w
      /\ \A u, v : Before(q, u, v) <=> Before(channel, u, v) /\ u # w
  BY <1>2, <1>3, TailOfQueue, Zenon
<1>5. /\ channel' \in Seq(Workers) /\ Distinct(channel')
      /\ \A v : IsIn(channel', v) <=> IsIn(q, v) \/ v = w
      /\ \A u, v : Before(channel', u, v) <=> Before(q, u, v) \/ (IsIn(q, u) /\ v = w)
  <2>1. ~IsIn(q, w) /\ channel' = Append(q, w)
    BY <1>1, <1>3, <1>4, Zenon
  <2>2. PICK r : r = channel' /\ r = Append(q, w)
    BY <2>1
  <2>3. /\ r \in Seq(Workers) /\ Distinct(r)
        /\ \A v : IsIn(r, v) <=> IsIn(q, v) \/ v = w
        /\ \A u, v : Before(r, u, v) <=> Before(q, u, v) \/ (IsIn(q, u) /\ v = w)
    BY <1>4, <2>1, <2>2, AppendToQueue, ZenonT(60)
  <2> QED
    BY <2>2, <2>3, Zenon
<1>6. /\ \A v : Waits(v)' <=> Waits(v)
      /\ \A u, v : Ahead(u, v)' /\ v # w => Ahead(u, v) /\ u # w
      /\ \A v : ~Ahead(w, v)'
  BY <1>4, <1>5 DEF Waits, Ahead
<1>7. ChannelFits'
  BY <1>1, <1>2, <1>5, <1>6 DEF OrderInv, ChannelFits, Proceeding, StepOf, Waiting
<1>8. FeedFits'
  BY <1>1, FeedStep DEF OrderInv, FeedFits
<1>9. ASSUME NEW m \in Marathons, "overlap" \notin mishap'[m]
      PROVE  InOrder(m)'
  <2>1. InOrder(m) /\ "overlap" \notin mishap[m]
    BY <1>9 DEF OrderInv, Proceeding
  <2>2. \A v \in Workers : At(v, m, {"declare", "consume"})' <=> At(v, m, {"declare", "consume"})
    BY <1>1, OthersStay DEF At, Mine
  <2>3. \A v \in Workers : At(v, m, {"cancel"})' => At(v, m, {"cancel"}) /\ v # w /\ tag'[v] = tag[v]
    BY <1>1, OthersStay DEF At
  <2>4. Consuming(m)' <=> Consuming(m)
    BY <2>2 DEF Consuming, At
  <2>5. \A v \in Workers : At(v, m, {"cancel"})' =>
          \A u \in Workers : At(u, m, {"declare", "consume"})' => ~Ahead(u, v)'
    BY <1>6, <2>1, <2>2, <2>3 DEF InOrder
  <2> QED
    BY <1>1, <2>1, <2>2, <2>3, <2>4, <2>5 DEF InOrder
<1> QED
  BY <1>7, <1>8, <1>9 DEF OrderInv, InOrder

\* consume is answered: no cancellation of the marathon waits, or it would be ahead.
LEMMA OrderAnswerConsume ==
  ASSUME OrderInv, NEW w \in Workers, Proceeding(w), AnswerConsume(w), pc'[w] = "done"
  PROVE  OrderInv'
<1>1. PICK n : n = Mine(w)
  OBVIOUS
<1>2. /\ pc[w] = "consume" /\ Answered(w) /\ channel' = Tail(channel)
      /\ broker' = [broker EXCEPT ![n] = @ \cup {w}] /\ consumer' = [consumer EXCEPT ![n] = w]
      /\ UNCHANGED <<link, topic, tag>>
  BY <1>1 DEF AnswerConsume, local
<1>3. topic[w] \in Topics /\ n \in Marathons /\ link = "up"
  BY <1>1, <1>2, TopicsHaveMarathons DEF OrderInv, FeedFits, ServesTopic, ChannelFits, Serving, Waiting, Mine, Answered
<1>4. /\ ChannelFits'
      /\ \A v : Waits(v) /\ v # w => Ahead(w, v)
      /\ \A u, v : Ahead(u, v)' <=> Ahead(u, v) /\ u # w
  BY <1>2, AnswerFits DEF Waiting
<1>5. /\ consumer' \in [Marathons -> Workers \cup {NoTag}] /\ broker' \in [Marathons -> SUBSET Workers]
      /\ consumer'[n] = w /\ broker'[n] = broker[n] \cup {w}
      /\ \A m \in Marathons \ {n} : consumer'[m] = consumer[m] /\ broker'[m] = broker[m]
  BY <1>2, <1>3 DEF OrderInv, FeedFits
<1>6. FeedFits'
  BY <1>2, <1>3, <1>5, FeedStep DEF OrderInv
<1>7. ASSUME NEW m \in Marathons, "overlap" \notin mishap'[m]
      PROVE  InOrder(m)'
  <2>1. InOrder(m) /\ "overlap" \notin mishap[m]
    BY <1>7 DEF OrderInv, Proceeding
  <2>2. \A v \in Workers : At(v, m, {"declare", "consume"})' => At(v, m, {"declare", "consume"}) /\ v # w
    BY OthersStay DEF At
  <2>3. \A v \in Workers : At(v, m, {"cancel"})' =>
          At(v, m, {"cancel"}) /\ v # w /\ tag'[v] = tag[v] /\ Waits(v)
    BY <1>2, OthersStay DEF At, OrderInv, ChannelFits, Waiting
  <2>4. \A v \in Workers : At(v, m, {"cancel"})' =>
          \A u \in Workers : At(u, m, {"declare", "consume"})' => ~Ahead(u, v)'
    BY <1>4, <2>1, <2>2, <2>3 DEF InOrder
  <2>5. CASE m # n
    <3>1. Consuming(m)' => Consuming(m)
      BY <2>2 DEF Consuming, At
    <3> QED
      BY <1>5, <2>1, <2>2, <2>3, <2>4, <2>5, <3>1 DEF InOrder
  <2>6. CASE m = n
    <3>1. At(w, m, {"declare", "consume"})
      BY <1>1, <1>2, <2>6 DEF At
    <3>2. Consuming(m) /\ consumer[m] = NoTag /\ broker[m] \subseteq {NoTag}
      BY <2>1, <3>1 DEF InOrder, Consuming, At
    <3>3. broker'[m] \subseteq {consumer'[m]}
      BY <1>5, <2>6, <3>2, LiveDataAssumption DEF OrderInv, FeedFits
    <3>4. \A v \in Workers : ~At(v, m, {"declare", "consume"})' /\ ~At(v, m, {"cancel"})'
      BY <1>4, <2>1, <2>2, <2>3, <3>1 DEF InOrder
    <3>5. ~Consuming(m)'
      BY <3>4 DEF Consuming, At
    <3> QED
      BY <3>3, <3>4, <3>5 DEF InOrder
  <2> QED
    BY <2>5, <2>6
<1> QED
  BY <1>4, <1>6, <1>7 DEF OrderInv, InOrder

\* cancel is answered: the marathon has no consumer, and the broker knows of none.
LEMMA OrderAnswerCancel ==
  ASSUME OrderInv, NEW w \in Workers, Proceeding(w), AnswerCancel(w), pc'[w] \notin Waiting
  PROVE  OrderInv'
<1>1. PICK n : n = Mine(w)
  OBVIOUS
<1>2. /\ pc[w] = "cancel" /\ Answered(w) /\ channel' = Tail(channel)
      /\ broker' = [broker EXCEPT ![n] = @ \ {tag[w]}] /\ consumer' = [consumer EXCEPT ![n] = NoTag]
      /\ UNCHANGED link
  BY <1>1 DEF AnswerCancel, StopConsuming
<1>3. topic[w] \in Topics /\ n \in Marathons /\ link = "up"
  BY <1>1, <1>2, TopicsHaveMarathons DEF OrderInv, FeedFits, ServesTopic, ChannelFits, Serving, Waiting, Mine, Answered
<1>4. /\ ChannelFits'
      /\ \A u, v : Ahead(u, v)' <=> Ahead(u, v) /\ u # w
  BY <1>2, AnswerFits
<1>5. /\ consumer' \in [Marathons -> Workers \cup {NoTag}] /\ broker' \in [Marathons -> SUBSET Workers]
      /\ consumer'[n] = NoTag /\ broker'[n] = broker[n] \ {tag[w]}
      /\ \A m \in Marathons \ {n} : consumer'[m] = consumer[m] /\ broker'[m] = broker[m]
  BY <1>2, <1>3 DEF OrderInv, FeedFits
<1>6. FeedFits'
  BY <1>2, <1>3, <1>5, FeedStep DEF OrderInv
<1>7. ASSUME NEW m \in Marathons, "overlap" \notin mishap'[m]
      PROVE  InOrder(m)'
  <2>1. InOrder(m) /\ "overlap" \notin mishap[m]
    BY <1>7 DEF OrderInv, Proceeding
  <2>2. \A v \in Workers : At(v, m, {"declare", "consume"})' => At(v, m, {"declare", "consume"})
    BY OthersStay DEF At, Waiting
  <2>3. \A v \in Workers : At(v, m, {"cancel"})' => At(v, m, {"cancel"}) /\ tag'[v] = tag[v]
    BY OthersStay DEF At, Waiting, Proceeding, StepOf
  <2>4. Consuming(m)' => Consuming(m)
    BY <2>2 DEF Consuming, At
  <2>5. broker'[m] \subseteq {consumer'[m]} /\ (consumer[m] = NoTag => consumer'[m] = NoTag)
        /\ broker'[m] \subseteq broker[m]
    BY <1>1, <1>2, <1>5, <2>1 DEF InOrder, At
  <2> QED
    BY <1>4, <2>1, <2>2, <2>3, <2>4, <2>5 DEF InOrder
<1> QED
  BY <1>4, <1>6, <1>7 DEF OrderInv, InOrder

LEMMA OrderLinkFails ==
  ASSUME OrderInv, LiveFits, NEW now \in {"closed", "down"}, LinkFails(now)
  PROVE  OrderInv'
<1>1. /\ UNCHANGED <<consumer, topic, tag, saw>> /\ channel' = <<>> /\ link' = now
      /\ broker' = [m \in Marathons |-> {}]
      /\ \A w \in Workers : pc'[w] = IF pc[w] \in Waiting THEN "failed" ELSE pc[w]
      /\ mishap' = [m \in Marathons |-> mishap'[m]]
  BY DEF LinkFails, local, Waiting
<1>2. FeedFits'
  BY <1>1 DEF OrderInv, FeedFits, ServesTopic, Serving
<1>3. \A w \in Workers : pc'[w] \notin Waiting
  BY <1>1 DEF Waiting
<1>4. ChannelFits'
  BY <1>1, <1>3 DEF ChannelFits, Waits, IsIn, Distinct
<1>5. ASSUME NEW m \in Marathons
      PROVE  InOrder(m)'
  BY <1>1, <1>3 DEF InOrder, Consuming, At, Waiting
<1> QED
  BY <1>2, <1>4, <1>5 DEF OrderInv

------------------------------------------------------------------------------
(* Whoever is followed is fed.  A call that gives a topic up finds the other *)
(* subscribers of its marathon, and those who subscribe later know of it.    *)

Blameless(m) == mishap[m] \cap {"link", "lookup", "raced", "evicted"} = {}

\* All that the call v can still overlook at the end of its lookups.
OnlyMyLive(v, m) ==
  \A t \in Topics : MarathonOf(t) = m /\ count[t] > 0
                      => t.kind = "myLive" /\ topic[v].kind = "participant"

Fed(m) ==
  Blameless(m) =>
    /\ consumer[m] # NoTag => consumer[m] \in broker[m]
    /\ Needed(m) => broker[m] # {} \/ Coming(m)
    /\ \A v \in Workers :
         /\ At(v, m, {"cancel"}) => ~Needed(m)
         /\ At(v, m, {"looking"}) /\ saw[v] = {} => OnlyMyLive(v, m)
         /\ At(v, m, {"which"}) => count[topic[v]] = 0

\* The call v may yet request that the consumer of m be cancelled.
Asking(v, m) == At(v, m, {"which"}) \/ (At(v, m, {"looking"}) /\ saw[v] = {})

Unfed(m) ==
  /\ mishap[m] \cap {"lookup", "overlap", "early"} = {}
  /\ ~Needed(m)
  => /\ Coming(m) => \E v \in Workers : Asking(v, m)
     /\ broker[m] # {} => \E v \in Workers : Asking(v, m) \/ At(v, m, {"cancel"})

FeedInv == OrderInv /\ \A m \in Marathons : Fed(m) /\ Unfed(m)

LEMMA NoteAdds ==
  ASSUME FeedFits, NEW n \in Marathons, NEW what, Note(n, what)
  PROVE  /\ mishap' = [m \in Marathons |-> mishap'[m]]
         /\ \A m \in Marathons : mishap[m] \subseteq mishap'[m]
         /\ mishap'[n] = mishap[n] \cup what
BY DEF FeedFits, Note

LEMMA ActsProceed ==
  ASSUME LiveFits, FeedFits, NEW w \in Workers, NEW there, Goto(w, there),
         UNCHANGED client \/ \E c : client' = [client EXCEPT ![w] = c],
         UNCHANGED topic \/ \E t : topic' = [topic EXCEPT ![w] = t],
         UNCHANGED tag \/ \E x : tag' = [tag EXCEPT ![w] = x],
         UNCHANGED saw \/ \E x : saw' = [saw EXCEPT ![w] = x],
         UNCHANGED leaving \/ leaving' = leaving \cup {w},
         UNCHANGED mishap \/ \E n \in Marathons : \E what : Note(n, what),
         there \in Serving => topic'[w] \in Topics,
         there = "which" => topic'[w].kind = "participant"
  PROVE  Proceeding(w) /\ pc'[w] = there
<1>1. StepOf(w) /\ pc'[w] = there
  BY StepsAreLocal
<1>2. saw' = [v \in Workers |-> saw'[v]] /\ \A v \in Workers \ {w} : saw'[v] = saw[v]
  BY DEF FeedFits
<1>3. mishap' = [m \in Marathons |-> mishap'[m]] /\ \A m \in Marathons : mishap[m] \subseteq mishap'[m]
  BY NoteAdds DEF FeedFits
<1> QED
  BY <1>1, <1>2, <1>3 DEF Proceeding, ServesTopic

\* A step that does not concern marathon m.
LEMMA FedElsewhere ==
  ASSUME NEW m \in Marathons, Fed(m), Unfed(m), NEW w \in Workers, Proceeding(w),
         ~At(w, m, Serving), ~At(w, m, Serving)',
         \A t \in Topics : MarathonOf(t) = m => count'[t] = count[t],
         broker'[m] = broker[m], consumer'[m] = consumer[m], FeedFits
  PROVE  Fed(m)' /\ Unfed(m)'
<1>1. Needed(m)' <=> Needed(m)
  BY DEF Needed
<1>2. \A v \in Workers, p \in Serving : At(v, m, {p})' <=> At(v, m, {p})
  BY OthersStay DEF At
<1>3. Coming(m)' <=> Coming(m)
  BY <1>2 DEF Coming, Consuming, At, Serving, Waiting
<1>4. \A v \in Workers : At(v, m, Serving) => v # w /\ topic'[v] = topic[v] /\ saw'[v] = saw[v] /\ topic[v] \in Topics
  BY DEF Proceeding, StepOf, FeedFits, ServesTopic, At
<1>5. \A v \in Workers : Asking(v, m)' <=> Asking(v, m)
  BY <1>2, <1>4 DEF Asking, At, Serving
<1>6. \A v \in Workers : At(v, m, {"cancel"})' <=> At(v, m, {"cancel"})
  BY <1>2 DEF Serving, Waiting
<1>7. \A v \in Workers : At(v, m, {"looking"})' /\ saw'[v] = {} =>
        At(v, m, {"looking"}) /\ saw[v] = {} /\ (OnlyMyLive(v, m) => OnlyMyLive(v, m)')
  BY <1>2, <1>4 DEF At, Serving, OnlyMyLive
<1>8. \A v \in Workers : At(v, m, {"which"})' => At(v, m, {"which"}) /\ count'[topic'[v]] = count[topic[v]]
  BY <1>2, <1>4 DEF At, Serving, Mine
<1>9. mishap[m] \subseteq mishap'[m]
  BY DEF Proceeding
<1>10. Fed(m)'
  BY <1>1, <1>3, <1>6, <1>7, <1>8, <1>9 DEF Fed, Blameless
<1>11. Unfed(m)'
  BY <1>1, <1>3, <1>5, <1>6, <1>9 DEF Unfed
<1> QED
  BY <1>10, <1>11

\* Somebody subscribes.
LEMMA FedUp ==
  ASSUME FeedFits, NEW t \in Topics, NEW n \in Marathons, n = MarathonOf(t), Fed(n),
         NEW w \in Workers, Proceeding(w), pc[w] \in {"idle", "member"},
         pc'[w] \in {"done", "lookup", "declare"}, topic'[w] = t,
         count[t] \in Nat, count'[t] = count[t] + 1, \A s \in Topics \ {t} : count'[s] = count[s],
         UNCHANGED <<consumer, broker>>,
         GivingUp(t) => "raced" \in mishap'[n],
         pc'[w] = "done" => count[t] > 0 \/ consumer[n] # NoTag \/ "link" \in mishap'[n]
  PROVE  Fed(n)' /\ Unfed(n)'
<1>1. Needed(n)'
  BY DEF Needed
<1>2. Unfed(n)'
  BY <1>1 DEF Unfed
<1>3. ASSUME Blameless(n)'
      PROVE  Fed(n)'
  <2>1. Blameless(n) /\ ~GivingUp(t) /\ (pc'[w] = "done" => count[t] > 0 \/ consumer[n] # NoTag)
    BY <1>3 DEF Blameless, Proceeding
  <2>2. \A v \in Workers, p \in {"cancel", "looking", "which"} :
          At(v, n, {p})' => At(v, n, {p}) /\ v # w /\ topic'[v] = topic[v] /\ saw'[v] = saw[v]
    BY OthersStay DEF At, Proceeding, StepOf
  <2>3. broker[n] # {} \/ Coming(n)'
    <3>1. CASE pc'[w] \in {"lookup", "declare"}
      BY <3>1 DEF Coming, Consuming, Mine
    <3>2. CASE consumer[n] # NoTag
      BY <2>1, <3>2 DEF Fed
    <3>3. CASE count[t] > 0
      <4>1. broker[n] # {} \/ Coming(n)
        BY <2>1, <3>3 DEF Fed, Needed
      <4>2. Coming(n) => Coming(n)'
        <5>1. \A v \in Workers, p \in {"lookup", "declare", "consume"} : At(v, n, {p}) => At(v, n, {p})'
          BY OthersStay DEF At
        <5> QED
          BY <5>1 DEF Coming, Consuming, At
      <4> QED
        BY <4>1, <4>2
    <3> QED
      BY <2>1, <3>1, <3>2, <3>3
  <2>4. \A v \in Workers : ~At(v, n, {"cancel"})' /\ ~(At(v, n, {"looking"})' /\ saw'[v] = {})
    BY <2>1, <2>2 DEF GivingUp, At
  <2>5. \A v \in Workers : At(v, n, {"which"})' => count'[topic'[v]] = 0
    BY <2>1, <2>2 DEF GivingUp, At, Fed, FeedFits, ServesTopic, Serving
  <2> QED
    BY <2>1, <2>3, <2>4, <2>5 DEF Fed
<1> QED
  BY <1>2, <1>3 DEF Fed

\* Somebody leaves.
LEMMA FedDown ==
  ASSUME FeedFits, NEW t \in Topics, NEW n \in Marathons, n = MarathonOf(t), Fed(n),
         NEW w \in Workers, Proceeding(w), pc[w] \in {"idle", "next"}, topic'[w] = t,
         pc'[w] \in {"next", "done", "which", "looking", "cancel"},
         count \in [Topics -> Nat], count[t] > 0, count'[t] = count[t] - 1,
         \A s \in Topics \ {t} : count'[s] = count[s], UNCHANGED <<consumer, broker>>,
         pc'[w] = "cancel" /\ Needed(n)' => "evicted" \in mishap'[n],
         pc'[w] = "looking" /\ saw'[w] = {} => OnlyMyLive(w, n)',
         pc'[w] = "which" => count[t] = 1,
         ~Needed(n)' /\ mishap'[n] \cap {"lookup", "overlap", "early"} = {} =>
           /\ Coming(n) => Asking(w, n)'
           /\ broker[n] # {} => Asking(w, n)' \/ At(w, n, {"cancel"})'
  PROVE  Fed(n)' /\ Unfed(n)'
<1>1. \A s \in Topics : count'[s] > 0 => count[s] > 0
  BY DEF FeedFits
<1>2. Needed(n)' => Needed(n)
  BY <1>1 DEF Needed
<1>3. \A v \in Workers, p \in Serving : v # w => (At(v, n, {p})' <=> At(v, n, {p}))
  BY OthersStay
<1>4. Coming(n)' <=> Coming(n)
  <2>1. \A v \in Workers, p \in {"lookup", "declare", "consume"} : At(v, n, {p})' <=> At(v, n, {p})
    BY <1>3 DEF At, Serving, Waiting
  <2> QED
    BY <2>1 DEF Coming, Consuming, At
<1>5. ASSUME Blameless(n)'
      PROVE  Fed(n)'
  <2>1. Blameless(n) /\ (pc'[w] = "cancel" => ~Needed(n)')
    BY <1>5 DEF Blameless, Proceeding
  <2>2. \A v \in Workers \ {w} : topic'[v] = topic[v] /\ saw'[v] = saw[v]
    BY DEF Proceeding, StepOf
  <2>3. ASSUME NEW v \in Workers, At(v, n, {"cancel"})'
        PROVE  ~Needed(n)'
    BY <1>2, <1>3, <2>1, <2>3 DEF Fed, At, Serving, Waiting
  <2>4. ASSUME NEW v \in Workers, At(v, n, {"looking"})', saw'[v] = {}
        PROVE  OnlyMyLive(v, n)'
    <3>1. CASE v # w
      BY <1>1, <1>3, <2>1, <2>2, <2>4, <3>1 DEF Fed, OnlyMyLive, Serving
    <3> QED
      BY <2>4, <3>1 DEF At
  <2>5. ASSUME NEW v \in Workers, At(v, n, {"which"})'
        PROVE  count'[topic'[v]] = 0
    <3>1. CASE v # w
      BY <1>3, <2>1, <2>2, <2>5, <3>1 DEF Fed, At, FeedFits, ServesTopic, Serving
    <3> QED
      BY <2>5, <3>1 DEF At
  <2> QED
    BY <1>2, <1>4, <2>1, <2>3, <2>4, <2>5 DEF Fed
<1>6. Unfed(n)'
  BY <1>4 DEF Unfed
<1> QED
  BY <1>5, <1>6 DEF Fed

\* A marathon that has no consumer is not delivered, unless two consumptions overlapped.
LEMMA NothingToCancel ==
  ASSUME OrderInv, NEW m \in Marathons, consumer[m] = NoTag \/ link # "up", "overlap" \notin mishap[m]
  PROVE  broker[m] = {}
<1>1. broker[m] \subseteq {consumer[m]} /\ broker[m] \subseteq Workers
  BY DEF OrderInv, InOrder, FeedFits
<1>2. CASE link # "up"
  BY <1>2 DEF OrderInv, FeedFits
<1> QED
  BY <1>1, <1>2, LiveDataAssumption

\* What the end of a subscription asks of the channel.
LEMMA RequestCancelOrder ==
  ASSUME OrderInv, NEW w \in Workers, Proceeding(w), pc[w] \notin Waiting,
         UNCHANGED <<consumer, broker, link>>, NEW n \in Marathons, n = Mine(w)',
         \/ /\ consumer[n] = NoTag \/ link # "up"
            /\ pc'[w] \in {"next", "done"} /\ UNCHANGED channel
         \/ /\ consumer[n] # NoTag /\ link = "up" /\ pc'[w] = "cancel"
            /\ channel' = Append(channel, w) /\ tag'[w] = consumer[n]
  PROVE  /\ OrderInv'
         /\ "overlap" \notin mishap'[n] /\ broker[n] # {} => pc'[w] = "cancel"
<1>1. CASE (consumer[n] = NoTag \/ link # "up") /\ pc'[w] \in {"next", "done"} /\ UNCHANGED channel
  <2>1. OrderInv'
    BY <1>1, OrderKept DEF messaging, Waiting
  <2>2. "overlap" \notin mishap'[n] => broker[n] = {}
    BY <1>1, NothingToCancel DEF Proceeding
  <2> QED
    BY <2>1, <2>2
<1>2. CASE /\ consumer[n] # NoTag /\ link = "up" /\ pc'[w] = "cancel"
           /\ channel' = Append(channel, w) /\ tag'[w] = consumer[n]
  BY <1>2, OrderCancel
<1> QED
  BY <1>1, <1>2

------------------------------------------------------------------------------
\* A call changes what there is of its own marathon alone.
LEMMA FeedAt ==
  ASSUME FeedInv, NEW w \in Workers, Proceeding(w), NEW n \in Marathons, OrderInv', Fed(n)', Unfed(n)',
         pc[w] \in Serving => Mine(w) = n, pc'[w] \in Serving => Mine(w)' = n,
         \A t \in Topics : MarathonOf(t) # n => count'[t] = count[t],
         \A m \in Marathons \ {n} : broker'[m] = broker[m] /\ consumer'[m] = consumer[m]
  PROVE  FeedInv'
<1> SUFFICES ASSUME NEW m \in Marathons, m # n
             PROVE  Fed(m)' /\ Unfed(m)'
  BY DEF FeedInv
<1>1. ~At(w, m, Serving) /\ ~At(w, m, Serving)'
  BY DEF At
<1> QED
  BY <1>1, FedElsewhere DEF FeedInv, OrderInv

\* A call that has nothing to do with any marathon, before and after.
LEMMA FeedAside ==
  ASSUME FeedInv, NEW w \in Workers, Proceeding(w), OrderInv',
         pc[w] \notin Serving, pc'[w] \notin Serving, UNCHANGED <<count, broker, consumer>>
  PROVE  FeedInv'
<1> SUFFICES ASSUME NEW m \in Marathons
             PROVE  Fed(m)' /\ Unfed(m)'
  BY DEF FeedInv
<1>1. ~At(w, m, Serving) /\ ~At(w, m, Serving)'
  BY DEF At
<1> QED
  BY <1>1, FedElsewhere DEF FeedInv, OrderInv

LEMMA CountDownFeeds ==
  ASSUME LiveInv, FeedInv, NEW w \in Workers, NEW t \in Topics, CountDown(w, t),
         pc[w] \in {"idle", "next"}, topic' = [topic EXCEPT ![w] = t],
         UNCHANGED client \/ \E c : client' = [client EXCEPT ![w] = c],
         UNCHANGED <<leaving, consumer, broker, link>>
  PROVE  FeedInv'
<1>1. PICK n \in Marathons : n = MarathonOf(t) /\ (t.kind # "participant" => n = t.id)
  BY TopicsHaveMarathons
<1>2. /\ count \in [Topics -> Nat] /\ count[t] > 0 /\ count'[t] = count[t] - 1
      /\ \A s \in Topics \ {t} : count'[s] = count[s]
  BY CountDownKnows DEF LiveInv, LiveFits
<1>3. /\ LiveFits /\ OrderInv /\ FeedFits /\ Fed(n) /\ topic'[w] = t /\ Mine(w)' = n
      /\ pc[w] \notin Serving /\ pc[w] \notin Waiting
  BY <1>1 DEF LiveInv, LiveFits, FeedInv, OrderInv, Mine, Serving, Waiting
<1>4. ASSUME Proceeding(w), OrderInv', Fed(n)', Unfed(n)'
      PROVE  FeedInv'
  BY <1>1, <1>2, <1>3, <1>4, FeedAt
<1>5. CASE count[t] > 1
  <2>1. PICK there \in {"next", "done"} : Goto(w, there) /\ UNCHANGED <<channel, saw, tag, mishap>>
    BY <1>2, <1>5 DEF CountDown
  <2>2. Proceeding(w) /\ pc'[w] = there
    BY <1>3, <2>1, ActsProceed DEF Serving, Waiting
  <2>3. OrderInv'
    BY <1>3, <2>1, <2>2, OrderKept DEF messaging, Waiting
  <2>4. Needed(n)'
    BY <1>1, <1>2, <1>5 DEF Needed
  <2>5. Fed(n)' /\ Unfed(n)'
    BY <1>1, <1>2, <1>3, <2>2, <2>4, FedDown
  <2> QED
    BY <1>4, <2>2, <2>3, <2>5
<1>6. CASE /\ count[t] = 1 /\ t.kind = "marathon" /\ RequestCancel(w, t.id) /\ UNCHANGED saw
           /\ Note(t.id, If("evicted", Needed(t.id)') \cup CancelMishap(t.id))
  <2>1. PICK there \in {"next", "done", "cancel"} :
          /\ Goto(w, there)
          /\ \/ /\ there # "cancel"
                /\ consumer[n] = NoTag \/ link # "up"
                /\ UNCHANGED <<channel, tag>>
             \/ /\ there = "cancel" /\ consumer[n] # NoTag /\ link = "up"
                /\ channel' = Append(channel, w) /\ tag' = [tag EXCEPT ![w] = consumer[n]]
    BY <1>1, <1>6 DEF RequestCancel, Finish
  <2>2. Proceeding(w) /\ pc'[w] = there
    <3>1. /\ Goto(w, there) /\ there # "which" /\ topic'[w] \in Topics
          /\ UNCHANGED tag \/ \E x : tag' = [tag EXCEPT ![w] = x]
          /\ \E what : Note(n, what)
          /\ UNCHANGED <<saw, leaving>>
      BY <1>1, <1>3, <1>6, <2>1
    <3> QED
      BY <1>3, <3>1, ActsProceed
  <2>3. there = "cancel" => tag'[w] = consumer[n]
    BY <1>3, <2>1 DEF LiveFits
  <2>4. OrderInv' /\ ("overlap" \notin mishap'[n] /\ broker[n] # {} => there = "cancel")
    BY <1>1, <1>3, <2>1, <2>2, <2>3, RequestCancelOrder
  <2>5. mishap'[n] = mishap[n] \cup (If("evicted", Needed(n)') \cup If("early", Coming(n)))
    BY <1>1, <1>3, <1>6, NoteAdds DEF CancelMishap
  <2>6. Fed(n)' /\ Unfed(n)'
    BY <1>1, <1>2, <1>3, <2>2, <2>4, <2>5, FedDown DEF If, At
  <2> QED
    BY <1>4, <2>2, <2>4, <2>6
<1>7. CASE /\ count[t] = 1 /\ t.kind = "participant" /\ Goto(w, "which")
           /\ UNCHANGED <<channel, saw, tag, mishap>>
  <2>1. Proceeding(w) /\ pc'[w] = "which"
    BY <1>3, <1>7, ActsProceed
  <2>2. OrderInv'
    BY <1>3, <1>7, <2>1, OrderKept DEF messaging, Waiting
  <2>3. Asking(w, n)'
    BY <1>3, <2>1 DEF Asking, At
  <2>4. Fed(n)' /\ Unfed(n)'
    BY <1>1, <1>2, <1>3, <1>7, <2>1, <2>3, FedDown
  <2> QED
    BY <1>4, <2>1, <2>2, <2>4
<1>8. CASE /\ count[t] = 1 /\ t.kind = "myLive" /\ Goto(w, "looking")
           /\ saw' = [saw EXCEPT ![w] = OthersOf(t, {"marathon", "participant"})]
           /\ UNCHANGED <<channel, tag, mishap>>
  <2>1. Proceeding(w) /\ pc'[w] = "looking"
    BY <1>3, <1>8, ActsProceed
  <2>2. OrderInv'
    BY <1>3, <1>8, <2>1, OrderKept DEF messaging, Waiting
  <2>3. saw'[w] = OthersOf(t, {"marathon", "participant"})
    BY <1>3, <1>8 DEF FeedFits
  <2>4. ASSUME NEW s \in Topics, MarathonOf(s) = n, count'[s] > 0, saw'[w] = {}
        PROVE  FALSE
    <3>1. s # t /\ count[s] > 0
      BY <1>2, <1>8, <2>4
    <3>2. s.kind \notin {"marathon", "participant"}
      BY <1>1, <2>3, <2>4, <3>1 DEF OthersOf
    <3>3. s.kind = "myLive" /\ s.id = t.id
      BY <1>1, <1>8, <2>4, <3>2, TopicsHaveMarathons DEF Topics
    <3>4. s = t
      BY <1>8, <3>3 DEF Topics
    <3> QED
      BY <3>1, <3>4
  <2>5. saw'[w] = {} => OnlyMyLive(w, n)'
    BY <2>4 DEF OnlyMyLive
  <2>6. ASSUME ~Needed(n)'
        PROVE  Asking(w, n)'
    <3>1. OthersOf(t, {"marathon", "participant"}) = {}
      BY <1>1, <1>2, <2>6 DEF OthersOf, Needed
    <3> QED
      BY <1>3, <2>1, <2>3, <3>1 DEF Asking, At
  <2>7. Fed(n)' /\ Unfed(n)'
    BY <1>1, <1>2, <1>3, <2>1, <2>5, <2>6, FedDown
  <2> QED
    BY <1>4, <2>1, <2>2, <2>7
<1> QED
  BY <1>2, <1>5, <1>6, <1>7, <1>8 DEF CountDown, LiveInv, LiveFits

\* What a subscription asks of the channel.
LEMMA RequestConsumeOrder ==
  ASSUME OrderInv, NEW w \in Workers, Proceeding(w), pc[w] \notin Waiting,
         UNCHANGED <<consumer, broker, link>>, NEW n \in Marathons, n = Mine(w)',
         ConsumeMishap(n) \subseteq mishap'[n],
         \/ /\ consumer[n] # NoTag \/ link # "up"
            /\ pc'[w] = "done" /\ UNCHANGED channel
         \/ /\ consumer[n] = NoTag /\ link = "up"
            /\ pc'[w] = "declare" /\ channel' = Append(channel, w)
  PROVE  /\ OrderInv'
         /\ pc'[w] = "done" => consumer[n] # NoTag \/ "link" \in mishap'[n]
<1>1. CASE (consumer[n] # NoTag \/ link # "up") /\ pc'[w] = "done" /\ UNCHANGED channel
  <2>1. OrderInv'
    BY <1>1, OrderKept DEF messaging, Waiting
  <2>2. consumer[n] # NoTag \/ "link" \in mishap'[n]
    BY <1>1 DEF ConsumeMishap, If
  <2> QED
    BY <2>1, <2>2
<1>2. CASE consumer[n] = NoTag /\ link = "up" /\ pc'[w] = "declare" /\ channel' = Append(channel, w)
  <2>1. Consuming(n) => "overlap" \in mishap'[n]
    BY <1>2 DEF ConsumeMishap, If
  <2> QED
    BY <1>2, <2>1, OrderDeclare
<1> QED
  BY <1>1, <1>2

LEMMA IncrementFeeds ==
  ASSUME LiveInv, FeedInv, NEW w \in Workers, NEW t \in Topics, Increment(w, t),
         pc[w] \in {"idle", "member"},
         topic' = [topic EXCEPT ![w] = t] \/ (UNCHANGED topic /\ topic[w] = t),
         UNCHANGED client \/ \E c : client' = [client EXCEPT ![w] = c],
         UNCHANGED <<leaving, saw, tag, consumer, broker, link>>
  PROVE  FeedInv'
<1>1. PICK n \in Marathons : n = MarathonOf(t) /\ (t.kind # "participant" => n = t.id)
  BY TopicsHaveMarathons
<1>2. /\ LiveFits /\ OrderInv /\ FeedFits /\ Fed(n) /\ topic'[w] = t /\ Mine(w)' = n
      /\ pc[w] \notin Serving /\ pc[w] \notin Waiting
  BY <1>1 DEF LiveInv, LiveFits, FeedInv, OrderInv, Mine, Serving, Waiting
<1>3. /\ count[t] \in Nat /\ count'[t] = count[t] + 1
      /\ \A s \in Topics \ {t} : count'[s] = count[s]
  BY <1>2, IncrementKnows DEF LiveFits
<1>4. PICK there \in {"done", "lookup", "declare"} :
        /\ Goto(w, there)
        /\ \/ there = "done" /\ count[t] > 0 /\ UNCHANGED channel
           \/ there = "lookup" /\ UNCHANGED channel
           \/ /\ there = "done" /\ UNCHANGED channel
              /\ consumer[n] # NoTag \/ link # "up"
              /\ \E what : Note(n, what) /\ ConsumeMishap(n) \subseteq what
           \/ /\ there = "declare" /\ channel' = Append(channel, w)
              /\ consumer[n] = NoTag /\ link = "up"
              /\ \E what : Note(n, what) /\ ConsumeMishap(n) \subseteq what
  BY <1>1, <1>3 DEF Increment, RequestConsume, AlreadySubscribed
<1>5. PICK what : Note(n, what) /\ If("raced", GivingUp(t)) \subseteq what
  BY <1>1 DEF Increment
<1>6. /\ mishap'[n] = mishap[n] \cup what
      /\ \A other : Note(n, other) => other \subseteq mishap'[n]
  BY <1>2, <1>5, NoteAdds
<1>7. Proceeding(w) /\ pc'[w] = there
  BY <1>2, <1>4, <1>5, ActsProceed
<1>8. GivingUp(t) => "raced" \in mishap'[n]
  BY <1>5, <1>6 DEF If
<1>9. OrderInv' /\ (pc'[w] = "done" => count[t] > 0 \/ consumer[n] # NoTag \/ "link" \in mishap'[n])
  <2>1. CASE UNCHANGED channel /\ (there = "lookup" \/ (there = "done" /\ count[t] > 0))
    BY <1>2, <1>7, <2>1, OrderKept DEF messaging, Waiting
  <2>2. CASE /\ ConsumeMishap(n) \subseteq mishap'[n]
             /\ \/ /\ consumer[n] # NoTag \/ link # "up"
                   /\ there = "done" /\ UNCHANGED channel
                \/ /\ consumer[n] = NoTag /\ link = "up"
                   /\ there = "declare" /\ channel' = Append(channel, w)
    BY <1>2, <1>7, <2>2, RequestConsumeOrder
  <2> QED
    BY <1>4, <1>6, <2>1, <2>2
<1>10. Fed(n)' /\ Unfed(n)'
  BY <1>1, <1>2, <1>3, <1>7, <1>8, <1>9, FedUp
<1> QED
  BY <1>1, <1>2, <1>3, <1>7, <1>9, <1>10, FeedAt

\* A step of a call that changes neither the counts nor the consumers, but its place or
\* what it has seen.
LEMMA FedMoves ==
  ASSUME FeedFits, NEW n \in Marathons, Fed(n), NEW w \in Workers, Proceeding(w), Mine(w)' = n,
         UNCHANGED <<count, broker, consumer, topic>>,
         Blameless(n)' =>
           /\ At(w, n, {"lookup", "declare", "consume"}) => pc'[w] \in {"lookup", "declare", "consume"}
                                                           \/ broker[n] # {}
           /\ pc'[w] = "cancel" => ~Needed(n)
           /\ pc'[w] = "looking" /\ saw'[w] = {} => OnlyMyLive(w, n)
           /\ pc'[w] # "which",
         ~Needed(n) /\ mishap'[n] \cap {"lookup", "overlap", "early"} = {} =>
           /\ Coming(n)' => \E v \in Workers : Asking(v, n)'
           /\ broker[n] # {} => \E v \in Workers : Asking(v, n)' \/ At(v, n, {"cancel"})'
  PROVE  Fed(n)' /\ Unfed(n)'
<1>1. Needed(n)' <=> Needed(n)
  BY DEF Needed
<1>2. \A v \in Workers, p \in Serving : v # w => (At(v, n, {p})' <=> At(v, n, {p}))
  BY OthersStay
<1>3. \A v \in Workers \ {w} : saw'[v] = saw[v]
  BY DEF Proceeding
<1>4. ASSUME Blameless(n)'
      PROVE  Fed(n)'
  <2>1. Blameless(n)
    BY <1>4 DEF Blameless, Proceeding
  <2>2. Needed(n)' => broker'[n] # {} \/ Coming(n)'
    <3>1. ASSUME Coming(n), broker[n] = {}
          PROVE  Coming(n)'
      <4>1. PICK v \in Workers : At(v, n, {"lookup", "declare", "consume"})
        BY <3>1 DEF Coming, Consuming, At
      <4>2. At(v, n, {"lookup", "declare", "consume"})'
        <5>1. CASE v = w
          BY <1>4, <3>1, <4>1, <5>1 DEF At
        <5>2. CASE v # w
          BY <4>1, <5>2, OthersStay
        <5> QED
          BY <5>1, <5>2
      <4> QED
        BY <4>2 DEF Coming, Consuming, At
    <3> QED
      BY <1>1, <2>1, <3>1 DEF Fed
  <2>3. ASSUME NEW v \in Workers
        PROVE  /\ At(v, n, {"cancel"})' => ~Needed(n)'
               /\ At(v, n, {"looking"})' /\ saw'[v] = {} => OnlyMyLive(v, n)'
               /\ At(v, n, {"which"})' => count'[topic'[v]] = 0
    <3>1. CASE v # w
      BY <1>1, <1>2, <1>3, <2>1, <3>1 DEF Fed, Serving, Waiting, OnlyMyLive
    <3>2. CASE v = w
      BY <1>1, <1>4, <3>2 DEF At, OnlyMyLive
    <3> QED
      BY <3>1, <3>2
  <2> QED
    BY <2>1, <2>2, <2>3 DEF Fed
<1> QED
  BY <1>1, <1>4 DEF Fed, Unfed

------------------------------------------------------------------------------
LEMMA AsideFeeds ==
  ASSUME LiveInv, FeedInv, NEW w \in Workers,
         \/ NoMember(w) \/ Forget(w) \/ RequestFails(w)
         \/ \E c \in Clients : Disconnect(w, c)
         \/ \E c \in Clients, t \in Topics : Subscribe(w, c, t) /\ t.kind = "myLive"
  PROVE  FeedInv'
<1>1. LiveFits /\ FeedFits
  BY DEF LiveInv, FeedInv, OrderInv
<1>2. /\ pc[w] \in {"idle", "member", "next", "failed"}
      /\ UNCHANGED <<count, messaging, saw, tag, mishap>>
      /\ UNCHANGED client \/ \E c : client' = [client EXCEPT ![w] = c]
      /\ UNCHANGED topic \/ \E t : topic' = [topic EXCEPT ![w] = t]
      /\ UNCHANGED leaving \/ leaving' = leaving \cup {w}
  BY DEF NoMember, Forget, RequestFails, Disconnect, Subscribe, Call, subscriptions, messaging, local
<1>3. PICK there \in {"done", "next", "member"} : Goto(w, there)
  BY DEF NoMember, Forget, RequestFails, Disconnect, Subscribe, Finish
<1>4. Proceeding(w) /\ pc'[w] = there
  BY <1>1, <1>2, <1>3, ActsProceed DEF Serving, Waiting
<1>5. OrderInv'
  BY <1>2, <1>4, OrderKept DEF FeedInv, Waiting
<1> QED
  BY <1>2, <1>4, <1>5, FeedAside DEF Serving, Waiting, messaging

LEMMA SubscribeFeeds ==
  ASSUME LiveInv, FeedInv, NEW w \in Workers, NEW c \in Clients, NEW t \in Topics, Subscribe(w, c, t)
  PROVE  FeedInv'
<1>1. /\ pc[w] = "idle" /\ UNCHANGED <<consumer, broker, link, leaving, saw, tag>>
      /\ client' = [client EXCEPT ![w] = c] /\ topic' = [topic EXCEPT ![w] = t]
  BY DEF Subscribe, Call
<1>2. CASE Increment(w, t)
  BY <1>1, <1>2, IncrementFeeds
<1>3. CASE t.kind = "myLive"
  BY <1>3, AsideFeeds
<1> QED
  BY <1>2, <1>3 DEF Subscribe

LEMMA FoundMemberFeeds ==
  ASSUME LiveInv, FeedInv, NEW w \in Workers, FoundMember(w)
  PROVE  FeedInv'
<1>1. /\ pc[w] = "member" /\ Increment(w, topic[w])
      /\ UNCHANGED <<consumer, broker, link, client, topic, leaving, saw, tag>>
  BY DEF FoundMember, local
<1>2. topic[w] \in Topics
  BY <1>1 DEF LiveInv, CallFits
<1> QED
  BY <1>1, <1>2, IncrementFeeds

LEMMA LeavingFeeds ==
  ASSUME LiveInv, FeedInv, NEW w \in Workers, NEW t \in Topics,
         Release(w, t) \/ \E c \in Clients : Unsubscribe(w, c, t)
  PROVE  FeedInv'
<1>1. /\ pc[w] \in {"idle", "next"} /\ CountDown(w, t) /\ topic' = [topic EXCEPT ![w] = t]
      /\ UNCHANGED client \/ \E c : client' = [client EXCEPT ![w] = c]
      /\ UNCHANGED <<leaving, consumer, broker, link>>
  BY DEF Release, Unsubscribe, Call
<1> QED
  BY <1>1, CountDownFeeds

\* A lookup has failed, which is all that is known then.
LEMMA FailedLookupFeeds ==
  ASSUME LiveInv, FeedInv, NEW w \in Workers, NoHome(w) \/ WhichFails(w) \/ LookingFails(w)
  PROVE  FeedInv'
<1>1. PICK n : n = Mine(w)
  OBVIOUS
<1>2. LiveFits /\ OrderInv /\ FeedFits
  BY DEF LiveInv, FeedInv, OrderInv
<1>3. /\ pc[w] \in {"lookup", "which", "looking"} /\ Note(n, {"lookup"})
      /\ UNCHANGED <<count, messaging, client, topic, leaving, tag>>
      /\ UNCHANGED saw \/ \E x : saw' = [saw EXCEPT ![w] = x]
  BY <1>1 DEF NoHome, WhichFails, LookingFails, local, subscriptions
<1>4. n \in Marathons
  BY <1>1, <1>2, <1>3, TopicsHaveMarathons DEF FeedFits, ServesTopic, Serving, Mine
<1>5. PICK there \in {"done", "next", "looking"} : Goto(w, there)
  <2>1. CASE LookingFails(w)
    BY <1>2, <2>1 DEF LookingFails, Goto, LiveFits
  <2> QED
    BY <2>1 DEF NoHome, WhichFails, Finish
<1>6. Proceeding(w) /\ pc'[w] = there /\ Mine(w)' = n /\ "lookup" \in mishap'[n]
  <2>1. topic[w] \in Topics
    BY <1>2, <1>3 DEF FeedFits, ServesTopic, Serving
  <2>2. Proceeding(w) /\ pc'[w] = there
    BY <1>2, <1>3, <1>4, <1>5, <2>1, ActsProceed
  <2> QED
    BY <1>1, <1>2, <1>3, <1>4, <2>2, NoteAdds DEF Mine
<1>7. OrderInv'
  BY <1>2, <1>3, <1>6, OrderKept DEF Waiting
<1>8. Fed(n)' /\ Unfed(n)'
  BY <1>6 DEF Fed, Unfed, Blameless
<1> QED
  BY <1>1, <1>3, <1>4, <1>6, <1>7, <1>8, FeedAt DEF messaging

LEMMA FoundHomeFeeds ==
  ASSUME LiveInv, FeedInv, NEW w \in Workers, FoundHome(w)
  PROVE  FeedInv'
<1>1. PICK n : n = Mine(w)
  OBVIOUS
<1>2. LiveFits /\ OrderInv /\ FeedFits
  BY DEF LiveInv, FeedInv, OrderInv
<1>3. /\ pc[w] = "lookup" /\ Note(n, ConsumeMishap(n)) /\ RequestConsume(w, n)
      /\ UNCHANGED <<count, consumer, broker, link, client, topic, leaving, tag, saw>>
  BY <1>1 DEF FoundHome, local, subscriptions
<1>4. topic[w] \in Topics /\ n \in Marathons
  BY <1>1, <1>2, <1>3, TopicsHaveMarathons DEF FeedFits, ServesTopic, Serving, Mine
<1>5. PICK there \in {"done", "declare"} :
        /\ Goto(w, there)
        /\ \/ /\ consumer[n] # NoTag \/ link # "up"
              /\ there = "done" /\ UNCHANGED channel
           \/ /\ consumer[n] = NoTag /\ link = "up"
              /\ there = "declare" /\ channel' = Append(channel, w)
  BY <1>3 DEF RequestConsume, AlreadySubscribed
<1>6. /\ Proceeding(w) /\ pc'[w] = there /\ Mine(w)' = n
      /\ mishap'[n] = mishap[n] \cup ConsumeMishap(n)
  <2>1. Proceeding(w) /\ pc'[w] = there
    BY <1>2, <1>3, <1>4, <1>5, ActsProceed
  <2> QED
    BY <1>1, <1>2, <1>3, <1>4, <2>1, NoteAdds DEF Mine
<1>7. OrderInv' /\ (pc'[w] = "done" => consumer[n] # NoTag \/ "link" \in mishap'[n])
  BY <1>2, <1>3, <1>4, <1>5, <1>6, RequestConsumeOrder DEF Waiting
<1>8. Fed(n) /\ Unfed(n) /\ Coming(n)
  BY <1>1, <1>3, <1>4 DEF FeedInv, Coming
<1>9. \A v \in Workers : /\ Asking(v, n) => Asking(v, n)'
                         /\ At(v, n, {"cancel"}) => At(v, n, {"cancel"})'
  BY <1>3, OthersStay, <1>6 DEF Asking, At, Proceeding
<1>10. Blameless(n)' => pc'[w] = "declare" \/ broker[n] # {}
  BY <1>5, <1>6, <1>7, <1>8 DEF Blameless, Fed
<1>11. Fed(n)' /\ Unfed(n)'
  <2>1. ~Needed(n) /\ mishap'[n] \cap {"lookup", "overlap", "early"} = {} =>
           /\ \E v \in Workers : Asking(v, n)'
           /\ broker[n] # {} => \E v \in Workers : Asking(v, n)' \/ At(v, n, {"cancel"})'
    BY <1>6, <1>8, <1>9 DEF Unfed
  <2> QED
    BY <1>2, <1>3, <1>4, <1>5, <1>6, <1>8, <1>10, <2>1, FedMoves
<1> QED
  BY <1>1, <1>3, <1>4, <1>6, <1>7, <1>11, FeedAt

\* The call looks for the other subscribers of its marathon.
LEMMA WhichFeeds ==
  ASSUME LiveInv, FeedInv, NEW w \in Workers, Which(w)
  PROVE  FeedInv'
<1>1. PICK n : n = Mine(w)
  OBVIOUS
<1>2. LiveFits /\ OrderInv /\ FeedFits
  BY DEF LiveInv, FeedInv, OrderInv
<1>3. /\ pc[w] = "which" /\ Goto(w, "looking")
      /\ saw' = [saw EXCEPT ![w] = OthersOf(topic[w], {"marathon", "participant"})]
      /\ UNCHANGED <<count, messaging, client, topic, leaving, tag, mishap>>
  BY DEF Which, subscriptions
<1>4. topic[w] \in Topics /\ topic[w].kind = "participant" /\ n = MarathonOf(topic[w]) /\ n \in Marathons
  BY <1>1, <1>2, <1>3, TopicsHaveMarathons DEF FeedFits, ServesTopic, Serving, Mine
<1>5. /\ Proceeding(w) /\ pc'[w] = "looking" /\ Mine(w)' = n
      /\ saw'[w] = OthersOf(topic[w], {"marathon", "participant"})
  <2>1. Proceeding(w) /\ pc'[w] = "looking"
    BY <1>2, <1>3, <1>4, ActsProceed
  <2> QED
    BY <1>1, <1>2, <1>3, <2>1 DEF Mine, FeedFits
<1>6. OrderInv'
  BY <1>2, <1>3, <1>5, OrderKept DEF Waiting
<1>7. Fed(n) /\ Unfed(n)
  BY <1>4 DEF FeedInv
<1>8. ASSUME Blameless(n), saw'[w] = {}
      PROVE  OnlyMyLive(w, n)
  <2>1. count[topic[w]] = 0
    BY <1>1, <1>3, <1>7, <1>8 DEF Fed, At
  <2>2. ASSUME NEW s \in Topics, MarathonOf(s) = n, count[s] > 0
        PROVE  s.kind = "myLive"
    <3>1. s # topic[w]
      BY <2>1, <2>2
    <3>2. s.kind \notin {"marathon", "participant"}
      BY <1>4, <1>5, <1>8, <2>2, <3>1 DEF OthersOf
    <3> QED
      BY <3>2 DEF Topics
  <2> QED
    BY <1>4, <2>2 DEF OnlyMyLive
<1>9. ASSUME ~Needed(n)
      PROVE  Asking(w, n)'
  <2>1. OthersOf(topic[w], {"marathon", "participant"}) = {}
    BY <1>4, <1>9 DEF OthersOf, Needed
  <2> QED
    BY <1>5, <2>1 DEF Asking, At
<1>10. Fed(n)' /\ Unfed(n)'
  <2>1. Blameless(n)' => Blameless(n)
    BY <1>3 DEF Blameless
  <2> QED
    BY <1>2, <1>3, <1>4, <1>5, <1>7, <1>8, <1>9, <2>1, FedMoves DEF At, messaging
<1> QED
  BY <1>1, <1>3, <1>4, <1>5, <1>6, <1>10, FeedAt DEF messaging

\* The lookups are over; whoever has found nobody requests the cancellation.
LEMMA DecideFeeds ==
  ASSUME LiveInv, FeedInv, NEW w \in Workers, Decide(w)
  PROVE  FeedInv'
<1>1. PICK n : n = Mine(w)
  OBVIOUS
<1>2. LiveFits /\ OrderInv /\ FeedFits
  BY DEF LiveInv, FeedInv, OrderInv
<1>3. /\ pc[w] = "looking"
      /\ UNCHANGED <<count, consumer, broker, link, client, topic, leaving, saw>>
  BY DEF Decide
<1>4. topic[w] \in Topics /\ n = MarathonOf(topic[w]) /\ n \in Marathons /\ Mine(w)' = n
  BY <1>1, <1>2, <1>3, TopicsHaveMarathons DEF FeedFits, ServesTopic, Serving, Mine
<1>5. Fed(n) /\ Unfed(n)
  BY <1>4 DEF FeedInv
<1>6. \A v \in Workers \ {w}, p \in {"which", "looking", "cancel"} :
        Proceeding(w) => (At(v, n, {p}) <=> At(v, n, {p})') /\ saw'[v] = saw[v]
  BY <1>3, OthersStay
<1>7. CASE /\ saw[w] # {} \/ OthersOf(topic[w], {"myLive"}) # {}
           /\ Finish(w) /\ UNCHANGED <<channel, tag, mishap>>
  <2>1. PICK there \in {"next", "done"} : Goto(w, there)
    BY <1>7 DEF Finish
  <2>2. Proceeding(w) /\ pc'[w] = there
    BY <1>2, <1>3, <1>7, <2>1, ActsProceed DEF Serving, Waiting
  <2>3. OrderInv'
    BY <1>2, <1>3, <1>7, <2>2, OrderKept DEF Waiting, messaging
  <2>4. ~Needed(n) => OthersOf(topic[w], {"myLive"}) = {}
    BY <1>4 DEF Needed, OthersOf
  <2>5. ASSUME ~Needed(n), mishap[n] \cap {"lookup", "overlap", "early"} = {}
        PROVE  /\ Coming(n)' => \E v \in Workers : Asking(v, n)'
               /\ broker[n] # {} => \E v \in Workers : Asking(v, n)' \/ At(v, n, {"cancel"})'
    <3>1. ~Asking(w, n) /\ ~At(w, n, {"cancel"})
      BY <1>3, <1>7, <2>4, <2>5 DEF Asking, At
    <3>2. \A v \in Workers : /\ Asking(v, n) => Asking(v, n)'
                             /\ At(v, n, {"cancel"}) => At(v, n, {"cancel"})'
      BY <1>6, <2>2, <3>1 DEF Asking
    <3>3. Coming(n)' => Coming(n)
      <4>1. \A v \in Workers : At(v, n, {"lookup", "declare", "consume"})'
                                 => At(v, n, {"lookup", "declare", "consume"})
        BY <2>2, OthersStay DEF At
      <4> QED
        BY <4>1 DEF Coming, Consuming, At
    <3> QED
      BY <1>5, <2>5, <3>2, <3>3 DEF Unfed
  <2>6. Fed(n)' /\ Unfed(n)'
    BY <1>2, <1>3, <1>4, <1>5, <1>7, <2>2, <2>5, FedMoves DEF At
  <2> QED
    BY <1>1, <1>3, <1>4, <2>2, <2>3, <2>6, FeedAt
<1>8. CASE /\ saw[w] = {} /\ (topic[w].kind = "participant" => OthersOf(topic[w], {"myLive"}) = {})
           /\ RequestCancel(w, n) /\ Note(n, CancelMishap(n))
  <2>1. PICK there \in {"next", "done", "cancel"} :
          /\ Goto(w, there)
          /\ \/ /\ there # "cancel"
                /\ consumer[n] = NoTag \/ link # "up"
                /\ UNCHANGED <<channel, tag>>
             \/ /\ there = "cancel" /\ consumer[n] # NoTag /\ link = "up"
                /\ channel' = Append(channel, w) /\ tag' = [tag EXCEPT ![w] = consumer[n]]
    BY <1>8 DEF RequestCancel, Finish
  <2>2. Proceeding(w) /\ pc'[w] = there
    BY <1>2, <1>3, <1>4, <1>8, <2>1, ActsProceed
  <2>3. there = "cancel" => tag'[w] = consumer[n]
    BY <1>2, <2>1 DEF LiveFits
  <2>4. OrderInv' /\ ("overlap" \notin mishap'[n] /\ broker[n] # {} => there = "cancel")
    BY <1>2, <1>3, <1>4, <2>1, <2>2, <2>3, RequestCancelOrder DEF Waiting
  <2>5. mishap'[n] = mishap[n] \cup If("early", Coming(n))
    BY <1>2, <1>4, <1>8, NoteAdds DEF CancelMishap
  <2>6. Coming(n)' => Coming(n)
    <3>1. \A v \in Workers : At(v, n, {"lookup", "declare", "consume"})'
                               => At(v, n, {"lookup", "declare", "consume"})
      BY <2>2, OthersStay DEF At
    <3> QED
      BY <3>1 DEF Coming, Consuming, At
  <2>7. ASSUME Blameless(n)
        PROVE  ~Needed(n)
    <3>1. OnlyMyLive(w, n) /\ At(w, n, {"looking"})
      BY <1>1, <1>3, <1>5, <1>8, <2>7 DEF Fed, At
    <3>2. ASSUME NEW s \in Topics, MarathonOf(s) = n, count[s] > 0
          PROVE  FALSE
      <4>1. s.kind = "myLive" /\ topic[w].kind = "participant"
        BY <3>1, <3>2 DEF OnlyMyLive
      <4>2. s # topic[w]
        BY <4>1
      <4> QED
        BY <1>4, <1>8, <3>2, <4>1, <4>2 DEF OthersOf
    <3> QED
      BY <3>2 DEF Needed
  <2>8. Blameless(n)' => Blameless(n)
    BY <2>5 DEF Blameless
  <2>9. ~Needed(n) /\ mishap'[n] \cap {"lookup", "overlap", "early"} = {} =>
           /\ ~Coming(n)'
           /\ broker[n] # {} => At(w, n, {"cancel"})'
    BY <1>4, <2>2, <2>4, <2>5, <2>6 DEF If, At
  <2>10. Fed(n)' /\ Unfed(n)'
    BY <1>2, <1>3, <1>4, <1>5, <2>2, <2>7, <2>8, <2>9, FedMoves DEF At
  <2> QED
    BY <1>1, <1>3, <1>4, <2>2, <2>4, <2>10, FeedAt
<1> QED
  BY <1>1, <1>7, <1>8 DEF Decide

LEMMA AnswerDeclareFeeds ==
  ASSUME LiveInv, FeedInv, NEW w \in Workers, AnswerDeclare(w)
  PROVE  FeedInv'
<1>1. PICK n : n = Mine(w)
  OBVIOUS
<1>2. LiveFits /\ OrderInv /\ FeedFits
  BY DEF LiveInv, FeedInv, OrderInv
<1>3. /\ pc[w] = "declare" /\ Goto(w, "consume")
      /\ UNCHANGED <<count, consumer, broker, client, topic, leaving, saw, tag, mishap>>
  BY DEF AnswerDeclare, local, subscriptions
<1>4. topic[w] \in Topics /\ n \in Marathons /\ Mine(w)' = n
  BY <1>1, <1>2, <1>3, TopicsHaveMarathons DEF FeedFits, ServesTopic, Serving, Waiting, Mine
<1>5. Proceeding(w) /\ pc'[w] = "consume"
  BY <1>2, <1>3, <1>4, ActsProceed
<1>6. OrderInv'
  BY <1>2, <1>5, OrderAnswerDeclare
<1>7. Fed(n) /\ Unfed(n) /\ Coming(n)
  BY <1>1, <1>3, <1>4 DEF FeedInv, Coming, Consuming
<1>8. \A v \in Workers : /\ Asking(v, n) => Asking(v, n)'
                         /\ At(v, n, {"cancel"}) => At(v, n, {"cancel"})'
  BY <1>3, <1>5, OthersStay DEF Asking, At, Proceeding
<1>9. Fed(n)' /\ Unfed(n)'
  <2>1. ~Needed(n) /\ mishap'[n] \cap {"lookup", "overlap", "early"} = {} =>
           /\ \E v \in Workers : Asking(v, n)'
           /\ broker[n] # {} => \E v \in Workers : Asking(v, n)' \/ At(v, n, {"cancel"})'
    BY <1>3, <1>7, <1>8 DEF Unfed
  <2> QED
    BY <1>2, <1>3, <1>4, <1>5, <1>7, <2>1, FedMoves DEF At
<1> QED
  BY <1>1, <1>3, <1>4, <1>5, <1>6, <1>9, FeedAt

\* The broker delivers the marathon from now on.
LEMMA AnswerConsumeFeeds ==
  ASSUME LiveInv, FeedInv, NEW w \in Workers, AnswerConsume(w)
  PROVE  FeedInv'
<1>1. PICK n : n = Mine(w)
  OBVIOUS
<1>2. LiveFits /\ OrderInv /\ FeedFits
  BY DEF LiveInv, FeedInv, OrderInv
<1>3. /\ pc[w] = "consume" /\ Goto(w, "done")
      /\ broker' = [broker EXCEPT ![n] = @ \cup {w}] /\ consumer' = [consumer EXCEPT ![n] = w]
      /\ UNCHANGED <<count, client, topic, leaving, saw, tag, mishap>>
  BY <1>1 DEF AnswerConsume, local, subscriptions
<1>4. n \in Marathons /\ Mine(w)' = n
  BY <1>1, <1>2, <1>3, TopicsHaveMarathons DEF FeedFits, ServesTopic, Serving, Waiting, Mine
<1>5. Proceeding(w) /\ pc'[w] = "done"
  BY <1>2, <1>3, ActsProceed DEF Serving, Waiting
<1>6. OrderInv'
  BY <1>2, <1>5, OrderAnswerConsume
<1>7. /\ consumer'[n] = w /\ w \in broker'[n]
      /\ \A m \in Marathons \ {n} : broker'[m] = broker[m] /\ consumer'[m] = consumer[m]
  BY <1>2, <1>3, <1>4 DEF FeedFits
<1>8. Fed(n) /\ Unfed(n) /\ Coming(n)
  BY <1>1, <1>3, <1>4 DEF FeedInv, Coming, Consuming
<1>9. \A v \in Workers, p \in {"which", "looking", "cancel"} :
        /\ At(v, n, {p})' <=> At(v, n, {p})
        /\ saw'[v] = saw[v] /\ topic'[v] = topic[v]
  BY <1>3, <1>5, OthersStay DEF At
<1>10. Needed(n)' <=> Needed(n)
  BY <1>3 DEF Needed
<1>11. Fed(n)'
  BY <1>3, <1>7, <1>8, <1>9, <1>10 DEF Fed, Blameless, OnlyMyLive
<1>12. Unfed(n)'
  BY <1>3, <1>8, <1>9, <1>10 DEF Unfed, Asking
<1> QED
  BY <1>1, <1>3, <1>4, <1>5, <1>6, <1>7, <1>11, <1>12, FeedAt

\* The marathon is not delivered any more, and nobody is counted.
LEMMA AnswerCancelFeeds ==
  ASSUME LiveInv, FeedInv, NEW w \in Workers, AnswerCancel(w)
  PROVE  FeedInv'
<1>1. PICK n : n = Mine(w)
  OBVIOUS
<1>2. LiveFits /\ OrderInv /\ FeedFits
  BY DEF LiveInv, FeedInv, OrderInv
<1>3. /\ pc[w] = "cancel" /\ Finish(w)
      /\ broker' = [broker EXCEPT ![n] = @ \ {tag[w]}] /\ consumer' = [consumer EXCEPT ![n] = NoTag]
      /\ UNCHANGED <<count, client, topic, leaving, saw, tag, mishap>>
  BY <1>1 DEF AnswerCancel, StopConsuming, local, subscriptions
<1>4. n \in Marathons /\ Mine(w)' = n /\ At(w, n, {"cancel"})
  BY <1>1, <1>2, <1>3, TopicsHaveMarathons DEF FeedFits, ServesTopic, Serving, Waiting, Mine, At
<1>5. PICK there \in {"next", "done"} : Goto(w, there)
  BY <1>3 DEF Finish
<1>6. Proceeding(w) /\ pc'[w] = there
  BY <1>2, <1>3, <1>5, ActsProceed DEF Serving, Waiting
<1>7. OrderInv'
  BY <1>2, <1>6, OrderAnswerCancel DEF Waiting
<1>8. /\ consumer'[n] = NoTag /\ broker'[n] = broker[n] \ {tag[w]}
      /\ \A m \in Marathons \ {n} : broker'[m] = broker[m] /\ consumer'[m] = consumer[m]
  BY <1>2, <1>3, <1>4 DEF FeedFits
<1>9. Fed(n) /\ Unfed(n) /\ InOrder(n)
  BY <1>2, <1>4 DEF FeedInv, OrderInv
<1>10. \A v \in Workers : /\ Asking(v, n)' <=> Asking(v, n)
                          /\ At(v, n, {"cancel"})' => At(v, n, {"cancel"})
                          /\ At(v, n, {"looking"})' => At(v, n, {"looking"})
                          /\ At(v, n, {"which"})' => At(v, n, {"which"})
  BY <1>3, <1>6, OthersStay DEF At, Asking
<1>11. Needed(n)' <=> Needed(n)
  BY <1>3 DEF Needed
<1>12. Coming(n)' => Coming(n)
  <2>1. \A v \in Workers : At(v, n, {"lookup", "declare", "consume"})'
                             => At(v, n, {"lookup", "declare", "consume"})
    BY <1>6, OthersStay DEF At
  <2> QED
    BY <2>1 DEF Coming, Consuming, At
<1>13. Fed(n)'
  BY <1>3, <1>4, <1>8, <1>9, <1>10, <1>11 DEF Fed, Blameless, OnlyMyLive
<1>14. Unfed(n)'
  <2>1. "overlap" \notin mishap[n] => broker'[n] = {}
    BY <1>4, <1>8, <1>9 DEF InOrder
  <2> QED
    BY <1>3, <1>9, <1>10, <1>11, <1>12, <2>1 DEF Unfed
<1> QED
  BY <1>1, <1>3, <1>4, <1>6, <1>7, <1>8, <1>13, <1>14, FeedAt

\* A marathon that loses its consumer, or a consumption, to the connection is told so.
LEMMA LinkFailsFeeds ==
  ASSUME LiveInv, FeedInv, NEW now \in {"closed", "down"}, LinkFails(now)
  PROVE  FeedInv'
<1>1. /\ UNCHANGED <<count, consumer, topic, saw>> /\ broker' = [m \in Marathons |-> {}]
      /\ \A w \in Workers : pc'[w] = IF pc[w] \in Waiting THEN "failed" ELSE pc[w]
      /\ mishap' = [m \in Marathons |-> mishap[m] \cup If("link", broker[m] # {} \/ Consuming(m))]
  BY DEF LinkFails, local, subscriptions, Waiting
<1>2. OrderInv'
  BY OrderLinkFails DEF FeedInv, LiveInv
<1>3. ASSUME NEW m \in Marathons
      PROVE  Fed(m)' /\ Unfed(m)'
  <2>1. Fed(m) /\ Unfed(m) /\ (Needed(m)' <=> Needed(m)) /\ broker'[m] = {}
    BY <1>1 DEF FeedInv, Needed
  <2>2. \A v \in Workers : /\ Asking(v, m)' <=> Asking(v, m)
                           /\ ~At(v, m, {"cancel", "declare", "consume"})'
                           /\ At(v, m, {"looking"})' => At(v, m, {"looking"})
                           /\ At(v, m, {"which"})' => At(v, m, {"which"})
                           /\ At(v, m, {"lookup"})' <=> At(v, m, {"lookup"})
    BY <1>1 DEF Asking, At, Mine, Waiting
  <2>3. Coming(m)' <=> \E v \in Workers : At(v, m, {"lookup"})
    BY <2>2 DEF Coming, Consuming, At
  <2>4. Fed(m)'
    <3>1. ASSUME Blameless(m)'
          PROVE  Blameless(m) /\ broker[m] = {} /\ ~Consuming(m)
      BY <1>1, <3>1 DEF Blameless, If
    <3>2. ~Consuming(m) => (Coming(m) <=> \E v \in Workers : At(v, m, {"lookup"}))
      BY DEF Coming, At
    <3>3. \A v \in Workers : ~At(v, m, {"cancel"})'
      BY <2>2 DEF At
    <3>4. UNCHANGED <<count, topic, saw, consumer>>
      BY <1>1
    <3> QED
      BY <2>1, <2>2, <2>3, <3>1, <3>2, <3>3, <3>4 DEF Fed, OnlyMyLive
  <2>5. Unfed(m)'
    <3>1. (\E v \in Workers : At(v, m, {"lookup"})) => Coming(m)
      BY DEF Coming, At
    <3>2. mishap[m] \subseteq mishap'[m]
      BY <1>1
    <3> QED
      BY <2>1, <2>2, <2>3, <3>1, <3>2 DEF Unfed
  <2> QED
    BY <2>4, <2>5
<1> QED
  BY <1>2, <1>3 DEF FeedInv

\* The connection comes back without any consumer, or nothing happens at all.
LEMMA LinkRestoredFeeds ==
  ASSUME FeedInv, LinkRestored \/ UNCHANGED liveVars
  PROVE  FeedInv'
<1>1. /\ UNCHANGED <<count, consumer, broker, channel, pc, topic, saw, tag, mishap>>
      /\ UNCHANGED link \/ link' = "up"
  BY DEF LinkRestored, liveVars, subscriptions, messaging, local
<1>2. FeedFits' /\ ChannelFits'
  BY <1>1 DEF FeedInv, OrderInv, FeedFits, ServesTopic, ChannelFits, Waits
<1>3. ASSUME NEW m \in Marathons
      PROVE  InOrder(m)'
  BY <1>1 DEF FeedInv, OrderInv, InOrder, Consuming, At, Mine, Ahead
<1>4. ASSUME NEW m \in Marathons
      PROVE  Fed(m)'
  BY <1>1 DEF FeedInv, Fed, Blameless, Needed, Coming, Consuming, At, Mine, OnlyMyLive
<1>5. ASSUME NEW m \in Marathons
      PROVE  Unfed(m)'
  BY <1>1 DEF FeedInv, Unfed, Needed, Coming, Consuming, At, Mine, Asking
<1> QED
  BY <1>2, <1>3, <1>4, <1>5 DEF FeedInv, OrderInv

------------------------------------------------------------------------------
LEMMA InitFeedInv == LiveInit => FeedInv
<1> SUFFICES ASSUME LiveInit PROVE FeedInv
  OBVIOUS
<1>1. FeedFits
  BY DEF LiveInit, FeedFits, ServesTopic, Serving, Waiting
<1>2. ChannelFits
  <2>1. channel = <<>> /\ channel \in Seq(Workers) /\ DOMAIN channel = {}
    BY DEF LiveInit
  <2> QED
    BY <2>1 DEF LiveInit, ChannelFits, Waits, IsIn, Distinct, Waiting
<1>3. ASSUME NEW m \in Marathons
      PROVE  InOrder(m) /\ Fed(m) /\ Unfed(m)
  <2>1. /\ ~Needed(m) /\ consumer[m] = NoTag /\ broker[m] = {}
        /\ \A v \in Workers : pc[v] = "idle"
    BY DEF LiveInit, Needed
  <2>2. \A v \in Workers, p \in Serving : ~At(v, m, {p})
    BY <2>1 DEF At, Serving, Waiting
  <2>3. ~Coming(m) /\ ~Consuming(m)
    BY <2>1 DEF Coming, Consuming
  <2>4. InOrder(m)
    BY <2>1, <2>3 DEF InOrder, At
  <2>5. Fed(m)
    BY <2>1, <2>2, <2>3 DEF Fed, Serving, Waiting
  <2>6. Unfed(m)
    BY <2>1, <2>3 DEF Unfed
  <2> QED
    BY <2>4, <2>5, <2>6
<1> QED
  BY <1>1, <1>2, <1>3 DEF FeedInv, OrderInv

LEMMA FeedNext ==
  ASSUME LiveInv, FeedInv, [LiveNext]_liveVars
  PROVE  FeedInv'
<1>1. ASSUME NEW w \in Workers, NEW c \in Clients,
             (\E t \in Topics : Subscribe(w, c, t) \/ Unsubscribe(w, c, t)) \/ Disconnect(w, c)
      PROVE  FeedInv'
  BY <1>1, SubscribeFeeds, LeavingFeeds, AsideFeeds
<1>2. ASSUME NEW w \in Workers,
             FoundMember(w) \/ NoMember(w) \/ FoundHome(w) \/ NoHome(w) \/ Forget(w)
               \/ RequestFails(w) \/ (\E t \in Topics : Release(w, t))
      PROVE  FeedInv'
  BY <1>2, FoundMemberFeeds, AsideFeeds, FoundHomeFeeds, FailedLookupFeeds, LeavingFeeds
<1>3. ASSUME NEW w \in Workers,
             Which(w) \/ WhichFails(w) \/ Decide(w) \/ LookingFails(w)
               \/ AnswerDeclare(w) \/ AnswerConsume(w) \/ AnswerCancel(w)
      PROVE  FeedInv'
  BY <1>3, WhichFeeds, FailedLookupFeeds, DecideFeeds, AnswerDeclareFeeds, AnswerConsumeFeeds,
     AnswerCancelFeeds
<1>4. ASSUME (\E now \in {"closed", "down"} : LinkFails(now)) \/ LinkRestored \/ UNCHANGED liveVars
      PROVE  FeedInv'
  BY <1>4, LinkFailsFeeds, LinkRestoredFeeds
<1> QED
  BY <1>1, <1>2, <1>3, <1>4 DEF LiveNext

\* An open client holds what it watches, and so it is counted.
LEMMA WatchedIsNeeded ==
  ASSUME LiveInv, NEW c \in Clients, NEW t \in Topics, socket[c] = "open", t \in watch[c]
  PROVE  Needed(MarathonOf(t))
<1>1. c \in Holders(t)
  BY DEF LiveInv, OpenHoldAll, Holders, Held
<1>2. Cardinality(Holders(t)) \in Nat /\ Cardinality(Holders(t)) # 0
  BY <1>1, HoldersAreFinite, FS_EmptySet
<1>3. count[t] \in Nat /\ Cardinality(Holders(t)) <= count[t]
  BY DEF LiveInv, LiveFits, CountsFit, TopicFits
<1> QED
  BY <1>2, <1>3 DEF Needed

LEMMA FeedFollows ==
  ASSUME LiveInv, FeedInv
  PROVE  NoOrphanConsumer /\ FedIsFollowed
<1>1. NoOrphanConsumer
  BY DEF FeedInv, OrderInv, InOrder, NoOrphanConsumer
<1>2. ASSUME Quiet, NEW m \in Marathons
      PROVE  ~Coming(m) /\ \A v \in Workers : ~Asking(v, m) /\ ~At(v, m, {"cancel"})
  BY <1>2 DEF Quiet, Coming, Consuming, Asking, At
<1>3. ASSUME Quiet, NEW m \in Marathons, NEW c \in Clients, NEW t \in Topics,
             socket[c] = "open", t \in watch[c], MarathonOf(t) = m, Blameless(m)
      PROVE  broker[m] # {}
  BY <1>2, <1>3, WatchedIsNeeded DEF FeedInv, Fed
<1>4. ASSUME Quiet, NEW m \in Marathons, ~Needed(m),
             mishap[m] \cap {"lookup", "overlap", "early"} = {}
      PROVE  broker[m] = {}
  BY <1>2, <1>4 DEF FeedInv, Unfed
<1>5. FollowedIsFed
  BY <1>3 DEF FollowedIsFed, Blameless
<1>6. UnneededIsNotFed
  BY <1>4 DEF UnneededIsNotFed
<1> QED
  BY <1>1, <1>5, <1>6 DEF FedIsFollowed

LEMMA FeedAlways == LiveSpec => [](LiveInv /\ FeedInv)
<1>1. LiveInit => LiveInv /\ FeedInv
  BY InitLiveInv, InitFeedInv
<1>2. LiveInv /\ FeedInv /\ [LiveNext]_liveVars => (LiveInv /\ FeedInv)'
  BY LiveStep, FeedNext
<1> QED
  BY <1>1, <1>2, PTL DEF LiveSpec

\* Unless two calls of subscribeToMarathon have overlapped, the broker delivers a marathon
\* to the consumer that the map `consumers` holds and to no other, at every step of any
\* number of calls: nothing else leaves a consumer behind that nobody can cancel.
THEOREM NoConsumerIsOrphaned == LiveSpec => []NoOrphanConsumer
<1>1. LiveInv /\ FeedInv => NoOrphanConsumer
  BY FeedFollows
<1> QED
  BY <1>1, FeedAlways, PTL

\* The causes that FedIsFollowed names are all there are: otherwise a marathon that an open
\* client follows is delivered once the calls have ended, and one that nobody follows is not.
THEOREM FollowedAreFed == LiveSpec => []FedIsFollowed
<1>1. LiveInv /\ FeedInv => FedIsFollowed
  BY FeedFollows
<1> QED
  BY <1>1, FeedAlways, PTL
==============================================================================
