------------------------------ MODULE LiveData ------------------------------
(***************************************************************************)
(* The live data gateway: MarathonLiveDataGateway counts the clients of    *)
(* each topic, and LiveAccountDataService with RabbitMQConsumerService     *)
(* keep one consumer per marathon while somebody is counted.               *)
(*                                                                         *)
(* The process is single-threaded: an action is what runs between two      *)
(* awaits.  Calls interleave at the awaits, which are lookups in the       *)
(* database (answered in any order) and requests on the AMQP channel       *)
(* (answered in the order they were sent).                                 *)
(*                                                                         *)
(* Each worker serves one call, so the number of Workers bounds the run.   *)
(* A worker also stands for the consumer tag its call obtains.             *)
(***************************************************************************)
EXTENDS Naturals, Sequences, FiniteSets

CONSTANTS
  Clients,      \* sockets; a reconnecting client is a new one
  Workers,      \* calls being served, and the consumer tags they obtain
  Marathons,
  Participants,
  Home,         \* participant -> its marathon
  NoTag,        \* no consumer
  NoClient,     \* a worker that has no call
  NoTopic       \* a worker that has no topic

ASSUME LiveDataAssumption ==
  /\ IsFiniteSet(Clients)
  /\ Home \in [Participants -> Marathons]
  /\ NoTag \notin Workers
  /\ NoClient \notin Clients

VARIABLES
  socket,    \* client -> "open", "closed", or "gone" once forgotten
  watch,     \* client -> topics in its ClientSubscription
  released,  \* client -> topics of a closed socket that are counted down
  count,     \* topic -> subscribers; the code has no entry where this is 0
  listening, \* isListeningToUpdates
  consumer,  \* marathon -> tag in the `consumers` map
  broker,    \* marathon -> tags the broker delivers its queue to
  link,      \* AMQP connection: "up", "closed" channel, or "down"
  channel,   \* workers whose requests wait for an answer, in order
  pc,        \* worker -> where it is in the code
  client,    \* worker -> client it works for
  topic,     \* worker -> topic it works on
  leaving,   \* workers that serve handleDisconnect
  saw,       \* worker -> kinds of other subscribers it has seen
  tag,       \* worker -> tag it cancels
  mishap     \* marathon -> what has gone wrong with its consumer (history)

subscriptions == <<socket, watch, released, count, listening>>
messaging == <<consumer, broker, link, channel>>
local == <<client, topic, leaving, saw, tag>>
liveVars == <<subscriptions, messaging, pc, local, mishap>>

Topics == [kind : {"marathon", "myLive"}, id : Marathons]
            \cup [kind : {"participant"}, id : Participants]

MarathonOf(t) == IF t.kind = "participant" THEN Home[t.id] ELSE t.id
Mine(w) == MarathonOf(topic[w])

Needed(m) == \E t \in Topics : count[t] > 0 /\ MarathonOf(t) = m

\* Faulty variant: participants' subscriptions are not looked for.
OthersButParticipants(t, kinds) ==
  {k \in kinds \ {"participant"} : \E s \in Topics \ {t} :
                   s.kind = k /\ count[s] > 0 /\ MarathonOf(s) = MarathonOf(t)}

\* Kinds of subscriptions other than t that the code finds in t's marathon.
OthersOf(t, kinds) ==
  {k \in kinds : \E s \in Topics \ {t} :
                   s.kind = k /\ count[s] > 0 /\ MarathonOf(s) = MarathonOf(t)}

\* A subscribeToMarathon or unsubscribeFromMarathon of m is under way.
Consuming(m) == \E v \in Workers : pc[v] \in {"declare", "consume"} /\ Mine(v) = m
GivingUp(t) == \E v \in Workers :
  \/ pc[v] = "cancel" /\ Mine(v) = MarathonOf(t)
  \/ pc[v] = "looking" /\ saw[v] = {} /\ Mine(v) = MarathonOf(t)
  \/ pc[v] = "which" /\ topic[v] = t

Note(m, what) == mishap' = [mishap EXCEPT ![m] = @ \cup what]
If(what, happens) == IF happens THEN {what} ELSE {}

------------------------------------------------------------------------------
\* handleConnection has run for every client.  It only makes an empty entry, so a
\* client that connects later is one that has not called yet.
LiveInit ==
  /\ socket = [c \in Clients |-> "open"]
  /\ watch = [c \in Clients |-> {}]
  /\ released = [c \in Clients |-> {}]
  /\ count = [t \in Topics |-> 0]
  /\ listening = FALSE
  /\ consumer = [m \in Marathons |-> NoTag]
  /\ broker = [m \in Marathons |-> {}]
  /\ link = "up"
  /\ channel = <<>>
  /\ pc = [w \in Workers |-> "idle"]
  /\ client = [w \in Workers |-> NoClient]
  /\ topic = [w \in Workers |-> NoTopic]
  /\ leaving = {}
  /\ saw = [w \in Workers |-> {}]
  /\ tag = [w \in Workers |-> NoTag]
  /\ mishap = [m \in Marathons |-> {}]

Goto(w, there) == pc' = [pc EXCEPT ![w] = there]

Call(w, c, t) ==
  /\ pc[w] = "idle"
  /\ client' = [client EXCEPT ![w] = c]
  /\ topic' = [topic EXCEPT ![w] = t]

------------------------------------------------------------------------------
(* LiveAccountDataService.subscribeToMarathon and the consumer service.    *)

\* Faulty variant: the consumer service does not look for an entry.
NeverSubscribed(m) == FALSE

AlreadySubscribed(m) == consumer[m] # NoTag

\* There is an entry already, or no channel, and the caller goes on at once;
\* or the queue is declared.
RequestConsume(w, m) ==
  \/ /\ AlreadySubscribed(m) \/ link # "up"
     /\ Goto(w, "done")
     /\ UNCHANGED channel
  \/ /\ ~AlreadySubscribed(m) /\ link = "up"
     /\ Goto(w, "declare")
     /\ channel' = Append(channel, w)

ConsumeMishap(m) == IF consumer[m] # NoTag THEN {}
                    ELSE If("link", link # "up") \cup If("overlap", Consuming(m))

Answered(w) == channel # <<>> /\ Head(channel) = w

\* assertQueue, bindQueue and prefetch are answered; consume is sent.
AnswerDeclare(w) ==
  /\ pc[w] = "declare" /\ Answered(w)
  /\ channel' = Append(Tail(channel), w)
  /\ Goto(w, "consume")
  /\ UNCHANGED <<subscriptions, consumer, broker, link, local, mishap>>

\* consume is answered: `consumers` and subscribedMarathons get their entry.
AnswerConsume(w) ==
  /\ pc[w] = "consume" /\ Answered(w)
  /\ channel' = Tail(channel)
  /\ broker' = [broker EXCEPT ![Mine(w)] = @ \cup {w}]
  /\ consumer' = [consumer EXCEPT ![Mine(w)] = w]
  /\ Goto(w, "done")
  /\ UNCHANGED <<subscriptions, link, local, mishap>>

------------------------------------------------------------------------------
(* subscribe_marathon, subscribe_participant and subscribe_my_live.        *)

\* The increment methods, up to their first await.
Increment(w, t) ==
  /\ count' = [count EXCEPT ![t] = @ + 1]
  /\ listening' = TRUE
  /\ \/ /\ count[t] > 0
        /\ Goto(w, "done")
        /\ Note(MarathonOf(t), If("raced", GivingUp(t)))
        /\ UNCHANGED channel
     \/ /\ count[t] = 0 /\ t.kind = "participant"
        /\ Goto(w, "lookup")
        /\ Note(MarathonOf(t), If("raced", GivingUp(t)))
        /\ UNCHANGED channel
     \/ /\ count[t] = 0 /\ t.kind # "participant"
        /\ RequestConsume(w, t.id)
        /\ Note(t.id, If("raced", GivingUp(t)) \cup ConsumeMishap(t.id))

\* Faulty variant: a second subscription of a client is counted, too.
NeverWatched(c, t) == FALSE

AlreadyWatched(c, t) == t \in watch[c]

Subscribe(w, c, t) ==
  /\ socket[c] = "open" /\ ~AlreadyWatched(c, t)
  /\ Call(w, c, t)
  /\ \/ /\ t.kind # "myLive"
        /\ watch' = [watch EXCEPT ![c] = @ \cup {t}]
        /\ Increment(w, t)
     \/ /\ t.kind = "myLive"
        /\ Goto(w, "member")
        /\ UNCHANGED <<watch, count, listening, channel, mishap>>
  /\ UNCHANGED <<socket, released, consumer, broker, link, leaving, saw, tag>>

\* subscribe_my_live has found the participant of its user.  The socket may
\* have closed meanwhile, and another call may have added the topic.
FoundMember(w) ==
  /\ pc[w] = "member"
  /\ watch' = IF socket[client[w]] = "gone" THEN watch
              ELSE [watch EXCEPT ![client[w]] = @ \cup {topic[w]}]
  /\ Increment(w, topic[w])
  /\ UNCHANGED <<socket, released, consumer, broker, link, local>>

NoMember(w) ==
  /\ pc[w] = "member"
  /\ Goto(w, "done")
  /\ UNCHANGED <<subscriptions, messaging, local, mishap>>

\* incrementParticipantSubscription has found the marathon.
FoundHome(w) ==
  /\ pc[w] = "lookup"
  /\ RequestConsume(w, Mine(w))
  /\ Note(Mine(w), ConsumeMishap(Mine(w)))
  /\ UNCHANGED <<subscriptions, consumer, broker, link, local>>

\* The participant does not exist, or the database has failed.
NoHome(w) ==
  /\ pc[w] = "lookup"
  /\ Goto(w, "done")
  /\ Note(Mine(w), {"lookup"})
  /\ UNCHANGED <<subscriptions, messaging, local>>

------------------------------------------------------------------------------
(* The decrement methods and unsubscribeFromMarathon.                      *)

\* The end of every decrement: nobody is left, so stop listening.
Finish(w) ==
  /\ listening' = (listening /\ \E t \in Topics : count'[t] > 0)
  /\ Goto(w, IF w \in leaving' THEN "next" ELSE "done")

\* There is no entry, or no channel; or the consumer found is cancelled.
RequestCancel(w, m) ==
  \/ /\ consumer[m] = NoTag \/ link # "up"
     /\ Finish(w)
     /\ UNCHANGED <<channel, tag>>
  \/ /\ consumer[m] # NoTag /\ link = "up"
     /\ Goto(w, "cancel")
     /\ channel' = Append(channel, w)
     /\ tag' = [tag EXCEPT ![w] = consumer[m]]
     /\ UNCHANGED listening

Coming(m) == Consuming(m) \/ \E v \in Workers : pc[v] = "lookup" /\ Mine(v) = m
CancelMishap(m) == If("early", Coming(m))

\* decrement*Subscription of topic t, up to its first await.
CountDown(w, t) ==
  /\ count' = [count EXCEPT ![t] = @ - 1]
  /\ \/ /\ count[t] > 1
        /\ Goto(w, IF w \in leaving' THEN "next" ELSE "done")
        /\ UNCHANGED <<listening, channel, saw, tag, mishap>>
     \/ /\ count[t] = 1 /\ t.kind = "marathon"
        /\ RequestCancel(w, t.id)
        /\ Note(t.id, If("evicted", Needed(t.id)') \cup CancelMishap(t.id))
        /\ UNCHANGED saw
     \/ /\ count[t] = 1 /\ t.kind = "participant"
        /\ Goto(w, "which")
        /\ UNCHANGED <<listening, channel, saw, tag, mishap>>
     \/ /\ count[t] = 1 /\ t.kind = "myLive"
        /\ saw' = [saw EXCEPT ![w] = OthersOf(t, {"marathon", "participant"})]
        /\ Goto(w, "looking")
        /\ UNCHANGED <<listening, channel, tag, mishap>>

\* decrementParticipantSubscription has found the marathon and looks for
\* other subscribers, at the database again for those of participants.
Which(w) ==
  /\ pc[w] = "which"
  /\ saw' = [saw EXCEPT ![w] = OthersOf(topic[w], {"marathon", "participant"})]
  /\ Goto(w, "looking")
  /\ UNCHANGED <<subscriptions, messaging, client, topic, leaving, tag, mishap>>

WhichFails(w) ==
  /\ pc[w] = "which"
  /\ UNCHANGED <<socket, watch, released, count, messaging, local>>
  /\ Finish(w)
  /\ Note(Mine(w), {"lookup"})

\* The marathons of the other participants are known.  Only a participant's
\* decrement looks at the my-live subscribers, and it does so now.
Decide(w) ==
  LET others == saw[w] \cup (IF topic[w].kind = "participant"
                             THEN OthersOf(topic[w], {"myLive"}) ELSE {})
  IN /\ pc[w] = "looking"
     /\ UNCHANGED <<socket, watch, released, count, consumer, broker, link,
                    client, topic, leaving, saw>>
     /\ \/ /\ others # {}
           /\ Finish(w)
           /\ UNCHANGED <<channel, tag, mishap>>
        \/ /\ others = {}
           /\ RequestCancel(w, Mine(w))
           /\ Note(Mine(w), CancelMishap(Mine(w)))

\* The lookups that would have found other participants have failed.
LookingFails(w) ==
  /\ pc[w] = "looking" /\ "participant" \in saw[w]
  /\ saw' = [saw EXCEPT ![w] = @ \ {"participant"}]
  /\ Note(Mine(w), {"lookup"})
  /\ UNCHANGED <<subscriptions, messaging, pc, client, topic, leaving, tag>>

StopConsuming(m, t) == broker' = [broker EXCEPT ![m] = @ \ {t}]

\* cancel is answered: the entry of the marathon goes, whatever it holds now.
AnswerCancel(w) ==
  /\ pc[w] = "cancel" /\ Answered(w)
  /\ UNCHANGED <<socket, watch, released, count, link, local, mishap>>
  /\ channel' = Tail(channel)
  /\ StopConsuming(Mine(w), tag[w])
  /\ consumer' = [consumer EXCEPT ![Mine(w)] = NoTag]
  /\ Finish(w)

Unsubscribe(w, c, t) ==
  /\ socket[c] = "open" /\ t \in watch[c]
  /\ Call(w, c, t)
  /\ watch' = [watch EXCEPT ![c] = @ \ {t}]
  /\ UNCHANGED leaving
  /\ CountDown(w, t)
  /\ UNCHANGED <<socket, released, consumer, broker, link>>

------------------------------------------------------------------------------
(* handleDisconnect.                                                       *)

Disconnect(w, c) ==
  /\ socket[c] = "open"
  /\ Call(w, c, NoTopic)
  /\ socket' = [socket EXCEPT ![c] = "closed"]
  /\ leaving' = leaving \cup {w}
  /\ Goto(w, "next")
  /\ UNCHANGED <<watch, released, count, listening, messaging, saw, tag, mishap>>

Held(c) == watch[c] \ released[c]

\* The loops run over the marathons, then the participants, then my-live.
Rank(t) == CASE t.kind = "marathon" -> 1 [] t.kind = "participant" -> 2 [] OTHER -> 3

Release(w, t) ==
  /\ pc[w] = "next"
  /\ t \in Held(client[w]) /\ \A s \in Held(client[w]) : Rank(t) <= Rank(s)
  /\ released' = [released EXCEPT ![client[w]] = @ \cup {t}]
  /\ topic' = [topic EXCEPT ![w] = t]
  /\ UNCHANGED leaving
  /\ CountDown(w, t)
  /\ UNCHANGED <<socket, watch, consumer, broker, link, client>>

Forget(w) ==
  /\ pc[w] = "next" /\ Held(client[w]) = {}
  /\ socket' = [socket EXCEPT ![client[w]] = "gone"]
  /\ watch' = [watch EXCEPT ![client[w]] = {}]
  /\ released' = [released EXCEPT ![client[w]] = {}]
  /\ Goto(w, "done")
  /\ UNCHANGED <<count, listening, messaging, local, mishap>>

------------------------------------------------------------------------------
(* RabbitMQConnectionService.                                              *)

\* The connection is lost, or only the channel closes, which is logged and
\* never repaired.  The requests under way fail; `consumers` stays as it is.
LinkFails(now) ==
  /\ \/ link = "up" /\ now \in {"closed", "down"}
     \/ link = "closed" /\ now = "down"
  /\ link' = now
  /\ channel' = <<>>
  /\ broker' = [m \in Marathons |-> {}]
  /\ pc' = [w \in Workers |-> IF pc[w] \in {"declare", "consume", "cancel"}
                              THEN "failed" ELSE pc[w]]
  /\ mishap' = [m \in Marathons |->
                  mishap[m] \cup If("link", broker[m] # {} \/ Consuming(m))]
  /\ UNCHANGED <<subscriptions, consumer, local>>

\* handleConnectionLoss has connected again.
LinkRestored ==
  /\ link = "down"
  /\ link' = "up"
  /\ UNCHANGED <<subscriptions, consumer, broker, channel, pc, local, mishap>>

\* The gateway logs the error of a request and goes on.
RequestFails(w) ==
  /\ pc[w] = "failed"
  /\ UNCHANGED <<socket, watch, released, count, messaging, local, mishap>>
  /\ \/ /\ tag[w] = NoTag
        /\ Goto(w, "done")
        /\ UNCHANGED listening
     \/ /\ tag[w] # NoTag
        /\ Finish(w)

------------------------------------------------------------------------------
LiveNext ==
  \/ \E w \in Workers, c \in Clients :
       \/ \E t \in Topics : Subscribe(w, c, t) \/ Unsubscribe(w, c, t)
       \/ Disconnect(w, c)
  \/ \E w \in Workers :
       \/ FoundMember(w) \/ NoMember(w) \/ FoundHome(w) \/ NoHome(w)
       \/ Which(w) \/ WhichFails(w) \/ Decide(w) \/ LookingFails(w)
       \/ AnswerDeclare(w) \/ AnswerConsume(w) \/ AnswerCancel(w)
       \/ \E t \in Topics : Release(w, t)
       \/ Forget(w) \/ RequestFails(w)
  \/ \E now \in {"closed", "down"} : LinkFails(now)
  \/ LinkRestored

LiveSpec == LiveInit /\ [][LiveNext]_liveVars

------------------------------------------------------------------------------
Holders(t) == {c \in Clients : t \in Held(c)}
Quiet == \A w \in Workers : pc[w] \in {"idle", "done"}

\* The reference counts of the gateway agree with the sets of the clients, at
\* every step and not only between calls: a marathon's and a participant's
\* count is the number of clients that hold the topic, and a my-live count is
\* never below it.  (It can be above: two calls of one client may both pass
\* the check of :339 before either has added the topic.)  While anybody is
\* counted the gateway listens to account updates, whatever increments slip
\* between a decrement and the end of its cancellation, and when no call is
\* under way it listens only then.
CountsMatchHolders ==
  /\ \A t \in Topics :
       /\ Cardinality(Holders(t)) <= count[t]
       /\ t.kind # "myLive" => count[t] = Cardinality(Holders(t))
  /\ (\E t \in Topics : count[t] > 0) => listening
  /\ Quiet /\ listening => \E t \in Topics : count[t] > 0

\* The broker delivers a marathon to the consumer that `consumers` holds and to
\* no other, unless two calls of subscribeToMarathon have overlapped: nothing
\* else leaves a consumer behind that nobody can cancel any more.
NoOrphanConsumer ==
  \A m \in Marathons :
    "overlap" \notin mishap[m] => broker[m] \subseteq {consumer[m]}

\* When no call is under way, a marathon that an open client follows has a
\* consumer, unless its connection was lost, a lookup failed, somebody
\* subscribed while the consumer was being given up, or the last client of the
\* marathon's own topic has left, which cancels the consumer of all the others.
FollowedIsFed ==
  Quiet => \A m \in Marathons :
    /\ \E c \in Clients, t \in Topics :
         socket[c] = "open" /\ t \in watch[c] /\ MarathonOf(t) = m
    /\ mishap[m] \cap {"link", "lookup", "raced", "evicted"} = {}
    => broker[m] # {}

\* When no call is under way, a marathon without any counted subscriber has no
\* consumer, unless a lookup failed, two subscriptions overlapped, or the
\* unsubscription came before the consumer it should have cancelled existed.
UnneededIsNotFed ==
  Quiet => \A m \in Marathons :
    /\ ~Needed(m)
    /\ mishap[m] \cap {"lookup", "overlap", "early"} = {}
    => broker[m] = {}

\* Both: but for the causes named, a marathon is fed when it is followed and only
\* then.
FedIsFollowed == FollowedIsFed /\ UnneededIsNotFed

\* docs/WEBSOCKET_SMART_SUBSCRIPTION.md:108-110: "(when count > 0) Subscribe to
\* RabbitMQ", for the counts of marathons and of participants alike; here while
\* the connection holds and every lookup succeeds.
CountedIsFed ==
  Quiet => \A m \in Marathons :
    /\ Needed(m)
    /\ mishap[m] \cap {"link", "lookup"} = {}
    => broker[m] # {}
=============================================================================
