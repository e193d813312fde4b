-------------------------------- MODULE Feed --------------------------------
(***************************************************************************)
(* The way of an account's live data from RabbitMQ to the browsers: the    *)
(* queue of one marathon with its retries and its expiry, handleMessage    *)
(* of RabbitMQConsumerService, the handler of LiveAccountDataService and   *)
(* what MarathonLiveDataGateway pushes to the viewers of the marathon (in  *)
(* batches of differences) and to the owner of the account (my-live).      *)
(*                                                                         *)
(* A message is a batch of segments; its number stands for the values it   *)
(* brings, so a field holds the number of the message it comes from, and 0 *)
(* if it has none.  Everybody is subscribed: see LiveData for that.        *)
(*                                                                         *)
(* The process is single-threaded: an action is what runs between two      *)
(* awaits.  An acknowledgement on a channel that is closed throws, nobody  *)
(* catches it, and Node.js ends the process.                               *)
(***************************************************************************)
EXTENDS Integers, Sequences, FiniteSets

CONSTANTS
  Logins,     \* accounts
  Fields,     \* what a snapshot may report of an account
  Messages,   \* the messages Tokyo sends: sequences of segments
  Handlers,   \* messages that may be handled at once (prefetchCount)
  MaxRetries, \* config.maxRetries
  MaxLength,  \* config.queueMaxLength
  MaxFaults   \* bound: lost connections and crashes

\* A segment reports some fields of an account, or has no login, or is no JSON.
Segment ==
  [kind : {"report"}, login : Logins, fields : SUBSET Fields \ {{}}] \cup [kind : {"skipped", "broken"}]

MessageIds == 1 .. Len(Messages)

ASSUME FeedAssumption ==
  /\ IsFiniteSet(Handlers)
  /\ Messages \in Seq(Seq(Segment))
  /\ MaxRetries \in Nat
  /\ MaxLength \in Nat \ {0}
  /\ MaxFaults \in Nat

VARIABLES
  published,  \* messages sent so far
  queue,      \* deliveries waiting in the marathon's queue
  delayed,    \* deliveries waiting in the retry queue
  dead,       \* messages in the dead letter queue
  faults,     \* connections lost and crashes so far
  process,    \* "up" with a consumer, "deaf" without one, or "down"
  handling,   \* handler -> its delivery, the segment it is at, and whether it still may
              \* acknowledge on the channel the delivery came from
  snapshots,  \* account -> the snapshot in memory
  stored,     \* account -> tokyo_account_data
  pushes,     \* runs of handleAccountUpdate under way
  previous,   \* account -> previousSnapshots
  batch,      \* marathonUpdateBatches
  timer,      \* batchTimers has one
  flushes,    \* runs of sendMarathonBatchUpdate under way
  seen,       \* account -> what the viewers of the marathon show
  live,       \* account -> what its owner's my-live shows
  handled,    \* messages handled to the end (history)
  dropped,    \* messages given up after the last retry (history)
  overflown,  \* messages that came back from the retry queue to a full queue (history)
  heard,      \* account -> the newest value of each field that was handled (history)
  disturbed   \* accounts whose updates overlapped, failed or came out of order (history)

broker == <<published, queue, delayed, dead, overflown, faults>>
outcome == <<handled, dropped>>
batches == <<previous, batch, timer, flushes, seen>>
gateway == <<pushes, batches, live>>
feedVars == <<broker, outcome, process, handling, snapshots, stored, gateway, heard, disturbed>>

Ready == [step |-> "idle"]
Blank == [f \in Fields |-> 0]
Nothing == [l \in Logins |-> Blank]

Busy == {w \in Handlers : handling[w] # Ready}
Unacked == {handling[w].msg : w \in {x \in Busy : handling[x].open}}

FeedInit ==
  /\ published = 0
  /\ queue = <<>> /\ delayed = <<>> /\ dead = {} /\ overflown = {}
  /\ handled = {} /\ dropped = {} /\ faults = 0
  /\ process = "up"
  /\ handling = [w \in Handlers |-> Ready]
  /\ snapshots = Nothing /\ stored = Nothing /\ heard = Nothing
  /\ pushes = {} /\ previous = Nothing /\ batch = {} /\ timer = FALSE /\ flushes = {}
  /\ seen = Nothing /\ live = Nothing
  /\ disturbed = {}

------------------------------------------------------------------------------
\* The broker.

\* x-overflow: reject-publish; what is rejected is the publisher's matter.
Publish ==
  /\ published < Len(Messages)
  /\ Len(queue) < MaxLength
  /\ published' = published + 1
  /\ queue' = Append(queue, [id |-> published', tries |-> 0])
  /\ UNCHANGED <<delayed, dead, overflown, faults>>
  /\ UNCHANGED <<outcome, process, handling, snapshots, stored, gateway, heard, disturbed>>

\* x-message-ttl: the oldest delivery goes to the dead letter exchange.
Expire ==
  /\ queue # <<>>
  /\ queue' = Tail(queue)
  /\ dead' = dead \cup {Head(queue).id}
  /\ UNCHANGED <<published, delayed, overflown, faults>>
  /\ UNCHANGED <<outcome, process, handling, snapshots, stored, gateway, heard, disturbed>>

\* The delay of the retry queue is over.
Redeliver ==
  /\ delayed # <<>>
  /\ delayed' = Tail(delayed)
  /\ IF Len(queue) < MaxLength
     THEN queue' = Append(queue, Head(delayed)) /\ UNCHANGED overflown
     ELSE overflown' = overflown \cup {Head(delayed).id} /\ UNCHANGED queue
  /\ UNCHANGED <<published, dead, faults>>
  /\ UNCHANGED <<outcome, process, handling, snapshots, stored, gateway, heard, disturbed>>

\* What was not acknowledged goes back to the head of the queue, in its old order.
InOrder(back) ==
  \A i, j \in DOMAIN back : i # j => back[i] # back[j] /\ (i < j => back[i].id <= back[j].id)
Requeued == {back \o queue : back \in {b \in [1 .. Cardinality(Unacked) -> Unacked] : InOrder(b)}}

------------------------------------------------------------------------------
\* handleMessage: one segment after the other; those without a login are passed over.

Deliver(w) ==
  /\ process = "up" /\ queue # <<>>
  /\ handling[w] = Ready
  /\ queue' = Tail(queue)
  /\ handling' = [handling EXCEPT ![w] = [step |-> "next", msg |-> Head(queue), at |-> 0, open |-> TRUE]]
  /\ UNCHANGED <<published, delayed, dead, overflown, faults>>
  /\ UNCHANGED <<outcome, process, snapshots, stored, gateway, heard, disturbed>>

Content(w) == Messages[handling[w].msg.id]
Left(w) == {j \in handling[w].at + 1 .. Len(Content(w)) : Content(w)[j].kind # "skipped"}
First(S) == CHOOSE x \in S : \A y \in S : x <= y

\* What the snapshot of a segment holds: no other fields, whatever was known before.
Report(s, id) == [f \in Fields |-> IF f \in s.fields THEN id ELSE 0]

\* Who else is on its way with data of this account.
Others(w, l) ==
  \/ \E x \in Busy \ {w} : handling[x].step = "saving" /\ Content(x)[handling[x].at].login = l
  \/ \E p \in pushes : p.login = l

\* The handler keeps the snapshot and waits for the database.
Hear(w) ==
  LET h == handling[w] j == First(Left(w)) s == Content(w)[j] id == h.msg.id IN
  /\ h.step = "next" /\ Left(w) # {} /\ s.kind = "report"
  /\ snapshots' = [snapshots EXCEPT ![s.login] = Report(s, id)]
  /\ heard' = [heard EXCEPT ![s.login] = [f \in Fields |-> IF Report(s, id)[f] > @[f] THEN id ELSE @[f]]]
  /\ disturbed' = IF Others(w, s.login) \/ \E f \in Fields : heard[s.login][f] > id
                  THEN disturbed \cup {s.login} ELSE disturbed
  /\ handling' = [handling EXCEPT ![w].step = "saving", ![w].at = j]
  /\ UNCHANGED <<broker, outcome, process, stored, gateway>>

\* Faulty variant: fields the snapshot does not bring are emptied.
MergedAll(row, s, id) == Report(s, id)

\* updateAccountData keeps the fields the snapshot does not bring.
Merged(row, s, id) == [f \in Fields |-> IF f \in s.fields THEN id ELSE row[f]]

\* The row is saved, or the failure is logged; the update is emitted in both cases.
Save(w) ==
  LET h == handling[w] s == Content(w)[h.at] id == h.msg.id IN
  /\ h.step = "saving"
  /\ \/ /\ stored' = [stored EXCEPT ![s.login] = Merged(@, s, id)]
        /\ UNCHANGED disturbed
     \/ /\ UNCHANGED stored
        /\ disturbed' = disturbed \cup {s.login}
  /\ pushes' = pushes \cup {[step |-> "emitted", login |-> s.login, data |-> Report(s, id)]}
  /\ handling' = [handling EXCEPT ![w].step = "next"]
  /\ UNCHANGED <<broker, outcome, process, snapshots, batches, live, heard>>

\* The process ends and its memory with it; what it had not acknowledged is delivered again.
Dies ==
  /\ process' = "down"
  /\ queue' \in Requeued
  /\ handling' = [w \in Handlers |-> Ready]
  /\ snapshots' = Nothing
  /\ pushes' = {} /\ previous' = Nothing /\ batch' = {} /\ timer' = FALSE /\ flushes' = {}
  /\ disturbed' = Logins
  /\ UNCHANGED <<published, dead, overflown, stored, heard, seen, live>>

\* channel.ack on the channel the delivery came from.
Acknowledge(w) ==
  \/ /\ handling[w].open
     /\ handling' = [handling EXCEPT ![w] = Ready]
     /\ UNCHANGED <<published, queue, dead, overflown, faults, process, snapshots, stored, gateway, heard, disturbed>>
  \/ ~handling[w].open /\ Dies /\ UNCHANGED faults

Settle(w) ==
  /\ handling[w].step = "next" /\ Left(w) = {}
  /\ handled' = handled \cup {handling[w].msg.id}
  /\ UNCHANGED <<delayed, dropped>>
  /\ Acknowledge(w)

MayRetry(m) == m.tries < MaxRetries

\* Faulty variant: x-retry-count is not raised.
RetryUncounted(m) == delayed' = Append(delayed, m)

Retry(m) == delayed' = Append(delayed, [m EXCEPT !.tries = @ + 1])

\* A broken segment: the whole message is tried again later, or, whatever the log says of
\* the dead letter queue, given up.  Without a channel the retry fails silently.
Fail(w) ==
  LET m == handling[w].msg IN
  /\ handling[w].step = "next" /\ Left(w) # {} /\ Content(w)[First(Left(w))].kind = "broken"
  /\ \/ MayRetry(m) /\ Retry(m) /\ UNCHANGED dropped
     \/ MayRetry(m) /\ ~handling[w].open /\ UNCHANGED <<delayed, dropped>>
     \/ ~MayRetry(m) /\ dropped' = dropped \cup {m.id} /\ UNCHANGED delayed
  /\ UNCHANGED handled
  /\ Acknowledge(w)

------------------------------------------------------------------------------
\* The connection is lost, the process ends or is started.

\* The messages are delivered again, while their handlers go on.  Consumers are not
\* started again on the new channel.
LinkFails ==
  /\ process = "up" /\ faults < MaxFaults
  /\ faults' = faults + 1
  /\ process' = "deaf"
  /\ queue' \in Requeued
  /\ handling' = [w \in Handlers |-> IF w \in Busy THEN [handling[w] EXCEPT !.open = FALSE] ELSE Ready]
  /\ UNCHANGED <<published, delayed, dead, overflown>>
  /\ UNCHANGED <<outcome, snapshots, stored, gateway, heard, disturbed>>

Crash ==
  /\ process # "down" /\ faults < MaxFaults
  /\ faults' = faults + 1
  /\ Dies
  /\ UNCHANGED <<delayed, outcome>>

Boot ==
  /\ process = "down"
  /\ process' = "up"
  /\ UNCHANGED <<broker, outcome, handling, snapshots, stored, gateway, heard, disturbed>>

------------------------------------------------------------------------------
\* handleAccountUpdate, for every update that is emitted.

\* After the look-up of the participant: what differs goes into the batch, whose timer is
\* set unless it runs, and becomes what later updates are compared with.
Mark(p) ==
  /\ p.step = "emitted"
  /\ IF previous[p.login] = Blank \/ previous[p.login] # p.data
     THEN /\ previous' = [previous EXCEPT ![p.login] = p.data]
          /\ batch' = batch \cup {p.login}
          /\ timer' = TRUE
     ELSE UNCHANGED <<previous, batch, timer>>
  /\ pushes' = (pushes \ {p}) \cup {[p EXCEPT !.step = "marked"]}
  /\ UNCHANGED <<broker, outcome, process, handling, snapshots, stored, flushes, seen, live, heard, disturbed>>

\* getParticipantLiveAnalysis, without the cache: it shows the row.
Analysis(p) == stored[p.login]

\* The analysis is fetched, or the failure is logged and nothing is sent.
Fetch(p) ==
  /\ p.step = "marked"
  /\ \/ /\ pushes' = (pushes \ {p}) \cup {[p EXCEPT !.step = "fetched", !.data = Analysis(p)]}
        /\ UNCHANGED disturbed
     \/ /\ pushes' = pushes \ {p}
        /\ disturbed' = disturbed \cup {p.login}
  /\ UNCHANGED <<broker, outcome, process, handling, snapshots, stored, batches, live, heard>>

Show(p) ==
  /\ p.step = "fetched"
  /\ live' = [live EXCEPT ![p.login] = p.data]
  /\ pushes' = pushes \ {p}
  /\ UNCHANGED <<broker, outcome, process, handling, snapshots, stored, batches, heard, disturbed>>

\* The timer: sendMarathonBatchUpdate takes the batch and a copy of the snapshots.
Flush ==
  /\ timer
  /\ timer' = FALSE
  /\ batch' = {}
  /\ flushes' = flushes \cup {[todo |-> batch, copy |-> snapshots, diff |-> Nothing]}
  /\ UNCHANGED <<broker, outcome, process, handling, snapshots, stored, pushes, previous, seen, live, heard, disturbed>>

\* One participant after the other: what differs from previousSnapshots.  After the last
\* one the differences are sent.
Compare(b) ==
  \E l \in b.todo :
    LET diff == [b.diff EXCEPT ![l] = [f \in Fields |-> IF previous[l][f] # b.copy[l][f] THEN b.copy[l][f] ELSE 0]]
    IN
    /\ IF b.todo = {l}
       THEN /\ flushes' = flushes \ {b}
            /\ seen' = [k \in Logins |-> [f \in Fields |-> IF diff[k][f] # 0 THEN diff[k][f] ELSE seen[k][f]]]
       ELSE /\ flushes' = (flushes \ {b}) \cup {[b EXCEPT !.todo = @ \ {l}, !.diff = diff]}
            /\ UNCHANGED seen
    /\ UNCHANGED <<broker, outcome, process, handling, snapshots, stored, pushes, previous, batch, timer, live, heard, disturbed>>

------------------------------------------------------------------------------
Handle(w) == Hear(w) \/ Save(w) \/ Settle(w) \/ Fail(w)

FeedNext ==
  \/ Publish \/ Expire \/ Redeliver
  \/ \E w \in Handlers : Deliver(w) \/ Handle(w)
  \/ LinkFails \/ Crash \/ Boot
  \/ \E p \in pushes : Mark(p) \/ Fetch(p) \/ Show(p)
  \/ Flush \/ \E b \in flushes : Compare(b)

FeedSpec == FeedInit /\ [][FeedNext]_feedVars

\* Queries are answered or fail, delays and time-to-live pass, the process is restarted.
FeedFairness ==
  /\ WF_feedVars(Expire) /\ WF_feedVars(Redeliver) /\ WF_feedVars(Boot)
  /\ \A w \in Handlers : WF_feedVars(Handle(w))

FairFeedSpec == FeedSpec /\ FeedFairness

------------------------------------------------------------------------------
\* Properties.

\* When nothing is on its way, my-live shows the stored row and the row the newest value of
\* each field, unless updates of the account overlapped, failed or came out of order.
MyLiveCatchesUp ==
  Busy = {} /\ pushes = {} =>
    \A l \in Logins \ disturbed : live[l] = stored[l] /\ stored[l] = heard[l]

\* Every accepted message is settled in the end.
EveryMessageIsSettled ==
  \A id \in MessageIds : (id <= published) ~> (id \in dead \cup handled \cup dropped \cup overflown)

\* A comment of sendMarathonBatchUpdate: "Only include changed fields (diff format)": after
\* all batches the viewers of the marathon show what the owner does.
ViewersSeeTheChanges ==
  Busy = {} /\ pushes = {} /\ flushes = {} /\ ~timer =>
    \A l \in Logins \ disturbed : seen[l] = heard[l]
==============================================================================
