------------------------------ MODULE Payments ------------------------------
(***************************************************************************)
(* PaymentService (src/src/payment/payment.service.ts) on top of           *)
(* Membership: payments are created PENDING with an invoice of the payment *)
(* provider, which later reports their progress by webhooks.  A webhook    *)
(* saves the reported status and then charges the profile or joins the     *)
(* marathon.                                                               *)
(*                                                                         *)
(* The provider may deliver any webhook it has sent again, late, or while  *)
(* an earlier delivery is still being handled.  Its statuses appear as     *)
(* mapNowPaymentStatus translates them.  A webhook for an invoice whose    *)
(* payment is not saved yet changes nothing and is left out.               *)
(*                                                                         *)
(* Money is in cents.  A decimal column reaches the code as a string, so   *)
(* addBalance appends payment.amount to the digits of the balance.         *)
(***************************************************************************)
EXTENDS Membership, Sequences, FiniteSetsExt

CONSTANTS
  MaxPayments,   \* payments of a run
  ChargeAmounts, \* amounts users charge their wallet with, in cents
  MaxProfile     \* largest decimal(10, 2), in cents

ASSUME PaymentAssumption ==
  /\ MaxPayments \in Nat
  /\ \A amount \in ChargeAmounts : amount \in Nat /\ amount >= 100 /\ amount <= 1000000
  /\ MaxProfile \in Nat

VARIABLES
  payments,  \* committed payments, oldest first
  sent,      \* payment -> statuses the provider has sent webhooks for
  balance,   \* user -> profile.balance
  order,     \* worker -> payment a webhook is about, or the one being created
  previous,  \* worker -> status the webhook found
  held,      \* worker -> balance of the profile it has read
  credited,  \* payment -> how often it charged the profile or joined (history)
  upset      \* payments with overlapping, late or interrupted webhooks (history)

paymentLocal == <<order, previous, held>>
paymentVars == <<payments, sent, balance, paymentLocal, credited, upset>>
allVars == <<membershipVars, payments, sent, balance, order, previous, held, credited, upset>>

Statuses == {"PENDING", "COMPLETED", "FAILED", "CANCELLED"}
Closed == {"CANCELLED", "FAILED"}
Handling == {"status", "check", "profile", "charge", "reject"}
Joining == {"join", "enrol", "book"}

NoOrder == [id |-> 0, user |-> NoUser, type |-> "none", amount |-> 0, status |-> "none"]
Payment(o) == [user |-> o.user, type |-> o.type, amount |-> o.amount,
               status |-> "PENDING", expired |-> FALSE]

Ids == DOMAIN payments
PendingOf(u, type) ==
  {i \in Ids : payments[i].user = u /\ payments[i].type = type /\ payments[i].status = "PENDING"}

\* Workers that handle a webhook of payment i, the join it started included.
HandlersOf(i) ==
  {w \in Workers : order[w].id = i /\ pc[w] \in Handling \cup Joining \cup {"joinFailed"}}

------------------------------------------------------------------------------
\* addBalance: Number(profile.balance) + amount, with amount a string like "50.00".

Whole(cents) == cents % 100 = 0

\* What a string of that many whole dollars shifts the digits before it by.
Shift(dollars) ==
  CHOOSE p \in {10, 100, 1000, 10000, 100000} :
    dollars < p /\ (p = 10 \/ dollars >= p \div 10)

\* Digits of a whole balance followed by the amount: 50 and "50.00" make 5050.00.
Appended(b, amount) == b * Shift(amount \div 100) + amount

\* A balance with cents makes a number with two points, which PostgreSQL refuses.
Chargeable(b, amount) == Whole(b) /\ Appended(b, amount) <= MaxProfile

------------------------------------------------------------------------------
PaymentsInit ==
  /\ MembershipInit
  /\ payments = <<>>
  /\ sent = [i \in 1..MaxPayments |-> {}]
  /\ balance = [u \in Users |-> 0]
  /\ order = [w \in Workers |-> NoOrder]
  /\ previous = [w \in Workers |-> "none"]
  /\ held = [w \in Workers |-> 0]
  /\ credited = [i \in 1..MaxPayments |-> 0]
  /\ upset = {}

\* The call is over.
End(w, label) ==
  /\ Goto(w, label)
  /\ order' = [order EXCEPT ![w] = NoOrder]
  /\ previous' = [previous EXCEPT ![w] = "none"]
  /\ held' = [held EXCEPT ![w] = 0]

SetStatus(i, status) == payments' = [payments EXCEPT ![i].status = status]

membershipState == <<data, started, locks, local, history>>

------------------------------------------------------------------------------
\* createWalletChargePayment and createMarathonPayment.

\* What createMarathonPayment asks of the marathon before it looks for payments.
Joinable(u) ==
  /\ players < MaxPlayers
  /\ RowsOf(u) \cap ActiveRows = {}

\* The newest pending payment of that kind is handed out, or cancelled if expired;
\* if there is none an invoice is asked for.
CreatePayment(w, u, type, amount) ==
  LET pending == PendingOf(u, type)
      Asked(id) == order' = [order EXCEPT ![w] =
        [id |-> id, user |-> u, type |-> type, amount |-> amount, status |-> "none"]]
  IN
  /\ pc[w] = "idle"
  /\ \/ /\ type = "join" /\ ~Joinable(u)
        /\ End(w, "failed")
     \/ /\ type = "join" => Joinable(u)
        /\ \/ /\ pending = {}
              /\ Asked(0) /\ Goto(w, "invoice")
              /\ UNCHANGED <<previous, held>>
           \/ /\ pending # {}
              /\ IF payments[Max(pending)].expired
                 THEN /\ Asked(Max(pending)) /\ Goto(w, "expire")
                      /\ UNCHANGED <<previous, held>>
                 ELSE End(w, "done")
  /\ UNCHANGED <<membershipState, payments, sent, balance, credited, upset>>

\* The entity that was read is saved CANCELLED, whatever the row has become.
CancelExpired(w) ==
  /\ pc[w] = "expire"
  /\ SetStatus(order[w].id, "CANCELLED")
  /\ upset' = IF payments[order[w].id].status = "PENDING" /\ HandlersOf(order[w].id) = {}
              THEN upset ELSE upset \cup {order[w].id}
  /\ order' = [order EXCEPT ![w].id = 0]
  /\ Goto(w, "invoice")
  /\ UNCHANGED <<membershipState, sent, balance, previous, held, credited>>

\* The provider has answered, and the payment is saved with its invoice.
SavePayment(w) ==
  /\ pc[w] = "invoice"
  /\ Len(payments) < MaxPayments
  /\ payments' = Append(payments, Payment(order[w]))
  /\ End(w, "done")
  /\ UNCHANGED <<membershipState, sent, balance, credited, upset>>

InvoiceRefused(w) ==
  /\ pc[w] = "invoice"
  /\ End(w, "failed")
  /\ UNCHANGED <<membershipState, payments, sent, balance, credited, upset>>

------------------------------------------------------------------------------
\* The payment provider.

\* finished, failed or expired ends a payment; a finished one may be refunded.
ProviderSends(i, status) ==
  /\ \/ status = "PENDING"
     \/ status \in {"COMPLETED", "FAILED", "CANCELLED"} /\ sent[i] \subseteq {"PENDING"}
     \/ status = "CANCELLED" /\ "COMPLETED" \in sent[i] /\ "FAILED" \notin sent[i]
  /\ status \notin sent[i]
  /\ sent' = [sent EXCEPT ![i] = @ \cup {status}]
  /\ UNCHANGED <<membershipVars, payments, balance, paymentLocal, credited, upset>>

\* expiresAt passes.
Expire(i) ==
  /\ ~payments[i].expired
  /\ payments' = [payments EXCEPT ![i].expired = TRUE]
  /\ UNCHANGED <<membershipVars, sent, balance, paymentLocal, credited, upset>>

------------------------------------------------------------------------------
\* handleWebhook.

ReceiveWebhook(w, i, status) ==
  /\ pc[w] = "idle"
  /\ status \in sent[i]
  /\ upset' = IF HandlersOf(i) = {} THEN upset ELSE upset \cup {i}
  /\ \/ payments[i].status \in Closed /\ End(w, "done")
     \/ /\ payments[i].status \notin Closed
        /\ order' = [order EXCEPT ![w] =
             [id |-> i, user |-> payments[i].user, type |-> payments[i].type,
              amount |-> payments[i].amount, status |-> status]]
        /\ previous' = [previous EXCEPT ![w] = payments[i].status]
        /\ Goto(w, "status")
        /\ UNCHANGED held
  /\ UNCHANGED <<membershipState, payments, sent, balance, credited>>

\* The status is saved before anything is processed.  One that replaces COMPLETED
\* came late.
SaveStatus(w) ==
  LET i == order[w].id IN
  /\ pc[w] = "status"
  /\ SetStatus(i, order[w].status)
  /\ upset' = IF payments[i].status = "COMPLETED" /\ order[w].status # "COMPLETED"
              THEN upset \cup {i} ELSE upset
  /\ \/ order[w].status = "COMPLETED" /\ Goto(w, "check") /\ UNCHANGED paymentLocal
     \/ order[w].status # "COMPLETED" /\ End(w, "done")
  /\ UNCHANGED <<membershipState, sent, balance, credited>>

\* Faulty variant: the status the webhook found is not consulted.
ProcessAlways(w) ==
  /\ pc[w] = "check"
  /\ order[w].type = "charge"
  /\ Goto(w, "profile")
  /\ UNCHANGED <<membershipState, paymentVars>>

\* Processed already: an active participant for a join, COMPLETED for a charge.  A
\* join that is COMPLETED without a participant is processed again.
CheckProcessed(w) ==
  LET u == order[w].user IN
  /\ pc[w] = "check"
  /\ \/ /\ order[w].type = "join" /\ RowsOf(u) \cap ActiveRows # {}
        /\ End(w, "done")
        /\ UNCHANGED membershipState
     \/ /\ order[w].type = "join" /\ RowsOf(u) \cap ActiveRows = {}
        /\ caller' = [caller EXCEPT ![w] = u]
        /\ Goto(w, "join")
        /\ UNCHANGED <<data, started, locks, found, seen, picked, history, paymentLocal>>
     \/ /\ order[w].type = "charge" /\ previous[w] = "COMPLETED"
        /\ End(w, "done")
        /\ UNCHANGED membershipState
     \/ /\ order[w].type = "charge" /\ previous[w] # "COMPLETED"
        /\ Goto(w, "profile")
        /\ UNCHANGED <<membershipState, paymentLocal>>
  /\ UNCHANGED <<payments, sent, balance, credited, upset>>

\* addBalance reads the profile, and saves it in a later step.
ReadProfile(w) ==
  /\ pc[w] = "profile"
  /\ held' = [held EXCEPT ![w] = balance[order[w].user]]
  /\ Goto(w, "charge")
  /\ UNCHANGED <<membershipState, payments, sent, balance, order, previous, credited, upset>>

ChargeProfile(w) ==
  /\ pc[w] = "charge"
  /\ \/ /\ Chargeable(held[w], order[w].amount)
        /\ balance' = [balance EXCEPT ![order[w].user] = Appended(held[w], order[w].amount)]
        /\ credited' = [credited EXCEPT ![order[w].id] = @ + 1]
        /\ End(w, "done")
     \/ /\ ~Chargeable(held[w], order[w].amount)
        /\ Goto(w, "reject")
        /\ UNCHANGED <<balance, credited, paymentLocal>>
  /\ UNCHANGED <<membershipState, payments, sent, upset>>

\* processMarathonJoin for the payment; its error leads back to handleWebhook.
ProcessJoin(w) ==
  /\ Join(w)
  /\ credited' = IF pc[w] = "book" THEN [credited EXCEPT ![order[w].id] = @ + 1] ELSE credited
  /\ UNCHANGED <<payments, sent, balance, paymentLocal, upset>>

\* The payment is saved FAILED and the error rethrown.
RejectPayment(w) ==
  /\ pc[w] \in {"reject", "joinFailed"}
  /\ order[w].id # 0
  /\ SetStatus(order[w].id, "FAILED")
  /\ End(w, "failed")
  /\ UNCHANGED <<membershipState, sent, balance, credited, upset>>

\* A query of the processing fails and handleWebhook catches the error.
ProcessingFails(w) ==
  \/ /\ pc[w] \in {"profile", "charge"}
     /\ Goto(w, "reject")
     /\ UNCHANGED <<membershipState, paymentVars>>
  \/ /\ pc[w] \in {"join", "enrol", "book", "assign", "attach", "refund"}
     /\ QueryFails(w)
     /\ UNCHANGED paymentVars

\* The process dies, or the database is gone: what is committed stays, and the
\* provider will send the webhook again.
Crash(w) ==
  /\ pc[w] \in Handling \cup Joining \cup {"joinFailed"}
  /\ Goto(w, "crashed")
  /\ Unlock(w)
  /\ order' = [order EXCEPT ![w] = NoOrder]
  /\ previous' = [previous EXCEPT ![w] = "none"]
  /\ held' = [held EXCEPT ![w] = 0]
  /\ caller' = [caller EXCEPT ![w] = NoUser]
  /\ found' = [found EXCEPT ![w] = NoRow]
  /\ seen' = [seen EXCEPT ![w] = 0]
  /\ upset' = upset \cup {order[w].id}
  /\ UNCHANGED <<data, started, picked, history, payments, sent, balance, credited>>

------------------------------------------------------------------------------
\* cancelParticipation, which users call beside their payments.
Cancel(w, u) ==
  /\ CancelParticipation(w, u) /\ UNCHANGED paymentVars

Serve(w) ==
  \/ CancelExpired(w)
  \/ SavePayment(w)
  \/ InvoiceRefused(w)
  \/ SaveStatus(w)
  \/ CheckProcessed(w)
  \/ ReadProfile(w)
  \/ ChargeProfile(w)
  \/ ProcessJoin(w)
  \/ RejectPayment(w)
  \/ CommitCancel(w) /\ UNCHANGED paymentVars

PaymentsNext ==
  \/ \E w \in Workers, u \in Users :
       \/ \E amount \in ChargeAmounts : CreatePayment(w, u, "charge", amount)
       \/ CreatePayment(w, u, "join", 0)
       \/ Cancel(w, u)
  \/ \E w \in Workers :
       \/ \E i \in Ids, status \in Statuses : ReceiveWebhook(w, i, status)
       \/ Serve(w)
       \/ ProcessingFails(w)
       \/ Crash(w)
  \/ \E i \in Ids : Expire(i) \/ \E status \in Statuses : ProviderSends(i, status)

PaymentsSpec == PaymentsInit /\ [][PaymentsNext]_allVars
------------------------------------------------------------------------------
\* Properties.

Order ==
  [id : 0..MaxPayments, user : Users \cup {NoUser}, type : {"charge", "join", "none"},
   amount : ChargeAmounts \cup {0}, status : Statuses \cup {"none"}]

\* Every payment has one of the program's own statuses, and whatever webhooks do to a
\* profile, its balance fits decimal(10, 2).
PaymentsTypeOK ==
  /\ payments \in Seq([user : Users, type : {"charge", "join"},
                       amount : ChargeAmounts \cup {0}, status : Statuses, expired : BOOLEAN])
  /\ Len(payments) <= MaxPayments
  /\ sent \in [1..MaxPayments -> SUBSET Statuses]
  /\ balance \in [Users -> 0..MaxProfile]
  /\ order \in [Workers -> Order]
  /\ previous \in [Workers -> Statuses \cup {"none"}]
  /\ held \in [Workers -> 0..MaxProfile]
  /\ credited \in [1..MaxPayments -> Nat]
  /\ upset \subseteq 1..MaxPayments

\* Payments whose webhooks came one at a time and in order, and are all handled.
Settled == {i \in Ids \ upset : HandlersOf(i) = {}}

\* A wallet charge that is COMPLETED has charged the profile exactly once and one that
\* is FAILED has not, however often the provider repeats its webhooks, as long as no
\* two deliveries of it overlap, none comes late and none is interrupted.
ChargesAreProcessedOnce ==
  \A i \in Settled :
    payments[i].type = "charge" =>
      /\ payments[i].status = "COMPLETED" => credited[i] = 1
      /\ payments[i].status \in {"PENDING", "FAILED"} => credited[i] = 0

\* "Prevents duplicate balance additions or marathon joins": a payment is processed
\* at most once.
ProcessedOnce == \A i \in Ids : credited[i] <= 1

\* The join a payment bought is bought again by a repeated webhook only after it was
\* cancelled and refunded.
RejoinOnlyAfterRefund ==
  \A i \in Ids \ upset :
    payments[i].type = "join" => credited[i] <= 1 + refunds[payments[i].user]

\* "Update user balance" by the amount charged: a balance is never more than what was
\* credited to it.
BalanceIsWhatWasCharged ==
  \A u \in Users :
    balance[u] <= MapThenSumSet(LAMBDA i : credited[i] * payments[i].amount,
                                {i \in Ids : payments[i].user = u})
==============================================================================
