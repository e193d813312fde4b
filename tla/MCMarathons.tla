----------------------------- MODULE MCMarathons -----------------------------
(***************************************************************************)
(* Marathons from creation to end and their rules: two components that     *)
(* share no variable.  A behaviour runs one, its subject, and leaves the   *)
(* other as it was: a property is about one component and is checked on    *)
(* all of its behaviours.                                                  *)
(***************************************************************************)
EXTENDS Lifecycle, MCRules

VARIABLE subject
marathonsVars == <<subject, lifecycleVars, rulesVars>>

\* A marathon of one day, which may be extended beyond the end of the clock, postponed, or
\* canceled.
Moved == {<<1, 1>>, <<1, 3>>, <<2, 3>>}

MarathonsInit ==
  /\ subject \in {"lifecycle", "postponed", "rules"}
  /\ LifecycleInit /\ RulesInit
  /\ unborn = {} <=> subject = "postponed"
  /\ marathon = Created(<<1, 1>>, "calculated")

\* Two requests of any kind.
OfLifecycle ==
  /\ subject = "lifecycle" /\ LifecycleNext /\ UNCHANGED <<subject, rulesVars>>
  /\ served' <= 2
  /\ marathon' # NoRow => marathon'.startDate = 1

\* A user joins, the marathon is postponed and the user cancels.  There are two accounts, so
\* that provisioning may give the user both.
OfPostponed ==
  /\ subject = "postponed" /\ LifecycleNext /\ UNCHANGED <<subject, rulesVars>>
  /\ served' # served =>
       \E w \in Workers :
         /\ call[w] = Idle
         /\ \/ served = 0 /\ call'[w].op = "join" /\ call'[w].user = CHOOSE u \in Users : TRUE
            \/ served = 1 /\ call'[w].op = "update"
            \/ served = 2 /\ joined' < joined
  /\ \A w \in Workers : call[w].op = "update" /\ call'[w] = Idle => marathon'.startDate = 2

\* An account opens with the highest of its equities, so that falls reach back before the start.
\* Trades are closed right before the end or at it.
OfRules ==
  /\ subject = "rules" /\ RulesNext /\ UNCHANGED <<subject, lifecycleVars>>
  /\ equity' = <<>> \/ equity'[1] = Max({point[1] : point \in Points})
  /\ traded' # traded => Moment \in {End - 1, End}

\* LifecycleFairness and RulesFairness: as only the subject moves, fairness of one of its
\* actions is fairness of that action or of one of the other's, and needs fewer conjuncts.
MarathonsFairness ==
  LET Unserved(A) == subject # "rules" /\ A /\ UNCHANGED <<served, subject, rulesVars>>
      Judged(A) == subject = "rules" /\ A /\ UNCHANGED <<subject, lifecycleVars>> IN
  /\ \A w \in Workers :
       WF_marathonsVars(Unserved(Finishing(w)) \/ Judged(\E c \in Checks : Advance(c)))
  /\ SF_marathonsVars(Unserved(\E w \in Workers : ProvisionNext(w)) \/ Judged(\E c \in Checks : BeginCheck(c)))
  /\ SF_marathonsVars(Unserved(\E w \in Workers : SyncRead(w)))
  /\ SF_marathonsVars(Unserved(\E w \in Workers : ProvisionRead(w)))

MarathonsSpec == MarathonsInit /\ [][OfLifecycle \/ OfPostponed \/ OfRules]_marathonsVars /\ MarathonsFairness
=============================================================================
