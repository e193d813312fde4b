----------------------------- MODULE MCLiveData -----------------------------
(***************************************************************************)
(* Two clients and four calls on one marathon with one participant.        *)
(***************************************************************************)
EXTENDS LiveData, TLC

CONSTANTS m1, p1

MCHome == p1 :> m1
MCSymmetry == Permutations(Clients) \cup Permutations(Workers)

\* What a call that has ended leaves in its local variables is never read.
MCView == <<subscriptions, messaging, pc, mishap,
            [w \in {v \in Workers : pc[v] \notin {"idle", "done"}} |->
               <<client[w], topic[w], w \in leaving, saw[w], tag[w]>>]>>
=============================================================================
