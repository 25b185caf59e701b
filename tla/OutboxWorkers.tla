---------------------------- MODULE OutboxWorkers ----------------------------
(***************************************************************************)
(* Workers draining the control outbox: each claims one message, works on  *)
(* it while a heartbeat renews the lease (_OutboxHeartbeat of              *)
(* worker/runtime_worker.py), and settles it with acknowledge or retry.    *)
(* retry reads the attempts in one transaction and writes the verdict in   *)
(* another.  A worker process may die at any point and come back under the *)
(* same worker id, and a slow one may outlive its lease.                   *)
(*                                                                         *)
(* The names differ from those of AgentTasks, one of the queues that lie   *)
(* on the same table, so that OutboxProofs can speak of both.              *)
(***************************************************************************)
EXTENDS OutboxTable, FiniteSets

CONSTANTS
    Claimants,    \* worker processes
    OwnerOf,      \* the worker_id a process claims under; ids may be shared
    NothingHeld,  \* no message in hand
    Budgets,      \* the values of max_attempts callers pass to retry
    MaxDeliveryFaults  \* bound: crashes, leases that expire under a live worker

ASSUME ClaimantsAssumption == IsFiniteSet(Claimants)
ASSUME OwnerOfAssumption == OwnerOf \in [Claimants -> Owners]
ASSUME NothingHeldAssumption == NothingHeld \notin Messages
ASSUME BudgetsAssumption == Budgets \subseteq Nat \ {0}
ASSUME MaxDeliveryFaultsAssumption == MaxDeliveryFaults \in Nat

VARIABLES
    hand,  \* hand[w]: the OutboxMessage w holds: its id and its token
    plan,  \* plan[w]: the verdict w read the attempts for, or "none"
    deliveryFaults  \* how much of MaxDeliveryFaults is used

deliveryVars == <<outbox, hand, plan, deliveryFaults>>

EmptyHand == [message |-> NothingHeld, token |-> 0]

DeliveryTypeOK ==
    /\ outbox \in [Messages -> Row]
    /\ hand \in [Claimants -> [message: Messages \cup {NothingHeld}, token: Nat]]
    /\ plan \in [Claimants -> {"none", "pending", "dead_letter"}]
    /\ deliveryFaults \in 0..MaxDeliveryFaults

DeliveryInit ==
    /\ OutboxInit
    /\ hand = [w \in Claimants |-> EmptyHand]
    /\ plan = [w \in Claimants |-> "none"]
    /\ deliveryFaults = 0

Busy(w) == hand[w].message # NothingHeld

\* w's claim is the one the row carries.
HoldsHand(w) == Holds(hand[w].message, OwnerOf[w], hand[w].token)

DropHand(w) ==
    /\ hand' = [hand EXCEPT ![w] = EmptyHand]
    /\ plan' = [plan EXCEPT ![w] = "none"]

EnqueueMessage(m) == InsertMessage(m) /\ UNCHANGED <<hand, plan, deliveryFaults>>

Claim(w, m) ==
    /\ ~Busy(w)
    /\ ClaimMessage(m, OwnerOf[w])
    /\ hand' = [hand EXCEPT ![w] =
                  [message |-> m, token |-> outbox'[m].fencingToken]]
    /\ UNCHANGED <<plan, deliveryFaults>>

\* One beat; a beat that is fenced off stops the thread and changes nothing.
Renew(w) ==
    /\ Busy(w) /\ Renewable(hand[w].message, OwnerOf[w], hand[w].token)
    /\ RenewMessage(hand[w].message)
    /\ UNCHANGED <<hand, plan, deliveryFaults>>

\* A stale acknowledgement conflicts; the worker gives the message up.
AcknowledgeHand(w) ==
    /\ Busy(w) /\ plan[w] = "none"
    /\ IF HoldsHand(w) THEN AcknowledgeMessage(hand[w].message)
                       ELSE UNCHANGED outbox
    /\ DropHand(w) /\ UNCHANGED deliveryFaults

RetryRead(w) ==
    /\ Busy(w) /\ plan[w] = "none"
    /\ \E budget \in Budgets :
          plan' = [plan EXCEPT ![w] = RetryTarget(hand[w].message, budget)]
    /\ UNCHANGED <<outbox, hand, deliveryFaults>>

RetryFinish(w) ==
    /\ Busy(w) /\ plan[w] # "none"
    /\ IF HoldsHand(w) THEN RetryMessage(hand[w].message, plan[w])
                       ELSE UNCHANGED outbox
    /\ DropHand(w) /\ UNCHANGED deliveryFaults

ClaimantDies(w) ==
    /\ Busy(w) /\ deliveryFaults < MaxDeliveryFaults
    /\ deliveryFaults' = deliveryFaults + 1
    /\ DropHand(w) /\ UNCHANGED outbox

\* The leases of live holders that run out in this unit of time are faults.
HandsOverrun == {w \in Claimants : Busy(w) /\ HoldsHand(w)
                                    /\ outbox[hand[w].message].leaseLeft = 1}

DeliveryTick ==
    /\ \E m \in Messages : outbox[m].leaseLeft > 0 \/ outbox[m].dueIn > 0
    /\ deliveryFaults + Cardinality(HandsOverrun) <= MaxDeliveryFaults
    /\ deliveryFaults' = deliveryFaults + Cardinality(HandsOverrun)
    /\ ElapseOutbox /\ UNCHANGED <<hand, plan>>

Settle(w) == AcknowledgeHand(w) \/ RetryRead(w) \/ RetryFinish(w)

DeliveryNext ==
    \/ \E m \in Messages : EnqueueMessage(m)
    \/ \E w \in Claimants :
          \/ \E m \in Messages : Claim(w, m)
          \/ Renew(w) \/ AcknowledgeHand(w) \/ RetryRead(w) \/ RetryFinish(w)
          \/ ClaimantDies(w)
    \/ DeliveryTick

DeliverySpec == DeliveryInit /\ [][DeliveryNext]_deliveryVars

\* The worker loop calls claim_outbox on every tick, finishes the message in
\* hand before the next one, and the clock runs.
DeliveryFairness ==
    /\ WF_deliveryVars(DeliveryTick)
    /\ \A w \in Claimants : WF_deliveryVars(Settle(w))
    /\ \A m \in Messages : WF_deliveryVars(\E w \in Claimants : Claim(w, m))

DeliveryFairSpec == DeliverySpec /\ DeliveryFairness

-----------------------------------------------------------------------------

\* Of all the claims ever handed out for a message, at most one still passes
\* the fence of the row, even when worker processes share a worker id
\* (acknowledge, renew_outbox and retry compare owner and token).
OneClaimPasses ==
    \A v, w \in Claimants :
        /\ Busy(v) /\ Busy(w) /\ v # w
        /\ hand[v].message = hand[w].message
        => ~(HoldsHand(v) /\ HoldsHand(w))

\* A verdict written by retry fits the attempts of the claim it ends, though
\* they were read in an earlier transaction: what a worker that still passes
\* the fence has planned is what it would plan now.
PlanStaysTrue ==
    \A w \in Claimants :
        Busy(w) /\ plan[w] # "none" /\ HoldsHand(w) =>
            plan[w] \in {RetryTarget(hand[w].message, b) : b \in Budgets}

\* With finitely many crashes and overruns, every message that is enqueued is
\* acknowledged or dead-lettered.
EventuallySettled ==
    \A m \in Messages :
        outbox[m].state = "pending" ~>
            outbox[m].state \in {"succeeded", "dead_letter"}

=============================================================================
