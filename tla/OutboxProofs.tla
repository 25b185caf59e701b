----------------------------- MODULE OutboxProofs -----------------------------
(***************************************************************************)
(* What the outbox promises for every set of messages and every finite set *)
(* of worker processes, whatever worker ids they share; and what a task of *)
(* the agent, whose queue lies on the same table, promises for every       *)
(* number of workers, clients, repetitions and faults.                     *)
(***************************************************************************)
EXTENDS OutboxWorkers, AgentTasks, FiniteSetTheorems, TLAPS

\* Tokens are handed out once: two processes that were given the same message
\* were given different tokens, none above the row's.
TokensDistinct ==
    \A v, w \in Claimants :
        v # w /\ Busy(v) /\ hand[v].message = hand[w].message =>
            hand[v].token # hand[w].token

TokensIssued ==
    \A w \in Claimants :
        Busy(w) => hand[w].token <= outbox[hand[w].message].fencingToken

HandInv == DeliveryTypeOK /\ TokensDistinct /\ TokensIssued

-----------------------------------------------------------------------------

\* Every transaction of the outbox leaves a row of the type of the table behind.
LEMMA RowSteps ==
    ASSUME NEW row \in Row
    PROVE  /\ [row EXCEPT !.state = "pending"] \in Row
           /\ \A owner \in Owners : ClaimedRow(row, owner) \in Row
           /\ \A state \in MessageState, delay \in Nat :
                 FinishedRow(row, state, delay) \in Row
           /\ [row EXCEPT !.leaseLeft = LeaseTicks] \in Row
           /\ ElapsedRow(row) \in Row
<1> USE NoOwnerAssumption, LeaseAssumption DEF Row, MessageState
<1>1. /\ [row EXCEPT !.state = "pending"] \in Row
      /\ [row EXCEPT !.leaseLeft = LeaseTicks] \in Row
      /\ \A owner \in Owners : ClaimedRow(row, owner) \in Row
  BY DEF ClaimedRow
<1>2. /\ \A state \in MessageState, delay \in Nat : FinishedRow(row, state, delay) \in Row
      /\ ElapsedRow(row) \in Row
  BY DEF FinishedRow, ElapsedRow, Less
<1> QED
  BY <1>1, <1>2

\* The message and the token a busy worker holds are well typed.
LEMMA HandFields ==
    ASSUME DeliveryTypeOK, NEW w \in Claimants, Busy(w)
    PROVE  /\ hand[w].message \in Messages /\ hand[w].token \in Nat
           /\ outbox[hand[w].message] \in Row
  BY DEF DeliveryTypeOK, Busy

-----------------------------------------------------------------------------

\* The initial state is well typed.
LEMMA DeliveryInitTyped == DeliveryInit => DeliveryTypeOK
  BY NoOwnerAssumption, MaxDeliveryFaultsAssumption
     DEF DeliveryInit, OutboxInit, DeliveryTypeOK, NoRow, Row, MessageState, EmptyHand

\* Type correctness is inductive.
LEMMA DeliveryNextTyped == DeliveryTypeOK /\ [DeliveryNext]_deliveryVars => DeliveryTypeOK'
<1> SUFFICES ASSUME DeliveryTypeOK, [DeliveryNext]_deliveryVars PROVE DeliveryTypeOK'
  OBVIOUS
<1> USE MaxDeliveryFaultsAssumption DEF DeliveryTypeOK
<1>0. EmptyHand \in [message: Messages \cup {NothingHeld}, token: Nat]
  BY DEF EmptyHand
<1>1. ASSUME NEW m \in Messages, EnqueueMessage(m) PROVE DeliveryTypeOK'
  BY <1>1, RowSteps DEF EnqueueMessage, InsertMessage
<1>2. ASSUME NEW w \in Claimants, NEW m \in Messages, Claim(w, m) PROVE DeliveryTypeOK'
  <2>1. ClaimedRow(outbox[m], OwnerOf[w]) \in Row
    BY OwnerOfAssumption, RowSteps
  <2>2. outbox' \in [Messages -> Row]
    BY <1>2, <2>1 DEF Claim, ClaimMessage
  <2>3. outbox'[m].fencingToken \in Nat
    BY <2>2 DEF Row
  <2> QED
    BY <1>2, <2>2, <2>3 DEF Claim
<1>3. ASSUME NEW w \in Claimants, Renew(w) PROVE DeliveryTypeOK'
  <2>1. [outbox[hand[w].message] EXCEPT !.leaseLeft = LeaseTicks] \in Row
    BY <1>3, RowSteps, HandFields DEF Renew
  <2> QED
    BY <1>3, <2>1, HandFields DEF Renew, RenewMessage
<1>4. ASSUME NEW w \in Claimants, AcknowledgeHand(w) PROVE DeliveryTypeOK'
  <2>1. FinishedRow(outbox[hand[w].message], "succeeded", 0) \in Row
    BY <1>4, RowSteps, HandFields DEF AcknowledgeHand, MessageState
  <2> QED
    BY <1>0, <1>4, <2>1, HandFields DEF AcknowledgeHand, AcknowledgeMessage, DropHand
<1>5. ASSUME NEW w \in Claimants, RetryRead(w) PROVE DeliveryTypeOK'
  BY <1>5 DEF RetryRead, RetryTarget
<1>6. ASSUME NEW w \in Claimants, RetryFinish(w) PROVE DeliveryTypeOK'
  <2> DEFINE delay == IF plan[w] = "pending" THEN RetryTicks ELSE 0
  <2>1. FinishedRow(outbox[hand[w].message], plan[w], delay) \in Row
    BY <1>6, RowSteps, HandFields, RetryAssumption DEF RetryFinish, MessageState
  <2> QED
    BY <1>0, <1>6, <2>1, HandFields DEF RetryFinish, RetryMessage, DropHand
<1>7. ASSUME NEW w \in Claimants, ClaimantDies(w) PROVE DeliveryTypeOK'
  BY <1>0, <1>7 DEF ClaimantDies, DropHand
<1>8. CASE DeliveryTick
  <2>1. \A m \in Messages : ElapsedRow(outbox[m]) \in Row
    BY RowSteps
  <2>2. Cardinality(HandsOverrun) \in Nat
    <3>1. HandsOverrun \subseteq Claimants
      BY DEF HandsOverrun
    <3> QED
      BY <3>1, ClaimantsAssumption, FS_Subset, FS_CardinalityType
  <2> QED
    BY <1>8, <2>1, <2>2 DEF DeliveryTick, ElapseOutbox
<1>9. CASE UNCHANGED deliveryVars
  BY <1>9 DEF deliveryVars
<1> QED
  BY <1>1, <1>2, <1>3, <1>4, <1>5, <1>6, <1>7, <1>8, <1>9 DEF DeliveryNext

\* The types of the table, the hands and the budget of faults.
THEOREM TypeInvariant == DeliverySpec => []DeliveryTypeOK
  BY DeliveryInitTyped, DeliveryNextTyped, PTL DEF DeliverySpec

-----------------------------------------------------------------------------

\* A step that hands out no token and lowers none leaves the distinctness of
\* the tokens in hand alone: each worker keeps its message or drops it.
LEMMA HandsShrink ==
    ASSUME HandInv, DeliveryTypeOK',
           \A w \in Claimants : hand'[w] \in {hand[w], EmptyHand},
           \A m \in Messages : outbox'[m].fencingToken = outbox[m].fencingToken
    PROVE  (TokensDistinct /\ TokensIssued)'
<1>1. \A w \in Claimants : Busy(w)' => Busy(w) /\ hand'[w] = hand[w]
  BY DEF Busy, EmptyHand
<1>2. TokensDistinct'
  BY <1>1 DEF HandInv, TokensDistinct, Busy
<1>3. TokensIssued'
  BY <1>1, HandFields DEF HandInv, TokensIssued
<1> QED
  BY <1>2, <1>3

\* That the tokens in hand are distinct and were issued is inductive.
LEMMA NextHandInv == HandInv /\ [DeliveryNext]_deliveryVars => HandInv'
<1> SUFFICES ASSUME HandInv, [DeliveryNext]_deliveryVars
             PROVE  (TokensDistinct /\ TokensIssued)'
  BY DeliveryNextTyped DEF HandInv
<1>0. DeliveryTypeOK /\ DeliveryTypeOK'
  BY DeliveryNextTyped DEF HandInv
<1>1. ASSUME NEW w \in Claimants, NEW m \in Messages, Claim(w, m)
      PROVE  (TokensDistinct /\ TokensIssued)'
  <2> DEFINE t == outbox[m].fencingToken + 1
  <2>1. /\ hand'[w] = [message |-> m, token |-> t]
        /\ \A v \in Claimants \ {w} : hand'[v] = hand[v]
        /\ outbox'[m].fencingToken = t
        /\ \A n \in Messages \ {m} : outbox'[n] = outbox[n]
    BY <1>0, <1>1 DEF Claim, ClaimMessage, ClaimedRow, DeliveryTypeOK
  <2>2. \A v \in Claimants \ {w} :
           Busy(v) /\ hand[v].message = m => hand[v].token < t
    BY <1>0, HandFields DEF HandInv, TokensIssued, Row
  <2>3. TokensDistinct'
    BY <1>0, <2>1, <2>2, HandFields, NothingHeldAssumption
       DEF HandInv, TokensDistinct, Busy
  <2>4. TokensIssued'
    BY <1>0, <2>1, <2>2, HandFields DEF HandInv, TokensIssued, Busy, Row, DeliveryTypeOK
  <2> QED
    BY <2>3, <2>4
<1>2. ASSUME ~ \E w \in Claimants, m \in Messages : Claim(w, m)
      PROVE  (TokensDistinct /\ TokensIssued)'
  <2>1. \A w \in Claimants : hand'[w] \in {hand[w], EmptyHand}
    BY <1>0, <1>2 DEF DeliveryNext, deliveryVars, EnqueueMessage, Renew, AcknowledgeHand,
                      RetryRead, RetryFinish, ClaimantDies, DeliveryTick, DropHand,
                      DeliveryTypeOK
  <2>2. ASSUME NEW m \in Messages
        PROVE  outbox'[m].fencingToken = outbox[m].fencingToken
    <3> USE <1>0 DEF DeliveryTypeOK
    <3>1. ASSUME NEW n \in Messages, EnqueueMessage(n)
          PROVE  outbox'[m].fencingToken = outbox[m].fencingToken
      BY <3>1 DEF EnqueueMessage, InsertMessage, Row
    <3>2. ASSUME NEW w \in Claimants, Renew(w)
          PROVE  outbox'[m].fencingToken = outbox[m].fencingToken
      BY <3>2 DEF Renew, RenewMessage, Row
    <3>3. ASSUME NEW w \in Claimants, AcknowledgeHand(w) \/ RetryFinish(w)
          PROVE  outbox'[m].fencingToken = outbox[m].fencingToken
      BY <3>3 DEF AcknowledgeHand, AcknowledgeMessage, RetryFinish, RetryMessage,
                  FinishedRow
    <3>4. CASE DeliveryTick
      BY <3>4 DEF DeliveryTick, ElapseOutbox, ElapsedRow
    <3>5. CASE UNCHANGED outbox
      BY <3>5
    <3> QED
      BY <1>2, <3>1, <3>2, <3>3, <3>4, <3>5
         DEF DeliveryNext, deliveryVars, RetryRead, ClaimantDies
  <2> QED
    BY <1>0, <2>1, <2>2, HandsShrink
<1> QED
  BY <1>1, <1>2

\* Of all the processes that ever claimed a message, at most one passes its
\* fence: for any number of processes sharing any worker ids.
THEOREM OneClaimPassesAlways == DeliverySpec => []OneClaimPasses
<1>1. DeliveryInit => HandInv
  BY DeliveryInitTyped
     DEF DeliveryInit, HandInv, TokensDistinct, TokensIssued, Busy, EmptyHand
<1>2. HandInv => OneClaimPasses
  BY DEF HandInv, TokensDistinct, OneClaimPasses, HoldsHand, Holds
<1> QED
  BY <1>1, <1>2, NextHandInv, PTL DEF DeliverySpec

-----------------------------------------------------------------------------

\* A verdict is kept only by a worker with a message in hand.
PlannersBusy == \A w \in Claimants : plan[w] # "none" => Busy(w)

PlanInv == PlannersBusy /\ PlanStaysTrue

\* Under the claim it was made for, a verdict fits for as long as the attempts
\* of the row stay what they are.
LEMMA PlanKept ==
    ASSUME PlanInv, NEW w \in Claimants, hand'[w] = hand[w], plan'[w] = plan[w],
           Busy(w) /\ HoldsHand(w)' =>
               /\ HoldsHand(w)
               /\ outbox'[hand[w].message].attempts = outbox[hand[w].message].attempts
    PROVE  Busy(w)' /\ plan'[w] # "none" /\ HoldsHand(w)' =>
               plan'[w] \in {RetryTarget(hand[w].message, b)' : b \in Budgets}
  BY DEF PlanInv, PlanStaysTrue, Busy, RetryTarget

\* A claim raises the token above every one in hand, so it ends the claims that
\* verdicts were made for; every other step leaves the attempts alone.
LEMMA NextPlanInv == HandInv /\ PlanInv /\ [DeliveryNext]_deliveryVars => PlanInv'
<1> SUFFICES ASSUME HandInv, PlanInv, [DeliveryNext]_deliveryVars PROVE PlanInv'
  OBVIOUS
<1> DEFINE Fits(w) == Busy(w)' /\ plan'[w] # "none" /\ HoldsHand(w)' =>
                          plan'[w] \in {RetryTarget(hand[w].message, b)' : b \in Budgets}
<1>0. DeliveryTypeOK /\ DeliveryTypeOK'
  BY DeliveryNextTyped DEF HandInv
<1>1. PlannersBusy'
  BY <1>0 DEF DeliveryNext, deliveryVars, EnqueueMessage, Claim, Renew, AcknowledgeHand,
              RetryRead, RetryFinish, ClaimantDies, DeliveryTick, DropHand, EmptyHand,
              Busy, PlanInv, PlannersBusy, DeliveryTypeOK
<1>2. ASSUME NEW w \in Claimants, NEW m \in Messages, Claim(w, m), NEW v \in Claimants
      PROVE  Fits(v)
  <2>1. CASE v = w
    BY <1>2, <2>1 DEF Claim, PlanInv, PlannersBusy
  <2>2. CASE v # w
    <3>1. hand'[v] = hand[v] /\ plan'[v] = plan[v]
      BY <1>0, <1>2, <2>2 DEF Claim, DeliveryTypeOK
    <3>2. ASSUME Busy(v), hand[v].message = m PROVE ~HoldsHand(v)'
      <4>1. /\ outbox'[m].fencingToken = outbox[m].fencingToken + 1
            /\ hand[v].token <= outbox[m].fencingToken
            /\ hand[v].token \in Nat /\ outbox[m].fencingToken \in Nat
        BY <1>0, <1>2, <3>2, HandFields
           DEF Claim, ClaimMessage, ClaimedRow, HandInv, TokensIssued, DeliveryTypeOK, Row
      <4> QED
        BY <3>1, <3>2, <4>1 DEF HoldsHand, Holds
    <3>3. ASSUME Busy(v), hand[v].message # m
          PROVE  outbox'[hand[v].message] = outbox[hand[v].message]
      BY <1>0, <1>2, <3>3, HandFields DEF Claim, ClaimMessage, DeliveryTypeOK
    <3> QED
      BY <3>1, <3>2, <3>3, PlanKept DEF HoldsHand, Holds
  <2> QED
    BY <2>1, <2>2
<1>3. ASSUME NEW w \in Claimants, AcknowledgeHand(w) \/ RetryFinish(w), NEW v \in Claimants
      PROVE  Fits(v)
  <2>1. CASE v = w
    BY <1>0, <1>3, <2>1 DEF AcknowledgeHand, RetryFinish, DropHand, DeliveryTypeOK
  <2>2. CASE v # w
    <3>1. hand'[v] = hand[v] /\ plan'[v] = plan[v]
      BY <1>0, <1>3, <2>2 DEF AcknowledgeHand, RetryFinish, DropHand, DeliveryTypeOK
    <3>2. ASSUME Busy(v)
          PROVE  \/ outbox'[hand[v].message] = outbox[hand[v].message]
                 \/ outbox'[hand[v].message].state # "running"
      BY <1>0, <1>3, <3>2, HandFields
         DEF AcknowledgeHand, RetryFinish, AcknowledgeMessage, RetryMessage, FinishedRow,
             DeliveryTypeOK
    <3> QED
      BY <3>1, <3>2, PlanKept DEF HoldsHand, Holds
  <2> QED
    BY <2>1, <2>2
<1>4. ASSUME NEW w \in Claimants, RetryRead(w), NEW v \in Claimants PROVE Fits(v)
  <2>1. CASE v = w
    BY <1>0, <1>4, <2>1 DEF RetryRead, RetryTarget, DeliveryTypeOK
  <2>2. CASE v # w
    <3>1. hand'[v] = hand[v] /\ plan'[v] = plan[v] /\ outbox' = outbox
      BY <1>0, <1>4, <2>2 DEF RetryRead, DeliveryTypeOK
    <3> QED
      BY <3>1, PlanKept DEF HoldsHand, Holds
  <2> QED
    BY <2>1, <2>2
<1>5. ASSUME NEW w \in Claimants, ClaimantDies(w), NEW v \in Claimants PROVE Fits(v)
  <2>1. CASE v = w
    BY <1>0, <1>5, <2>1 DEF ClaimantDies, DropHand, DeliveryTypeOK
  <2>2. CASE v # w
    <3>1. hand'[v] = hand[v] /\ plan'[v] = plan[v] /\ outbox' = outbox
      BY <1>0, <1>5, <2>2 DEF ClaimantDies, DropHand, DeliveryTypeOK
    <3> QED
      BY <3>1, PlanKept DEF HoldsHand, Holds
  <2> QED
    BY <2>1, <2>2
<1>6. ASSUME NEW v \in Claimants,
             \/ \E m \in Messages : EnqueueMessage(m)
             \/ \E w \in Claimants : Renew(w)
             \/ DeliveryTick
             \/ UNCHANGED deliveryVars
      PROVE  Fits(v)
  <2>1. hand'[v] = hand[v] /\ plan'[v] = plan[v]
    BY <1>6 DEF EnqueueMessage, Renew, DeliveryTick, deliveryVars
  <2>2. ASSUME Busy(v)
        PROVE  LET m == hand[v].message IN
               /\ outbox'[m].leaseOwner = outbox[m].leaseOwner
               /\ outbox'[m].fencingToken = outbox[m].fencingToken
               /\ outbox'[m].attempts = outbox[m].attempts
               /\ outbox'[m].state = "running" => outbox[m].state = "running"
    <3> USE <1>0, <2>2, HandFields DEF DeliveryTypeOK, Row
    <3>1. CASE \E m \in Messages : EnqueueMessage(m)
      BY <3>1 DEF EnqueueMessage, InsertMessage
    <3>2. CASE \E w \in Claimants : Renew(w)
      BY <3>2 DEF Renew, RenewMessage
    <3>3. CASE DeliveryTick
      BY <3>3 DEF DeliveryTick, ElapseOutbox, ElapsedRow
    <3>4. CASE UNCHANGED deliveryVars
      BY <3>4 DEF deliveryVars
    <3> QED
      BY <1>6, <3>1, <3>2, <3>3, <3>4
  <2> QED
    BY <2>1, <2>2, PlanKept DEF HoldsHand, Holds
<1>7. ASSUME NEW v \in Claimants PROVE Fits(v)
  BY <1>2, <1>3, <1>4, <1>5, <1>6 DEF DeliveryNext
<1>8. PlanStaysTrue'
  BY <1>7 DEF PlanStaysTrue
<1> QED
  BY <1>1, <1>8 DEF PlanInv

\* retry decides on attempts it read in an earlier transaction; whoever still
\* passes the fence when it writes would decide the same: for any workers, ids,
\* budgets, crashes and leases that run out.
THEOREM PlanStaysTrueAlways == DeliverySpec => []PlanStaysTrue
<1>1. DeliveryInit => HandInv /\ PlanInv
  BY DeliveryInitTyped
     DEF DeliveryInit, HandInv, TokensDistinct, TokensIssued, Busy, EmptyHand, PlanInv,
         PlannersBusy, PlanStaysTrue
<1>2. PlanInv => PlanStaysTrue
  BY DEF PlanInv
<1> QED
  BY <1>1, <1>2, NextHandInv, NextPlanInv, PTL DEF DeliverySpec

-----------------------------------------------------------------------------
(***************************************************************************)
(* AgentTasks.  A lease guards every write to the row, but not what a      *)
(* process decided before it: that the decision is still right is what the *)
(* process knows at its place, and none of it can be taken back.           *)
(***************************************************************************)

\* What a process that holds a message, or none, may be doing.
InHand(p) ==
    /\ pc[p] \in {"read", "take", "check", "ack", "retry", "wake"} =>
          local[p].message # NoMessage
    /\ local[p].message = "ready" => pc[p] \in {"wake", "ack", "retry"}
    /\ p \in Clients => /\ local[p].message = NoMessage
                        /\ pc[p] \in {"idle", "enqueue", "cancelRun", "announce", "mark"}

\* What a process knows of the Run it is about to submit, cancel or judge.
KnowsRun(p) ==
    /\ pc[p] \in {"submit", "cancelRun", "verify", "gate", "revalidate", "finalize"} =>
          task.linked
    /\ pc[p] = "cancelRun" => task.cancelRequested
    /\ pc[p] = "verify" /\ local[p].capsule = "ready" => run.capsule = "ready"

\* The Run and its evidence are what a success needs.
Earned ==
    /\ run.collection = "succeeded" /\ run.evidence # "open"
    /\ task.needsCapsule => run.capsule = "ready"
    /\ run.state = "succeeded" \/ task.cancelRequested

\* What a process knows of the outcome it is about to store.
KnowsOutcome(p) ==
    /\ pc[p] \in {"finish", "persist"} => local[p].outcome \in {"failed", "cancelled"}
    /\ pc[p] \in {"gate", "revalidate", "finalize"} =>
          local[p].receipt # NoReceipt /\ Earned
    /\ pc[p] \in {"revalidate", "finalize"} => task.receipt # NoReceipt

\* What a process knows of the outcome it tells the Session of.
KnowsOver(p) ==
    /\ pc[p] \in {"announce", "announceLate", "wake"} => task.state \in Over
    /\ pc[p] \in {"mark", "markLate"} => outbox["ready"].state # "absent"
    /\ pc[p] = "ack" /\ local[p].message = "ready" => turn # "none"

Knows(p) == InHand(p) /\ KnowsRun(p) /\ KnowsOutcome(p) /\ KnowsOver(p)

\* A build that has begun still has its stamp to come.
StampLeft == run.capsule = "running" => run.stamp <= MaxStamps + 1

\* A linked task exists; only a task that is over has a ready message.
RowsAgree ==
    /\ task.linked => task.state # "absent"
    /\ outbox["ready"].state # "absent" => task.state \in Over

\* The inductive invariant: the types, what the tables say of each other, and
\* what every process knows at the place where it is.
TaskInv ==
    /\ TypeOK /\ StampLeft /\ RowsAgree
    /\ SubmittedMeansLinked /\ SucceededMeansGated /\ OutcomeReachesSession
    /\ \A p \in Processes : Knows(p)

\* No step takes back what is stored: an outcome, a link, a cancel, a receipt,
\* what a collector, the seal or the builder did, the message and the Turn that
\* tell of the outcome.  A Run that succeeded is one unless a cancel says so.
StoredForGood ==
    /\ task.state \in Over => task'.state = task.state /\ task'.gate = task.gate
    /\ task.state # "absent" => task'.state # "absent"
                                /\ task'.needsCapsule = task.needsCapsule
    /\ task.linked => task'.linked
    /\ task.cancelRequested => task'.cancelRequested
    /\ task.receipt # NoReceipt => task'.receipt = task.receipt
    /\ run.collection # "pending" => run'.collection = run.collection
    /\ run.evidence # "open" => run'.evidence # "open"
    /\ run.capsule = "ready" => run'.capsule = "ready"
    /\ run.state = "succeeded" => run'.state = "succeeded" \/ task'.cancelRequested
    /\ outbox["ready"].state # "absent" => outbox'["ready"].state # "absent"
    /\ turn # "none" => turn' = turn

\* The other processes are where they were.
OthersStill(p) ==
    \A q \in Processes \ {p} : pc'[q] = pc[q] /\ local'[q] = local[q]

\* What the tables say by themselves.
StateInv == RowsAgree /\ SubmittedMeansLinked /\ SucceededMeansGated
            /\ OutcomeReachesSession

\* A process that is not the actor of a step still knows what it knew.
LEMMA StillKnows ==
    ASSUME TaskInv, StoredForGood, NEW q \in Processes,
           pc'[q] = pc[q], local'[q] = local[q]
    PROVE  Knows(q)'
<1> USE DEF TaskInv, StoredForGood
<1>1. Knows(q)
  OBVIOUS
<1>2. InHand(q)'
  BY <1>1 DEF Knows, InHand
<1>3. KnowsRun(q)'
  BY <1>1 DEF Knows, KnowsRun
<1>4. Earned /\ task.linked => Earned'
  BY DEF Earned, RowsAgree
<1>5. KnowsOutcome(q)'
  BY <1>1, <1>4 DEF Knows, KnowsOutcome, KnowsRun
<1>6. KnowsOver(q)'
  BY <1>1 DEF Knows, KnowsOver, Over
<1> QED
  BY <1>2, <1>3, <1>5, <1>6 DEF Knows

\* The part of the types that is about the processes.
ProcessesTyped ==
    /\ pc \in [Processes -> PC] /\ local \in [Processes -> Local]
    /\ \A p \in Processes : pc[p] = "idle" => local[p] = NoLocal

\* The three ways a step of p moves p on.
LEMMA Moves ==
    ASSUME TypeOK, NEW p \in Processes
    PROVE  /\ \A place \in PC \ {"idle"} : Goto(p, place) =>
                 /\ ProcessesTyped' /\ OthersStill(p)
                 /\ pc'[p] = place /\ local'[p] = local[p]
           /\ Leave(p) =>
                 /\ ProcessesTyped' /\ OthersStill(p)
                 /\ pc'[p] = "idle" /\ local'[p] = NoLocal
           /\ \A place \in PC \ {"idle"}, gate \in DOMAIN Rank,
                 outcome \in Over \cup {"none"} :
                 Decide(p, place, gate, outcome) =>
                 /\ ProcessesTyped' /\ OthersStill(p)
                 /\ pc'[p] = place
                 /\ local'[p].message = local[p].message
                 /\ local'[p].capsule = local[p].capsule
                 /\ local'[p].receipt = local[p].receipt
                 /\ local'[p].gate = gate /\ local'[p].outcome = outcome
<1> USE DEF TypeOK, OthersStill, ProcessesTyped
<1>1. NoLocal \in Local
  BY DEF NoLocal, Local, Rank, NoReceipt, Over, CapsuleState
<1>2. \A gate \in DOMAIN Rank, outcome \in Over \cup {"none"} :
         [local[p] EXCEPT !.gate = gate, !.outcome = outcome] \in Local
  BY DEF Local
<1>3. ASSUME NEW place \in PC \ {"idle"}, Goto(p, place)
      PROVE  /\ ProcessesTyped' /\ OthersStill(p)
             /\ pc'[p] = place /\ local'[p] = local[p]
  BY <1>3 DEF Goto
<1>4. Leave(p) =>
         /\ ProcessesTyped' /\ OthersStill(p)
         /\ pc'[p] = "idle" /\ local'[p] = NoLocal
  BY <1>1 DEF Leave, PC
<1>5. ASSUME NEW place \in PC \ {"idle"}, NEW gate \in DOMAIN Rank,
             NEW outcome \in Over \cup {"none"}, Decide(p, place, gate, outcome)
      PROVE  /\ ProcessesTyped' /\ OthersStill(p)
             /\ pc'[p] = place
             /\ local'[p].message = local[p].message
             /\ local'[p].capsule = local[p].capsule
             /\ local'[p].receipt = local[p].receipt
             /\ local'[p].gate = gate /\ local'[p].outcome = outcome
  <2>1. local'[p] = [local[p] EXCEPT !.gate = gate, !.outcome = outcome]
    BY <1>5 DEF Decide
  <2>2. ProcessesTyped' /\ OthersStill(p) /\ pc'[p] = place
    BY <1>2, <1>5 DEF Decide
  <2> QED
    BY <2>1, <2>2 DEF Local
<1> QED
  BY <1>3, <1>4, <1>5

\* The tables as they are.
LEMMA TablesSame ==
    ASSUME TaskInv, UNCHANGED <<outbox, task, world>>, ProcessesTyped',
           requests' \in 0..MaxRequests, faults' \in 0..MaxFaults
    PROVE  TypeOK' /\ StampLeft' /\ StateInv' /\ StoredForGood
<1> USE DEF TaskInv, world
<1>1. TypeOK'
  BY DEF TypeOK, ProcessesTyped
<1>2. StampLeft' /\ StoredForGood
  BY DEF StampLeft, StoredForGood
<1>3. StateInv'
  BY DEF StateInv, RowsAgree, SubmittedMeansLinked, SucceededMeansGated,
         OutcomeReachesSession
<1> QED
  BY <1>1, <1>2, <1>3

\* What a step of p leaves behind, what the others know aside.
Kept(p) ==
    /\ TypeOK' /\ StampLeft' /\ StateInv' /\ StoredForGood
    /\ OthersStill(p) /\ Knows(p)'

\* Steps that read: the row of the task, a cancel, the Run, the intent.
LEMMA ReadKept ==
    ASSUME TaskInv, NEW p \in Workers,
           ReadTask(p) \/ CheckCancel(p) \/ ReadRun(p) \/ AnnounceAgain(p)
    PROVE  Kept(p)
<1> USE DEF Processes
<1>0. TypeOK /\ Knows(p) /\ p \in Processes /\ p \notin Clients
  BY ProcessesAssumption DEF TaskInv
<1>1. requests' \in 0..MaxRequests /\ faults' \in 0..MaxFaults
      /\ UNCHANGED <<outbox, task, world>>
  BY <1>0 DEF TypeOK, ReadTask, CheckCancel, ReadRun, AnnounceAgain
<1>2. CASE ReadTask(p)
  <2>1. PICK place \in {"ack", "take"} : Goto(p, place)
    BY <1>2 DEF ReadTask
  <2>2. ProcessesTyped' /\ OthersStill(p) /\ pc'[p] = place /\ local'[p] = local[p]
    BY <1>0, <2>1, Moves DEF PC
  <2>3. Knows(p)'
    BY <1>0, <1>2, <2>2 DEF ReadTask, Knows, InHand, KnowsRun, KnowsOutcome, KnowsOver
  <2> QED
    BY <1>1, <2>2, <2>3, TablesSame DEF Kept
<1>3. CASE CheckCancel(p)
  <2>1. /\ ProcessesTyped' /\ OthersStill(p) /\ local'[p].message = local[p].message
        /\ \/ pc'[p] = "persist" /\ local'[p].outcome = "cancelled"
           \/ pc'[p] = "prepare"
    <3>1. CASE task.cancelRequested
      <4>1. Decide(p, "persist", task.gate, "cancelled") /\ task.gate \in DOMAIN Rank
        BY <1>0, <1>3, <3>1 DEF CheckCancel, TypeOK, TaskRow
      <4> QED
        BY <1>0, <4>1, Moves DEF PC, Over
    <3>2. CASE ~task.cancelRequested
      BY <1>0, <1>3, <3>2, Moves DEF CheckCancel, PC
    <3> QED
      BY <3>1, <3>2
  <2>2. Knows(p)'
    BY <1>0, <1>3, <2>1 DEF CheckCancel, Knows, InHand, KnowsRun, KnowsOutcome, KnowsOver
  <2> QED
    BY <1>1, <2>1, <2>2, TablesSame DEF Kept
<1>4. CASE AnnounceAgain(p)
  <2>1. ProcessesTyped' /\ OthersStill(p) /\ pc'[p] = "announce" /\ local'[p] = local[p]
    BY <1>0, <1>4, Moves DEF AnnounceAgain, PC
  <2>2. local[p].message = NoMessage
    BY <1>0, <1>4 DEF AnnounceAgain, TypeOK, NoLocal
  <2>3. Knows(p)'
    BY <1>0, <1>1, <1>4, <2>1, <2>2, MessagesAssumption
       DEF AnnounceAgain, Knows, InHand, KnowsRun, KnowsOutcome, KnowsOver
  <2> QED
    BY <1>1, <2>1, <2>3, TablesSame DEF Kept
<1>5. CASE ReadRun(p)
  <2>0. local[p].message # "ready" /\ pc[p] = "reconcile"
    BY <1>0, <1>5 DEF ReadRun, Knows, InHand
  <2>1. CASE ~task.linked
    <3>1. ProcessesTyped' /\ OthersStill(p) /\ pc'[p] = "release" /\ local'[p] = local[p]
      BY <1>0, <1>5, <2>1, Moves DEF ReadRun, PC
    <3>2. Knows(p)'
      BY <1>0, <2>0, <3>1 DEF Knows, InHand, KnowsRun, KnowsOutcome, KnowsOver
    <3> QED
      BY <1>1, <3>1, <3>2, TablesSame DEF Kept
  <2>2. CASE task.linked /\ pc' = [pc EXCEPT ![p] = "verify"]
              /\ local' = [local EXCEPT ![p].capsule = run.capsule]
    <3>1. ProcessesTyped' /\ OthersStill(p) /\ pc'[p] = "verify"
          /\ local'[p].message = local[p].message /\ local'[p].capsule = run.capsule
      BY <1>0, <2>2 DEF TypeOK, ProcessesTyped, OthersStill, PC, Local, RunRow
    <3>2. Knows(p)'
      BY <1>0, <1>1, <2>0, <2>2, <3>1
         DEF Knows, InHand, KnowsRun, KnowsOutcome, KnowsOver, world
    <3> QED
      BY <1>1, <3>1, <3>2, TablesSame DEF Kept
  <2>3. CASE task.linked /\ task.cancelRequested /\ Goto(p, "cancelRun")
    <3>1. ProcessesTyped' /\ OthersStill(p) /\ pc'[p] = "cancelRun" /\ local'[p] = local[p]
      BY <1>0, <2>3, Moves DEF PC
    <3>2. Knows(p)'
      BY <1>0, <1>1, <2>0, <2>3, <3>1
         DEF Knows, InHand, KnowsRun, KnowsOutcome, KnowsOver
    <3> QED
      BY <1>1, <3>1, <3>2, TablesSame DEF Kept
  <2>4. CASE \/ Decide(p, "wait", "awaiting_run_terminal", "none")
             \/ Decide(p, "wait", "awaiting_evidence", "none")
    <3>1. ProcessesTyped' /\ OthersStill(p) /\ pc'[p] = "wait"
          /\ local'[p].message = local[p].message
      BY <1>0, <2>4, Moves DEF PC, Rank
    <3>2. Knows(p)'
      BY <1>0, <2>0, <3>1 DEF Knows, InHand, KnowsRun, KnowsOutcome, KnowsOver
    <3> QED
      BY <1>1, <3>1, <3>2, TablesSame DEF Kept
  <2>5. CASE \/ Decide(p, "finish", "cancelled", "cancelled")
             \/ Decide(p, "finish", "failed", "failed")
    <3>1. ProcessesTyped' /\ OthersStill(p) /\ pc'[p] = "finish"
          /\ local'[p].message = local[p].message
          /\ local'[p].outcome \in {"cancelled", "failed"}
      BY <1>0, <2>5, Moves DEF PC, Rank, Over
    <3>2. Knows(p)'
      BY <1>0, <2>0, <3>1 DEF Knows, InHand, KnowsRun, KnowsOutcome, KnowsOver
    <3> QED
      BY <1>1, <3>1, <3>2, TablesSame DEF Kept
  <2> QED
    BY <1>5, <2>1, <2>2, <2>3, <2>4, <2>5 DEF ReadRun
<1> QED
  BY <1>2, <1>3, <1>4, <1>5

\* A write to the row of a task that is not over and stays so.
OpenWrite ==
    /\ UNCHANGED <<outbox, world>>
    /\ task.state \in {"pending", "running"} /\ task'.state = "running"
    /\ task' \in TaskRow
    /\ task'.needsCapsule = task.needsCapsule
    /\ task.linked => task'.linked
    /\ task.cancelRequested => task'.cancelRequested
    /\ task.receipt # NoReceipt => task'.receipt = task.receipt

\* Such a write leaves the tables in order: nobody was told of the task yet.
LEMMA OpenWriteKept ==
    ASSUME TaskInv, OpenWrite, ProcessesTyped',
           requests' \in 0..MaxRequests, faults' \in 0..MaxFaults
    PROVE  TypeOK' /\ StampLeft' /\ StateInv' /\ StoredForGood
<1> USE DEF TaskInv, OpenWrite, world
<1>1. task.state \notin Over /\ task.state # "absent"
  BY DEF Over
<1>2. outbox["ready"].state = "absent" /\ turn = "none"
  BY <1>1 DEF RowsAgree, OutcomeReachesSession, TypeOK
<1>3. TypeOK'
  BY DEF TypeOK, ProcessesTyped
<1>4. StampLeft' /\ StoredForGood
  BY <1>1, <1>2 DEF StampLeft, StoredForGood
<1>5. StateInv'
  BY <1>1, <1>2 DEF StateInv, RowsAgree, SubmittedMeansLinked, SucceededMeansGated,
         OutcomeReachesSession, Over
<1> QED
  BY <1>3, <1>4, <1>5

\* What the transactions write to the row.
LEMMA TaskRows ==
    ASSUME NEW t \in TaskRow
    PROVE  /\ \A state \in {"absent", "pending", "running"} \cup Over,
                 holder \in Workers \cup {Nobody}, left \in 0..LeaseTicks :
                 [t EXCEPT !.state = state, !.holder = holder, !.leaseLeft = left]
                    \in TaskRow
           /\ \A holder \in Workers \cup {Nobody}, left \in 0..LeaseTicks :
                 [t EXCEPT !.holder = holder, !.leaseLeft = left] \in TaskRow
           /\ \A state \in Over, left \in 0..LeaseTicks :
                 [t EXCEPT !.state = state, !.readyPending = TRUE,
                           !.holder = Nobody, !.leaseLeft = left] \in TaskRow
           /\ \A gate \in DOMAIN Rank, receipt \in Stamps \cup {NoReceipt} :
                 [t EXCEPT !.gate = gate, !.receipt = receipt] \in TaskRow
           /\ \A gate \in DOMAIN Rank : [t EXCEPT !.gate = gate] \in TaskRow
           /\ \A capsule \in BOOLEAN :
                 [t EXCEPT !.state = "pending", !.needsCapsule = capsule] \in TaskRow
           /\ \A left \in 0..LeaseTicks : [t EXCEPT !.leaseLeft = left] \in TaskRow
           /\ [t EXCEPT !.readyPending = FALSE] \in TaskRow
           /\ [t EXCEPT !.cancelRequested = TRUE] \in TaskRow
           /\ [t EXCEPT !.linked = TRUE] \in TaskRow
           /\ [t EXCEPT !.expired = TRUE] \in TaskRow
  BY DEF TaskRow

\* Steps that take or keep the lease: the claim, the link, the gate states.
LEMMA TakeKept ==
    ASSUME TaskInv, NEW p \in Workers, TakeToExecute(p) \/ TakeToReconcile(p)
    PROVE  Kept(p)
<1> USE DEF Processes
<1>0. TypeOK /\ Knows(p) /\ p \in Processes /\ p \notin Clients
  BY ProcessesAssumption DEF TaskInv
<1>1. requests' \in 0..MaxRequests /\ faults' \in 0..MaxFaults
      /\ UNCHANGED <<outbox, world>>
  BY <1>0 DEF TypeOK, TakeToExecute, TakeToReconcile
<1>2. ASSUME TakeTask(p) PROVE OpenWrite
  <2>1. task' = [task EXCEPT !.state = "running", !.holder = p, !.leaseLeft = LeaseTicks]
        /\ task.state \in {"pending", "running"}
    BY <1>2 DEF TakeTask, Takeable
  <2>2. task' \in TaskRow
    <3>1. p \in Workers \cup {Nobody} /\ LeaseTicks \in 0..LeaseTicks
          /\ "running" \in {"absent", "pending", "running"} \cup Over /\ task \in TaskRow
      BY <1>0, LeaseAssumption DEF TypeOK
    <3> QED
      BY <2>1, <3>1, TaskRows
  <2> QED
    BY <1>0, <1>1, <2>1, <2>2 DEF OpenWrite, TypeOK, TaskRow
<1>3. CASE TakeToExecute(p)
  <2>1. CASE TakeTask(p) /\ Goto(p, "check")
    <3>1. ProcessesTyped' /\ OthersStill(p) /\ pc'[p] = "check" /\ local'[p] = local[p]
      BY <1>0, <2>1, Moves DEF PC
    <3>2. Knows(p)'
      BY <1>0, <1>3, <3>1
         DEF TakeToExecute, Knows, InHand, KnowsRun, KnowsOutcome, KnowsOver
    <3> QED
      BY <1>1, <1>2, <2>1, <3>1, <3>2, OpenWriteKept DEF Kept
  <2>2. CASE Goto(p, "retry") /\ UNCHANGED task
    <3>1. ProcessesTyped' /\ OthersStill(p) /\ pc'[p] = "retry" /\ local'[p] = local[p]
      BY <1>0, <2>2, Moves DEF PC
    <3>2. Knows(p)'
      BY <1>0, <1>3, <3>1
         DEF TakeToExecute, Knows, InHand, KnowsRun, KnowsOutcome, KnowsOver
    <3> QED
      BY <1>1, <2>2, <3>1, <3>2, TablesSame DEF Kept
  <2> QED
    BY <1>3, <2>1, <2>2 DEF TakeToExecute
<1>4. CASE TakeToReconcile(p)
  <2>1. ProcessesTyped' /\ OthersStill(p) /\ pc'[p] = "reconcile" /\ local'[p] = local[p]
    BY <1>0, <1>4, Moves DEF TakeToReconcile, PC
  <2>2. local[p].message = NoMessage
    BY <1>0, <1>4 DEF TakeToReconcile, TypeOK, NoLocal
  <2>3. Knows(p)'
    BY <1>0, <2>1, <2>2, MessagesAssumption
       DEF Knows, InHand, KnowsRun, KnowsOutcome, KnowsOver
  <2> QED
    BY <1>1, <1>2, <1>4, <2>1, <2>3, OpenWriteKept DEF Kept, TakeToReconcile
<1> QED
  BY <1>3, <1>4

\* The places at which a worker needs to know nothing.
Plain == {"idle", "prepare", "link", "schedule", "release", "reconcile", "wait", "abort"}

\* A worker that goes on to one of them, with no ready message, knows enough.
LEMMA PlainKnows ==
    ASSUME NEW p \in Workers, p \notin Clients, pc'[p] \in Plain,
           local'[p].message # "ready"
    PROVE  Knows(p)'
  BY DEF Plain, Knows, InHand, KnowsRun, KnowsOutcome, KnowsOver

\* link_run.
LEMMA LinkKept ==
    ASSUME TaskInv, NEW p \in Workers, LinkRun(p)
    PROVE  Kept(p)
<1> USE DEF Processes
<1>0. TypeOK /\ Knows(p) /\ p \in Processes /\ p \notin Clients
  BY ProcessesAssumption DEF TaskInv
<1>1. requests' \in 0..MaxRequests /\ faults' \in 0..MaxFaults
      /\ UNCHANGED <<outbox, world>> /\ local[p].message # "ready"
  BY <1>0 DEF TypeOK, LinkRun, Knows, InHand
<1>2. CASE Leased(p) /\ task' = [task EXCEPT !.linked = TRUE] /\ Goto(p, "submit")
  <2>1. ProcessesTyped' /\ OthersStill(p) /\ pc'[p] = "submit" /\ local'[p] = local[p]
    BY <1>0, <1>2, Moves DEF PC
  <2>2. OpenWrite
    BY <1>0, <1>1, <1>2 DEF OpenWrite, TypeOK, TaskRow, Leased
  <2>3. task'.linked
    BY <1>0, <1>2 DEF TypeOK, TaskRow
  <2>4. Knows(p)'
    BY <1>0, <1>1, <2>1, <2>3 DEF Knows, InHand, KnowsRun, KnowsOutcome, KnowsOver
  <2> QED
    BY <1>1, <2>1, <2>2, <2>4, OpenWriteKept DEF Kept
<1>3. CASE Goto(p, "abort") /\ UNCHANGED task
  <2>1. ProcessesTyped' /\ OthersStill(p) /\ pc'[p] = "abort" /\ local'[p] = local[p]
    BY <1>0, <1>3, Moves DEF PC
  <2>2. Knows(p)'
    BY <1>0, <1>1, <2>1, PlainKnows DEF Plain
  <2> QED
    BY <1>1, <1>3, <2>1, <2>2, TablesSame DEF Kept
<1> QED
  BY <1>2, <1>3 DEF LinkRun

\* advance_gate: the schedule receipt, a wait, the gate state of an outcome.
LEMMA AdvanceKept ==
    ASSUME TaskInv, NEW p \in Workers, Schedule(p) \/ Wait(p) \/ Finish(p)
    PROVE  Kept(p)
<1> USE DEF Processes
<1>0. TypeOK /\ Knows(p) /\ p \in Processes /\ p \notin Clients
  BY ProcessesAssumption DEF TaskInv
<1>1. requests' \in 0..MaxRequests /\ faults' \in 0..MaxFaults
      /\ UNCHANGED <<outbox, world>> /\ local[p].message # "ready"
  BY <1>0 DEF TypeOK, Schedule, Wait, Finish, Knows, InHand
<1>2. ASSUME NEW gate \in DOMAIN Rank, NEW place \in {"release", "persist"},
             Leased(p), task' = [task EXCEPT !.gate = gate], Goto(p, place),
             place = "persist" => local[p].outcome \in {"failed", "cancelled"}
      PROVE  Kept(p)
  <2>1. ProcessesTyped' /\ OthersStill(p) /\ pc'[p] = place /\ local'[p] = local[p]
    BY <1>0, <1>2, Moves DEF PC
  <2>2. task \in TaskRow /\ task' \in TaskRow
    BY <1>0, <1>2, TaskRows DEF TypeOK
  <2>3. OpenWrite
    BY <1>1, <1>2, <2>2 DEF OpenWrite, TaskRow, Leased
  <2>4. Knows(p)'
    BY <1>0, <1>1, <1>2, <2>1 DEF Knows, InHand, KnowsRun, KnowsOutcome, KnowsOver
  <2> QED
    BY <1>1, <2>1, <2>3, <2>4, OpenWriteKept DEF Kept
<1>3. ASSUME Goto(p, "abort"), UNCHANGED task PROVE Kept(p)
  <2>1. ProcessesTyped' /\ OthersStill(p) /\ pc'[p] = "abort" /\ local'[p] = local[p]
    BY <1>0, <1>3, Moves DEF PC
  <2>2. Knows(p)'
    BY <1>0, <1>1, <2>1, PlainKnows DEF Plain
  <2> QED
    BY <1>1, <1>3, <2>1, <2>2, TablesSame DEF Kept
<1>4. local[p].gate \in DOMAIN Rank /\ "pending" \in DOMAIN Rank
  BY <1>0 DEF TypeOK, Local, Rank
<1>5. CASE Schedule(p)
  BY <1>2, <1>3, <1>4, <1>5 DEF Schedule, Advances
<1>6. CASE Wait(p)
  BY <1>2, <1>3, <1>4, <1>6 DEF Wait, Advances
<1>7. CASE Finish(p)
  <2>1. local[p].outcome \in {"failed", "cancelled"}
    BY <1>0, <1>7 DEF Finish, Knows, KnowsOutcome
  <2> QED
    BY <1>2, <1>3, <1>4, <1>7, <2>1 DEF Finish, Advances
<1> QED
  BY <1>5, <1>6, <1>7

\* advance_gate with the receipt.
LEMMA ReceiptKept ==
    ASSUME TaskInv, NEW p \in Workers, StoreReceipt(p)
    PROVE  Kept(p)
<1> USE DEF Processes
<1>0. TypeOK /\ Knows(p) /\ p \in Processes /\ p \notin Clients
  BY ProcessesAssumption DEF TaskInv
<1>1. requests' \in 0..MaxRequests /\ faults' \in 0..MaxFaults
      /\ UNCHANGED <<outbox, world>> /\ local[p].message # "ready"
  BY <1>0 DEF TypeOK, StoreReceipt, Knows, InHand
<1>2. local[p].gate \in DOMAIN Rank /\ local[p].receipt \in Stamps \cup {NoReceipt}
  BY <1>0 DEF TypeOK, Local
<1>3. local[p].receipt # NoReceipt /\ Earned /\ task.linked
  BY <1>0 DEF StoreReceipt, Knows, KnowsOutcome, KnowsRun
<1>4. CASE /\ Leased(p) /\ task.receipt \in {NoReceipt, local[p].receipt}
           /\ task' = [task EXCEPT !.gate = local[p].gate, !.receipt = local[p].receipt]
           /\ Goto(p, "revalidate")
  <2>1. ProcessesTyped' /\ OthersStill(p) /\ pc'[p] = "revalidate" /\ local'[p] = local[p]
    BY <1>0, <1>4, Moves DEF PC
  <2>2. task \in TaskRow /\ task' \in TaskRow
    BY <1>0, <1>2, <1>4, TaskRows DEF TypeOK
  <2>3. /\ task'.receipt = local[p].receipt /\ task'.linked = task.linked
        /\ task'.state = task.state /\ task'.needsCapsule = task.needsCapsule
        /\ task'.cancelRequested = task.cancelRequested
    BY <1>4, <2>2 DEF TaskRow
  <2>4. OpenWrite
    BY <1>1, <1>4, <2>2, <2>3 DEF OpenWrite, Leased
  <2>5. Earned'
    BY <1>1, <1>3, <2>3 DEF Earned, world
  <2>6. Knows(p)'
    BY <1>0, <1>1, <1>3, <2>1, <2>3, <2>5
       DEF Knows, InHand, KnowsRun, KnowsOutcome, KnowsOver
  <2> QED
    BY <1>1, <2>1, <2>4, <2>6, OpenWriteKept DEF Kept
<1>5. CASE Goto(p, "abort") /\ UNCHANGED task
  <2>1. ProcessesTyped' /\ OthersStill(p) /\ pc'[p] = "abort" /\ local'[p] = local[p]
    BY <1>0, <1>5, Moves DEF PC
  <2>2. Knows(p)'
    BY <1>0, <1>1, <2>1, PlainKnows DEF Plain
  <2> QED
    BY <1>1, <1>5, <2>1, <2>2, TablesSame DEF Kept
<1> QED
  BY <1>4, <1>5 DEF StoreReceipt, Advances

\* The lease is given back.
LEMMA ReleaseKept ==
    ASSUME TaskInv, NEW p \in Workers, Release(p) \/ Abort(p)
    PROVE  Kept(p)
<1> USE DEF Processes
<1>0. TypeOK /\ Knows(p) /\ p \in Processes /\ p \notin Clients
  BY ProcessesAssumption DEF TaskInv
<1>1. requests' \in 0..MaxRequests /\ faults' \in 0..MaxFaults
      /\ UNCHANGED <<outbox, world>> /\ local[p].message # "ready"
  BY <1>0 DEF TypeOK, Release, Abort, Knows, InHand
<1>2. ASSUME Leased(p), task' = Released PROVE OpenWrite
  <2>1. task \in TaskRow /\ Nobody \in Workers \cup {Nobody} /\ 0 \in 0..LeaseTicks
    BY <1>0, LeaseAssumption DEF TypeOK
  <2>2. task' = [task EXCEPT !.holder = Nobody, !.leaseLeft = 0] /\ task' \in TaskRow
    BY <1>2, <2>1, TaskRows DEF Released
  <2> QED
    BY <1>1, <1>2, <2>1, <2>2 DEF OpenWrite, Leased, TaskRow
<1>3. \/ Goto(p, "abort") \/ Leave(p)
      \/ Goto(p, "ack") /\ local[p].message # NoMessage
      \/ Goto(p, "retry") /\ local[p].message # NoMessage
  BY DEF Release, Abort, AfterHandling
<1>4. ProcessesTyped' /\ OthersStill(p) /\ Knows(p)'
  <2>1. CASE Goto(p, "abort")
    <3>1. ProcessesTyped' /\ OthersStill(p) /\ pc'[p] = "abort" /\ local'[p] = local[p]
      BY <1>0, <2>1, Moves DEF PC
    <3> QED
      BY <1>0, <1>1, <3>1, PlainKnows DEF Plain
  <2>2. CASE Leave(p)
    <3>1. ProcessesTyped' /\ OthersStill(p) /\ pc'[p] = "idle" /\ local'[p] = NoLocal
      BY <1>0, <2>2, Moves
    <3> QED
      BY <1>0, <3>1, PlainKnows, MessagesAssumption DEF Plain, NoLocal
  <2>3. CASE Goto(p, "ack") /\ local[p].message # NoMessage
    <3>1. ProcessesTyped' /\ OthersStill(p) /\ pc'[p] = "ack" /\ local'[p] = local[p]
      BY <1>0, <2>3, Moves DEF PC
    <3> QED
      BY <1>0, <1>1, <2>3, <3>1 DEF Knows, InHand, KnowsRun, KnowsOutcome, KnowsOver
  <2>4. CASE Goto(p, "retry") /\ local[p].message # NoMessage
    <3>1. ProcessesTyped' /\ OthersStill(p) /\ pc'[p] = "retry" /\ local'[p] = local[p]
      BY <1>0, <2>4, Moves DEF PC
    <3> QED
      BY <1>0, <1>1, <2>4, <3>1 DEF Knows, InHand, KnowsRun, KnowsOutcome, KnowsOver
  <2> QED
    BY <1>3, <2>1, <2>2, <2>3, <2>4
<1>5. CASE Leased(p) /\ task' = Released
  BY <1>1, <1>2, <1>4, <1>5, OpenWriteKept DEF Kept
<1>6. CASE UNCHANGED task
  BY <1>1, <1>4, <1>6, TablesSame DEF Kept
<1> QED
  BY <1>5, <1>6 DEF Release, Abort

-----------------------------------------------------------------------------

\* A write that stores the outcome.
ClosingWrite ==
    /\ UNCHANGED <<outbox, world>>
    /\ task.state \in {"pending", "running"} /\ task'.state \in Over
    /\ task' \in TaskRow
    /\ task'.readyPending /\ task'.holder = Nobody
    /\ task'.needsCapsule = task.needsCapsule /\ task'.linked = task.linked
    /\ task.cancelRequested => task'.cancelRequested
    /\ task'.receipt = task.receipt
    /\ task'.state = "succeeded" =>
          task.linked /\ task'.gate = "completed" /\ task.receipt # NoReceipt /\ Earned

\* It leaves the tables in order: the intent to tell goes with the outcome.
LEMMA ClosingWriteKept ==
    ASSUME TaskInv, ClosingWrite, ProcessesTyped',
           requests' \in 0..MaxRequests, faults' \in 0..MaxFaults
    PROVE  TypeOK' /\ StampLeft' /\ StateInv' /\ StoredForGood
<1> USE DEF TaskInv, ClosingWrite, world
<1>1. task.state \notin Over /\ task.state # "absent"
  BY DEF Over
<1>2. outbox["ready"].state = "absent" /\ turn = "none"
  BY <1>1 DEF RowsAgree, OutcomeReachesSession, TypeOK
<1>3. TypeOK'
  BY DEF TypeOK, ProcessesTyped
<1>4. StampLeft' /\ StoredForGood
  BY <1>1, <1>2 DEF StampLeft, StoredForGood, Over
<1>5. RowsAgree' /\ SubmittedMeansLinked' /\ OutcomeReachesSession'
  BY <1>1, <1>2 DEF RowsAgree, SubmittedMeansLinked, OutcomeReachesSession, Over
<1>6. SucceededMeansGated'
  BY DEF SucceededMeansGated, Earned
<1> QED
  BY <1>3, <1>4, <1>5, <1>6 DEF StateInv

\* finalize_task and complete_task, or what another process stored.
LEMMA CloseKept ==
    ASSUME TaskInv, NEW p \in Workers, Finalize(p) \/ Persist(p)
    PROVE  Kept(p)
<1> USE DEF Processes
<1>0. TypeOK /\ Knows(p) /\ p \in Processes /\ p \notin Clients
  BY ProcessesAssumption DEF TaskInv
<1>1. requests' \in 0..MaxRequests /\ faults' \in 0..MaxFaults
      /\ UNCHANGED <<outbox, world>> /\ local[p].message # "ready"
  BY <1>0 DEF TypeOK, Finalize, Persist, Knows, InHand
<1>2. ASSUME NEW outcome \in Over, Leased(p), Goto(p, "announce"),
             \/ /\ task' = [Completed(task, outcome) EXCEPT !.gate = "completed"]
                /\ task.linked /\ task.receipt # NoReceipt /\ Earned
             \/ task' = Completed(task, outcome) /\ outcome # "succeeded"
      PROVE  Kept(p)
  <2>1. ProcessesTyped' /\ OthersStill(p) /\ pc'[p] = "announce" /\ local'[p] = local[p]
    BY <1>0, <1>2, Moves DEF PC
  <2> DEFINE closed == Completed(task, outcome)
  <2>2. task \in TaskRow /\ closed \in TaskRow
    <3>1. task \in TaskRow /\ 0 \in 0..LeaseTicks
      BY <1>0, LeaseAssumption DEF TypeOK
    <3> QED
      BY <3>1, TaskRows DEF Completed
  <2>3. /\ closed.state = outcome /\ closed.readyPending /\ closed.holder = Nobody
        /\ closed.needsCapsule = task.needsCapsule /\ closed.linked = task.linked
        /\ closed.cancelRequested = task.cancelRequested
        /\ closed.receipt = task.receipt
    BY <2>2 DEF Completed, TaskRow
  <2> HIDE DEF closed
  <2>4. ClosingWrite
    <3>1. CASE task' = closed /\ outcome # "succeeded"
      BY <1>1, <1>2, <2>2, <2>3, <3>1 DEF ClosingWrite, Leased
    <3>2. CASE /\ task' = [closed EXCEPT !.gate = "completed"]
               /\ task.linked /\ task.receipt # NoReceipt /\ Earned
      <4>1. task' \in TaskRow
        BY <2>2, <3>2, TaskRows DEF Rank
      <4>2. /\ task'.state = closed.state /\ task'.readyPending = closed.readyPending
            /\ task'.holder = closed.holder /\ task'.needsCapsule = closed.needsCapsule
            /\ task'.linked = closed.linked /\ task'.gate = "completed"
            /\ task'.cancelRequested = closed.cancelRequested
            /\ task'.receipt = closed.receipt
        BY <2>2, <3>2 DEF TaskRow
      <4> QED
        BY <1>1, <1>2, <2>3, <3>2, <4>1, <4>2 DEF ClosingWrite, Leased
    <3> QED
      BY <1>2, <3>1, <3>2 DEF closed
  <2>5. Knows(p)'
    BY <1>0, <1>1, <2>1, <2>4
       DEF ClosingWrite, Knows, InHand, KnowsRun, KnowsOutcome, KnowsOver
  <2> QED
    BY <1>1, <2>1, <2>4, <2>5, ClosingWriteKept DEF Kept
<1>3. ASSUME Refused(p) PROVE Kept(p)
  <2>1. CASE task.state \in Over
    <3>1. ProcessesTyped' /\ OthersStill(p) /\ pc'[p] = "announceLate"
          /\ local'[p] = local[p] /\ UNCHANGED task
      BY <1>0, <1>3, <2>1, Moves DEF Refused, PC
    <3>2. Knows(p)'
      BY <1>0, <1>1, <2>1, <3>1 DEF Knows, InHand, KnowsRun, KnowsOutcome, KnowsOver
    <3> QED
      BY <1>1, <3>1, <3>2, TablesSame DEF Kept
  <2>2. CASE task.state \notin Over
    <3>1. ProcessesTyped' /\ OthersStill(p) /\ pc'[p] = "abort" /\ local'[p] = local[p]
          /\ UNCHANGED task
      BY <1>0, <1>3, <2>2, Moves DEF Refused, PC
    <3>2. Knows(p)'
      BY <1>0, <1>1, <3>1, PlainKnows DEF Plain
    <3> QED
      BY <1>1, <3>1, <3>2, TablesSame DEF Kept
  <2> QED
    BY <2>1, <2>2
<1>4. CASE Finalize(p)
  <2>1. task.linked /\ task.receipt # NoReceipt /\ Earned
    BY <1>0, <1>4 DEF Finalize, Knows, KnowsRun, KnowsOutcome
  <2>2. "succeeded" \in Over
    BY DEF Over
  <2> QED
    BY <1>2, <1>3, <1>4, <2>1, <2>2 DEF Finalize
<1>5. CASE Persist(p)
  <2>1. local[p].outcome \in {"failed", "cancelled"} /\ local[p].outcome \in Over
    BY <1>0, <1>5 DEF Persist, Knows, KnowsOutcome, Over
  <2> QED
    BY <1>2, <1>3, <1>5, <2>1 DEF Persist
<1> QED
  BY <1>4, <1>5

-----------------------------------------------------------------------------

\* A write to the Run: what was reached of it stays reached.
RunWrite ==
    /\ UNCHANGED <<outbox, task, turn>>
    /\ run' \in RunRow /\ StampLeft'
    /\ run'.state \notin {"absent", "validated"} =>
          task.linked \/ run.state \notin {"absent", "validated"}
    /\ run.collection # "pending" => run'.collection = run.collection
    /\ run.evidence # "open" => run'.evidence # "open"
    /\ run.capsule = "ready" => run'.capsule = "ready"
    /\ run.state = "succeeded" => run'.state = "succeeded" \/ task.cancelRequested

\* It leaves the tables in order: what a success needs stays true.
LEMMA RunWriteKept ==
    ASSUME TaskInv, RunWrite, ProcessesTyped',
           requests' \in 0..MaxRequests, faults' \in 0..MaxFaults
    PROVE  TypeOK' /\ StampLeft' /\ StateInv' /\ StoredForGood
<1> USE DEF TaskInv, RunWrite
<1>1. TypeOK'
  BY DEF TypeOK, ProcessesTyped
<1>2. StoredForGood
  BY DEF StoredForGood
<1>3. StateInv'
  BY DEF StateInv, RowsAgree, SubmittedMeansLinked, SucceededMeansGated,
         OutcomeReachesSession
<1> QED
  BY <1>1, <1>2, <1>3

\* What the transactions write to the row of the Run.
LEMMA RunRows ==
    ASSUME NEW r \in RunRow
    PROVE  /\ \A state \in {"absent", "validated", "submitting", "live"}
                              \cup TerminalRunStates :
                 [r EXCEPT !.state = state] \in RunRow
           /\ [r EXCEPT !.state = "live", !.job = TRUE] \in RunRow
           /\ \A s \in {"succeeded", "failed"} : [r EXCEPT !.collection = s] \in RunRow
           /\ \A capsule \in CapsuleState, stamp \in Stamps :
                 [r EXCEPT !.capsule = capsule, !.stamp = stamp] \in RunRow
           /\ \A evidence \in {"sealed", "broken"} :
                 [r EXCEPT !.evidence = evidence] \in RunRow
  BY DEF RunRow

\* prepare and enqueue_submission.
LEMMA SubmitKept ==
    ASSUME TaskInv, NEW p \in Workers, Prepare(p) \/ SubmitRun(p)
    PROVE  Kept(p)
<1> USE DEF Processes
<1>0. TypeOK /\ Knows(p) /\ p \in Processes /\ p \notin Clients
  BY ProcessesAssumption DEF TaskInv
<1>1. requests' \in 0..MaxRequests /\ UNCHANGED <<outbox, task, turn>>
      /\ local[p].message # "ready"
  BY <1>0 DEF TypeOK, Prepare, SubmitRun, Knows, InHand
<1>2. faults' \in 0..MaxFaults
  BY <1>0, BoundsAssumption DEF TypeOK, Prepare, SubmitRun, Fail
<1>3. ASSUME NEW place \in {"link", "schedule", "abort"}, Goto(p, place)
      PROVE  ProcessesTyped' /\ OthersStill(p) /\ Knows(p)'
  <2>1. ProcessesTyped' /\ OthersStill(p) /\ pc'[p] = place /\ local'[p] = local[p]
    BY <1>0, <1>3, Moves DEF PC
  <2> QED
    BY <1>0, <1>1, <2>1, PlainKnows DEF Plain
<1>4. ASSUME UNCHANGED run, ProcessesTyped', OthersStill(p), Knows(p)'
      PROVE  Kept(p)
  BY <1>1, <1>2, <1>4, TablesSame DEF Kept, world
<1>5. CASE Prepare(p)
  <2>1. CASE /\ run' = [run EXCEPT !.state = IF @ = "absent" THEN "validated" ELSE @]
             /\ Goto(p, "link")
    <3> DEFINE state == IF run.state = "absent" THEN "validated" ELSE run.state
    <3>1. run \in RunRow /\ run' = [run EXCEPT !.state = state]
          /\ state \in {"absent", "validated", "submitting", "live"} \cup TerminalRunStates
      BY <1>0, <2>1 DEF TypeOK, RunRow
    <3>2. run' \in RunRow
      BY <3>1, RunRows
    <3>3. RunWrite
      BY <1>1, <3>1, <3>2 DEF RunWrite, StampLeft, TaskInv, RunRow
    <3> QED
      BY <1>1, <1>2, <1>3, <2>1, <3>3, RunWriteKept DEF Kept
  <2>2. CASE Decide(p, "finish", "blocked", "failed") /\ UNCHANGED run
    <3>1. ProcessesTyped' /\ OthersStill(p) /\ pc'[p] = "finish"
          /\ local'[p].message = local[p].message /\ local'[p].outcome = "failed"
      BY <1>0, <2>2, Moves DEF PC, Rank, Over
    <3>2. Knows(p)'
      BY <1>0, <1>1, <3>1 DEF Knows, InHand, KnowsRun, KnowsOutcome, KnowsOver
    <3> QED
      BY <1>4, <2>2, <3>1, <3>2
  <2>3. CASE Goto(p, "abort") /\ UNCHANGED run
    BY <1>3, <1>4, <2>3
  <2> QED
    BY <1>5, <2>1, <2>2, <2>3 DEF Prepare
<1>6. CASE SubmitRun(p)
  <2>1. CASE /\ run' = [run EXCEPT !.state = IF @ = "validated" THEN "submitting" ELSE @]
             /\ Goto(p, "schedule")
    <3> DEFINE state == IF run.state = "validated" THEN "submitting" ELSE run.state
    <3>1. run \in RunRow /\ run' = [run EXCEPT !.state = state]
          /\ state \in {"absent", "validated", "submitting", "live"} \cup TerminalRunStates
      BY <1>0, <2>1 DEF TypeOK, RunRow
    <3>2. run' \in RunRow
      BY <3>1, RunRows
    <3>3. task.linked
      BY <1>0, <1>6 DEF SubmitRun, Knows, KnowsRun
    <3>4. RunWrite
      BY <1>1, <3>1, <3>2, <3>3 DEF RunWrite, StampLeft, TaskInv, RunRow
    <3> QED
      BY <1>1, <1>2, <1>3, <2>1, <3>4, RunWriteKept DEF Kept
  <2>2. CASE Goto(p, "abort") /\ UNCHANGED run
    BY <1>3, <1>4, <2>2
  <2> QED
    BY <1>6, <2>1, <2>2 DEF SubmitRun
<1> QED
  BY <1>5, <1>6

\* cancel of the RunService, for a worker or for the API.
LEMMA CancelKept ==
    ASSUME TaskInv, NEW p \in Processes, CancelRun(p)
    PROVE  Kept(p)
<1>0. TypeOK /\ Knows(p) /\ local[p].message # "ready"
  BY DEF TaskInv, CancelRun, Knows, InHand
<1>1. requests' \in 0..MaxRequests /\ UNCHANGED <<outbox, task, turn>>
      /\ faults' \in 0..MaxFaults
  BY <1>0 DEF TypeOK, CancelRun
<1>2. ProcessesTyped' /\ OthersStill(p) /\ Knows(p)'
  <2>1. CASE Leave(p)
    <3>1. ProcessesTyped' /\ OthersStill(p) /\ pc'[p] = "idle" /\ local'[p] = NoLocal
      BY <1>0, <2>1, Moves
    <3> QED
      BY <3>1, MessagesAssumption
         DEF NoLocal, Knows, InHand, KnowsRun, KnowsOutcome, KnowsOver
  <2>2. CASE p \notin Clients /\ Decide(p, "finish", "cancelled", "cancelled")
    <3>1. ProcessesTyped' /\ OthersStill(p) /\ pc'[p] = "finish"
          /\ local'[p].message = local[p].message /\ local'[p].outcome = "cancelled"
      BY <1>0, <2>2, Moves DEF PC, Rank, Over
    <3> QED
      BY <1>0, <2>2, <3>1 DEF Knows, InHand, KnowsRun, KnowsOutcome, KnowsOver
  <2> QED
    BY <2>1, <2>2 DEF CancelRun
<1>3. RunWrite
  <2>1. run \in RunRow /\ run' = [run EXCEPT !.state = "cancelled"]
    BY <1>0 DEF TypeOK, CancelRun
  <2>2. run' \in RunRow
    BY <2>1, RunRows DEF TerminalRunStates
  <2>3. task.linked /\ task.cancelRequested
    BY <1>0 DEF CancelRun, Knows, KnowsRun
  <2> QED
    BY <1>1, <2>1, <2>2, <2>3 DEF RunWrite, StampLeft, TaskInv, RunRow
<1> QED
  BY <1>1, <1>2, <1>3, RunWriteKept DEF Kept

\* verify_terminal_gate.
LEMMA VerifyKept ==
    ASSUME TaskInv, NEW p \in Workers, Verify(p)
    PROVE  Kept(p)
<1> USE DEF Processes
<1>0. TypeOK /\ Knows(p) /\ p \in Processes /\ p \notin Clients
  BY ProcessesAssumption DEF TaskInv
<1>1. requests' \in 0..MaxRequests /\ UNCHANGED <<outbox, task, turn>>
      /\ local[p].message # "ready" /\ task.linked
      /\ (local[p].capsule = "ready" => run.capsule = "ready")
  BY <1>0 DEF TypeOK, Verify, Knows, InHand, KnowsRun
<1>2. faults' \in 0..MaxFaults
  BY <1>0, BoundsAssumption DEF TypeOK, Verify, Fail
<1>3. ASSUME NEW place \in {"finish", "wait"}, pc'[p] = place,
             local'[p].message = local[p].message,
             place = "finish" => local'[p].outcome = "failed"
      PROVE  Knows(p)'
  BY <1>0, <1>1, <1>3 DEF Knows, InHand, KnowsRun, KnowsOutcome, KnowsOver
<1>4. CASE UNCHANGED run /\ \/ Decide(p, "finish", "blocked", "failed")
                            \/ Decide(p, "wait", "awaiting_evidence", "none")
  <2>1. PICK place \in {"finish", "wait"} :
           /\ ProcessesTyped' /\ OthersStill(p) /\ pc'[p] = place
           /\ local'[p].message = local[p].message
           /\ place = "finish" => local'[p].outcome = "failed"
    BY <1>0, <1>4, Moves DEF PC, Rank, Over
  <2> QED
    BY <1>1, <1>2, <1>3, <1>4, <2>1, TablesSame DEF Kept, world
<1>5. CASE /\ Verifiable /\ run' = Sealed(run)
           /\ LET next == GateOf(local[p].capsule)
              IN  /\ pc' = [pc EXCEPT ![p] = next[1]]
                  /\ local' = [local EXCEPT ![p].gate = next[2], ![p].outcome = "failed",
                                            ![p].receipt = run.stamp]
  <2>1. run \in RunRow /\ run' = [run EXCEPT !.evidence = "sealed"]
    BY <1>0, <1>5 DEF TypeOK, Sealed
  <2>2. run' \in RunRow
    BY <2>1, RunRows
  <2>3. RunWrite
    BY <1>1, <2>1, <2>2 DEF RunWrite, StampLeft, TaskInv, RunRow
  <2>4. PICK place \in {"gate", "finish", "wait"}, gate \in DOMAIN Rank :
           /\ GateOf(local[p].capsule) = <<place, gate>>
           /\ place = "gate" => (task.needsCapsule => local[p].capsule = "ready")
    BY <1>0 DEF TypeOK, TaskRow, GateOf, Rank
  <2>5. run.stamp \in Stamps \cup {NoReceipt} /\ run.stamp # NoReceipt
    BY <2>1 DEF RunRow, Stamps, NoReceipt
  <2>6. /\ pc' = [pc EXCEPT ![p] = place]
        /\ local' = [local EXCEPT ![p].gate = gate, ![p].outcome = "failed",
                                  ![p].receipt = run.stamp]
    BY <1>5, <2>4
  <2>7. /\ ProcessesTyped' /\ OthersStill(p) /\ pc'[p] = place
        /\ local'[p].message = local[p].message
        /\ local'[p].outcome = "failed" /\ local'[p].receipt = run.stamp
    <3>1. local'[p] = [local[p] EXCEPT !.gate = gate, !.outcome = "failed",
                                       !.receipt = run.stamp]
      BY <1>0, <2>6 DEF TypeOK
    <3>2. local[p] \in Local /\ "failed" \in Over \cup {"none"}
      BY <1>0 DEF TypeOK, Over
    <3>3. \A outcome \in Over \cup {"none"}, receipt \in Stamps \cup {NoReceipt} :
             [local[p] EXCEPT !.gate = gate, !.outcome = outcome, !.receipt = receipt]
                \in Local
      BY <3>2 DEF Local
    <3>4. local'[p] \in Local
      BY <2>5, <3>1, <3>2, <3>3
    <3>5. local'[p].message = local[p].message
          /\ local'[p].outcome = "failed" /\ local'[p].receipt = run.stamp
      BY <3>1, <3>2 DEF Local
    <3>6. \A q \in Processes \ {p} : pc'[q] = pc[q] /\ local'[q] = local[q]
      BY <1>0, <2>6 DEF TypeOK
    <3>7. pc' \in [Processes -> PC] /\ pc'[p] = place /\ pc'[p] # "idle"
      BY <1>0, <2>6 DEF TypeOK, PC
    <3>8. DOMAIN local' = Processes /\ local' = [q \in Processes |-> local'[q]]
      BY <1>0, <2>6 DEF TypeOK
    <3>9. \A q \in Processes :
             local'[q] \in Local /\ (pc'[q] = "idle" => local'[q] = NoLocal)
      BY <1>0, <3>4, <3>6, <3>7 DEF TypeOK
    <3> QED
      BY <3>5, <3>6, <3>7, <3>8, <3>9 DEF ProcessesTyped, OthersStill
  <2>8. Knows(p)'
    <3>1. CASE place = "gate"
      <4>1. Earned'
        BY <1>1, <1>5, <2>1, <2>4, <3>1 DEF Earned, Verifiable, RunRow
      <4> QED
        BY <1>0, <1>1, <2>5, <2>7, <3>1, <4>1
           DEF Knows, InHand, KnowsRun, KnowsOutcome, KnowsOver
    <3>2. CASE place \in {"finish", "wait"}
      BY <1>3, <2>7, <3>2
    <3> QED
      BY <3>1, <3>2
  <2> QED
    BY <1>1, <1>2, <2>3, <2>7, <2>8, RunWriteKept DEF Kept
<1> QED
  BY <1>4, <1>5 DEF Verify

\* _revalidate_terminal_receipt.
LEMMA RevalidateKept ==
    ASSUME TaskInv, NEW p \in Workers, Revalidate(p)
    PROVE  Kept(p)
<1> USE DEF Processes
<1>0. TypeOK /\ Knows(p) /\ p \in Processes /\ p \notin Clients
  BY ProcessesAssumption DEF TaskInv
<1>1. requests' \in 0..MaxRequests /\ UNCHANGED <<outbox, task, world>>
      /\ local[p].message # "ready" /\ faults' \in 0..MaxFaults
  BY <1>0, BoundsAssumption DEF TypeOK, Revalidate, Fail, Knows, InHand
<1>2. CASE Goto(p, "finalize")
  <2>1. ProcessesTyped' /\ OthersStill(p) /\ pc'[p] = "finalize" /\ local'[p] = local[p]
    BY <1>0, <1>2, Moves DEF PC
  <2>2. local[p].receipt # NoReceipt /\ task.receipt # NoReceipt /\ Earned /\ task.linked
    BY <1>0 DEF Revalidate, Knows, KnowsOutcome, KnowsRun
  <2>3. Knows(p)'
    BY <1>0, <1>1, <2>1, <2>2
       DEF Knows, InHand, KnowsRun, KnowsOutcome, KnowsOver, Earned, world
  <2> QED
    BY <1>1, <2>1, <2>3, TablesSame DEF Kept
<1>3. CASE Decide(p, "finish", "blocked", "failed")
  <2>1. ProcessesTyped' /\ OthersStill(p) /\ pc'[p] = "finish"
        /\ local'[p].message = local[p].message /\ local'[p].outcome = "failed"
    BY <1>0, <1>3, Moves DEF PC, Rank, Over
  <2>2. Knows(p)'
    BY <1>0, <1>1, <2>1 DEF Knows, InHand, KnowsRun, KnowsOutcome, KnowsOver
  <2> QED
    BY <1>1, <2>1, <2>2, TablesSame DEF Kept
<1> QED
  BY <1>2, <1>3 DEF Revalidate

-----------------------------------------------------------------------------

\* A write to the outbox: no row goes, and the ready message is done with only
\* when the Turn is there.
OutboxWrite ==
    /\ UNCHANGED <<task, world>>
    /\ outbox' \in [Messages -> Row]
    /\ outbox["ready"].state # "absent" => outbox'["ready"].state # "absent"
    /\ outbox'["ready"].state # "absent" => task.state \in Over
    /\ outbox'["ready"].state = "succeeded" => turn # "none"

\* It leaves the tables in order.
LEMMA OutboxWriteKept ==
    ASSUME TaskInv, OutboxWrite, ProcessesTyped',
           requests' \in 0..MaxRequests, faults' \in 0..MaxFaults
    PROVE  TypeOK' /\ StampLeft' /\ StateInv' /\ StoredForGood
<1> USE DEF TaskInv, OutboxWrite, world
<1>1. TypeOK'
  BY DEF TypeOK, ProcessesTyped
<1>2. StampLeft' /\ StoredForGood
  BY DEF StampLeft, StoredForGood
<1>3. StateInv'
  BY DEF StateInv, RowsAgree, SubmittedMeansLinked, SucceededMeansGated,
         OutcomeReachesSession
<1> QED
  BY <1>1, <1>2, <1>3

\* A transaction on one message is such a write when what it makes of the ready
\* message is.
LEMMA OneRow ==
    ASSUME TaskInv, UNCHANGED <<task, world>>, NEW m \in Messages, NEW row \in Row,
           outbox' = [outbox EXCEPT ![m] = row],
           row.state # "absent",
           m = "ready" => task.state \in Over,
           m = "ready" /\ row.state = "succeeded" => turn # "none"
    PROVE  OutboxWrite
<1> USE DEF TaskInv
<1>1. "ready" \in Messages /\ outbox \in [Messages -> Row]
  BY MessagesAssumption DEF TypeOK
<1>2. outbox' \in [Messages -> Row]
  BY <1>1
<1>3. outbox'["ready"] = IF m = "ready" THEN row ELSE outbox["ready"]
  BY <1>1
<1> QED
  BY <1>1, <1>2, <1>3 DEF OutboxWrite, RowsAgree, OutcomeReachesSession

\* INSERT OR IGNORE of a message, the ready one for a task that is over.
LEMMA InsertWrites ==
    ASSUME TaskInv, UNCHANGED <<task, world>>, NEW m \in Messages, InsertMessage(m),
           m = "ready" => task.state \in Over
    PROVE  OutboxWrite
<1> DEFINE row == [outbox[m] EXCEPT !.state = "pending"]
<1>1. outbox[m] \in Row
  BY DEF TaskInv, TypeOK
<1>2. row \in Row /\ row.state = "pending"
  BY <1>1, RowSteps DEF Row
<1>3. outbox' = [outbox EXCEPT ![m] = row]
  BY <1>1 DEF InsertMessage, TaskInv, TypeOK
<1> HIDE DEF row
<1> QED
  BY <1>2, <1>3, OneRow

\* The message of the tool call, and that of its repetition.
LEMMA EnqueueKept ==
    ASSUME TaskInv, NEW c \in Clients, Enqueue(c)
    PROVE  Kept(c)
<1> USE DEF Processes
<1>0. TypeOK /\ c \in Processes
  BY DEF TaskInv
<1>1. UNCHANGED <<task, world>> /\ requests' \in 0..MaxRequests /\ faults' \in 0..MaxFaults
  BY <1>0 DEF TypeOK, Enqueue
<1>2. OutboxWrite
  BY <1>1, InsertWrites, MessagesAssumption DEF Enqueue
<1>3. ProcessesTyped' /\ OthersStill(c) /\ pc'[c] = "idle" /\ local'[c] = NoLocal
  BY <1>0, Moves DEF Enqueue
<1>4. Knows(c)'
  BY <1>3, MessagesAssumption
     DEF NoLocal, Knows, InHand, KnowsRun, KnowsOutcome, KnowsOver
<1> QED
  BY <1>1, <1>2, <1>3, <1>4, OutboxWriteKept DEF Kept

\* claim_outbox.
LEMMA ClaimKept ==
    ASSUME TaskInv, NEW p \in Workers, NEW m \in Messages, ClaimTaskMessage(p, m)
    PROVE  Kept(p)
<1> USE DEF Processes
<1>0. TypeOK /\ Knows(p) /\ p \in Processes /\ p \notin Clients
  BY ProcessesAssumption DEF TaskInv
<1>1. UNCHANGED <<task, world>> /\ requests' \in 0..MaxRequests /\ faults' \in 0..MaxFaults
  BY <1>0 DEF TypeOK, ClaimTaskMessage
<1>2. outbox[m] \in Row /\ outbox[m].state # "absent"
  BY <1>0 DEF TypeOK, ClaimTaskMessage, ClaimMessage, Claimable
<1>3. m = "ready" => task.state \in Over
  BY <1>2 DEF TaskInv, RowsAgree
<1>4. ClaimedRow(outbox[m], IdOf[p]) \in Row
      /\ ClaimedRow(outbox[m], IdOf[p]).state = "running"
  BY <1>2, RowSteps, ProcessesAssumption DEF ClaimedRow
<1>5. outbox' = [outbox EXCEPT ![m] = ClaimedRow(outbox[m], IdOf[p])]
  BY DEF ClaimTaskMessage, ClaimMessage
<1>6. OutboxWrite
  BY <1>1, <1>3, <1>4, <1>5, OneRow
<1>7. outbox'[m].fencingToken \in Nat
  BY <1>6 DEF OutboxWrite, Row
<1> DEFINE place == IF m = "ready" THEN "wake" ELSE "read"
           mineNow == [NoLocal EXCEPT !.message = m, !.token = outbox'[m].fencingToken]
<1>8. mineNow \in Local /\ mineNow.message = m
  BY <1>7 DEF NoLocal, Local, Rank, Over, CapsuleState
<1>9. ProcessesTyped' /\ OthersStill(p) /\ pc'[p] = place /\ local'[p].message = m
  BY <1>0, <1>8 DEF ClaimTaskMessage, TypeOK, ProcessesTyped, OthersStill, PC
<1>10. Knows(p)'
  BY <1>0, <1>1, <1>3, <1>9, MessagesAssumption
     DEF Knows, InHand, KnowsRun, KnowsOutcome, KnowsOver
<1> QED
  BY <1>1, <1>6, <1>9, <1>10, OutboxWriteKept DEF Kept

\* acknowledge and retry, fenced or too late.
LEMMA SettleKept ==
    ASSUME TaskInv, NEW p \in Workers, Acknowledge(p) \/ Retry(p)
    PROVE  Kept(p)
<1> USE DEF Processes
<1> DEFINE m == local[p].message
<1>0. TypeOK /\ Knows(p) /\ p \in Processes /\ p \notin Clients
  BY ProcessesAssumption DEF TaskInv
<1>1. UNCHANGED <<task, world>> /\ requests' \in 0..MaxRequests /\ faults' \in 0..MaxFaults
  BY <1>0 DEF TypeOK, Acknowledge, Retry
<1>2. m \in Messages /\ outbox[m] \in Row
  BY <1>0 DEF TypeOK, Local, Acknowledge, Retry, Knows, InHand
<1>3. ProcessesTyped' /\ OthersStill(p) /\ pc'[p] = "idle" /\ local'[p] = NoLocal
  BY <1>0, Moves DEF Acknowledge, Retry
<1>4. Knows(p)'
  BY <1>0, <1>3, PlainKnows, MessagesAssumption DEF Plain, NoLocal
<1>5. CASE UNCHANGED outbox
  BY <1>1, <1>3, <1>4, <1>5, TablesSame DEF Kept
<1>6. ASSUME HoldsMyMessage(p) PROVE m = "ready" => task.state \in Over
  BY <1>6 DEF TaskInv, RowsAgree, HoldsMyMessage, Holds
<1>7. CASE Acknowledge(p) /\ HoldsMyMessage(p)
  <2>1. FinishedRow(outbox[m], "succeeded", 0) \in Row
        /\ FinishedRow(outbox[m], "succeeded", 0).state = "succeeded"
    BY <1>2, RowSteps DEF FinishedRow, MessageState
  <2>2. outbox' = [outbox EXCEPT ![m] = FinishedRow(outbox[m], "succeeded", 0)]
    BY <1>7 DEF Acknowledge, AcknowledgeMessage
  <2>3. m = "ready" => turn # "none"
    BY <1>0, <1>7 DEF Acknowledge, Knows, KnowsOver
  <2> HIDE DEF m
  <2>4. OutboxWrite
    BY <1>1, <1>2, <1>6, <1>7, <2>1, <2>2, <2>3, OneRow
  <2> QED
    BY <1>1, <1>3, <1>4, <2>4, OutboxWriteKept DEF Kept
<1>8. CASE Retry(p) /\ HoldsMyMessage(p)
  <2> DEFINE target == RetryTarget(m, MaxAttempts)
             delay == IF target = "pending" THEN RetryTicks ELSE 0
             row == FinishedRow(outbox[m], target, delay)
  <2>1. target \in {"pending", "dead_letter"} /\ delay \in Nat
    BY RetryAssumption DEF RetryTarget
  <2>2. outbox' = [outbox EXCEPT ![m] = row]
    BY <1>8 DEF Retry, RetryMessage
  <2> HIDE DEF target, delay
  <2>3. row \in Row /\ row.state = target
    BY <1>2, <2>1, RowSteps DEF FinishedRow, MessageState
  <2> HIDE DEF m, row
  <2>4. OutboxWrite
    BY <1>1, <1>2, <1>6, <1>8, <2>1, <2>2, <2>3, OneRow
  <2> QED
    BY <1>1, <1>3, <1>4, <2>4, OutboxWriteKept DEF Kept
<1> QED
  BY <1>5, <1>7, <1>8 DEF Acknowledge, Retry

\* create_turn of the follow-up Turn.
LEMMA WakeKept ==
    ASSUME TaskInv, NEW p \in Workers, Wake(p)
    PROVE  Kept(p)
<1> USE DEF Processes
<1>0. TypeOK /\ Knows(p) /\ p \in Processes /\ p \notin Clients
  BY ProcessesAssumption DEF TaskInv
<1>1. requests' \in 0..MaxRequests /\ faults' \in 0..MaxFaults
      /\ UNCHANGED <<outbox, task, run>>
  BY <1>0 DEF TypeOK, Wake
<1>2. task.state \in Over /\ local[p].message # NoMessage
  BY <1>0 DEF Wake, Knows, InHand, KnowsOver
<1>3. PICK place \in {"ack", "retry"} :
         Goto(p, place) /\ (place = "ack" => turn' # "none")
  BY <1>2 DEF Wake, Over
<1>4. ProcessesTyped' /\ OthersStill(p) /\ pc'[p] = place /\ local'[p] = local[p]
  BY <1>0, <1>3, Moves DEF PC
<1>5. Knows(p)'
  BY <1>0, <1>2, <1>3, <1>4 DEF Knows, InHand, KnowsRun, KnowsOutcome, KnowsOver
<1>6. CASE UNCHANGED turn
  BY <1>1, <1>4, <1>5, <1>6, TablesSame DEF Kept, world
<1>7. CASE turn = "none" /\ turn' = task.state
  <2>1. TypeOK'
    BY <1>0, <1>1, <1>2, <1>4, <1>7 DEF TypeOK, ProcessesTyped
  <2>2. StampLeft' /\ StoredForGood
    BY <1>1, <1>7 DEF TaskInv, StampLeft, StoredForGood
  <2>3. StateInv'
    BY <1>1, <1>2, <1>7 DEF TaskInv, StateInv, RowsAgree, SubmittedMeansLinked,
       SucceededMeansGated, OutcomeReachesSession, Over
  <2> QED
    BY <1>4, <1>5, <2>1, <2>2, <2>3 DEF Kept
<1> QED
  BY <1>6, <1>7 DEF Wake

\* _enqueue_ready: the message, then the mark on the row.
LEMMA AnnounceKept ==
    ASSUME TaskInv, NEW p \in Processes, Announce(p)
    PROVE  Kept(p)
<1>0. TypeOK /\ Knows(p)
  BY DEF TaskInv
<1>1. requests' \in 0..MaxRequests /\ faults' \in 0..MaxFaults
      /\ UNCHANGED <<task, world>>
  BY <1>0 DEF TypeOK, Announce
<1>2. task.state \in Over /\ local[p].message # "ready"
  BY <1>0 DEF Announce, Knows, InHand, KnowsOver
<1>3. PICK place \in {"mark", "markLate"} :
         Goto(p, place) /\ (p \in Clients => place = "mark")
  BY <1>0 DEF Announce, Knows, InHand
<1>4. ProcessesTyped' /\ OthersStill(p) /\ pc'[p] = place /\ local'[p] = local[p]
  BY <1>0, <1>3, Moves DEF PC
<1>5. ASSUME outbox'["ready"].state # "absent" PROVE Knows(p)'
  BY <1>0, <1>2, <1>3, <1>4, <1>5 DEF Knows, InHand, KnowsRun, KnowsOutcome, KnowsOver
<1>6. CASE InsertMessage("ready")
  <2>1. OutboxWrite
    BY <1>1, <1>2, <1>6, InsertWrites, MessagesAssumption
  <2>2. outbox'["ready"].state # "absent"
    BY <1>0, <1>6, MessagesAssumption DEF InsertMessage, TypeOK, Row
  <2> QED
    BY <1>1, <1>4, <1>5, <2>1, <2>2, OutboxWriteKept DEF Kept
<1>7. CASE outbox["ready"].state # "absent" /\ UNCHANGED outbox
  BY <1>1, <1>4, <1>5, <1>7, TablesSame DEF Kept
<1> QED
  BY <1>6, <1>7 DEF Announce

\* The mark: the message is there, so the intent may go.
LEMMA MarkKept ==
    ASSUME TaskInv, NEW p \in Processes, Mark(p)
    PROVE  Kept(p)
<1>0. TypeOK /\ Knows(p) /\ local[p].message # "ready"
  BY DEF TaskInv, Mark, Knows, InHand
<1>1. requests' \in 0..MaxRequests /\ faults' \in 0..MaxFaults
      /\ UNCHANGED <<outbox, world>>
  BY <1>0 DEF TypeOK, Mark
<1>2. outbox["ready"].state # "absent" /\ task.state \in Over
  BY <1>0 DEF Mark, Knows, KnowsOver, TaskInv, RowsAgree
<1>3. ProcessesTyped' /\ OthersStill(p) /\ Knows(p)'
  <2>1. CASE Leave(p)
    <3>1. ProcessesTyped' /\ OthersStill(p) /\ pc'[p] = "idle" /\ local'[p] = NoLocal
      BY <1>0, <2>1, Moves
    <3> QED
      BY <3>1, MessagesAssumption
         DEF NoLocal, Knows, InHand, KnowsRun, KnowsOutcome, KnowsOver
  <2>2. CASE \/ Goto(p, "ack") /\ local[p].message # NoMessage
             \/ Goto(p, "abort") /\ pc[p] = "markLate"
    <3>1. PICK place \in {"ack", "abort"} :
             /\ ProcessesTyped' /\ OthersStill(p)
             /\ pc'[p] = place /\ local'[p] = local[p]
             /\ place = "ack" => local[p].message # NoMessage
             /\ p \notin Clients
      BY <1>0, <2>2, Moves DEF PC, Knows, InHand
    <3> QED
      BY <1>0, <3>1 DEF Knows, InHand, KnowsRun, KnowsOutcome, KnowsOver
  <2> QED
    BY <2>1, <2>2 DEF Mark, AfterHandling
<1>4. /\ task \in TaskRow /\ task' \in TaskRow
      /\ task' = [task EXCEPT !.readyPending = FALSE]
  BY <1>0, TaskRows DEF TypeOK, Mark
<1>5. /\ task'.state = task.state /\ task'.gate = task.gate
      /\ task'.holder = task.holder /\ task'.needsCapsule = task.needsCapsule
      /\ task'.linked = task.linked /\ task'.receipt = task.receipt
      /\ task'.cancelRequested = task.cancelRequested
  BY <1>4 DEF TaskRow
<1>6. TypeOK'
  BY <1>0, <1>1, <1>3, <1>4, <1>5 DEF TypeOK, ProcessesTyped, world
<1>7. StampLeft' /\ StoredForGood
  BY <1>1, <1>5 DEF TaskInv, StampLeft, StoredForGood, world
<1>8. StateInv'
  BY <1>1, <1>2, <1>5 DEF TaskInv, StateInv, RowsAgree, SubmittedMeansLinked,
     SucceededMeansGated, OutcomeReachesSession, world
<1> QED
  BY <1>3, <1>6, <1>7, <1>8 DEF Kept

-----------------------------------------------------------------------------

\* create_task.
LEMMA CreateKept ==
    ASSUME TaskInv, NEW c \in Clients, CreateTask(c)
    PROVE  Kept(c)
<1> USE DEF Processes
<1>0. TypeOK /\ c \in Processes /\ Knows(c) /\ pc[c] = "idle"
  BY DEF TaskInv, CreateTask
<1>1. requests' \in 0..MaxRequests /\ faults' \in 0..MaxFaults
      /\ UNCHANGED <<outbox, world>> /\ task.state = "absent"
  BY <1>0 DEF TypeOK, CreateTask
<1>2. ProcessesTyped' /\ OthersStill(c) /\ pc'[c] = "enqueue" /\ local'[c] = local[c]
  BY <1>0, Moves DEF CreateTask, PC
<1>3. Knows(c)'
  <2>1. local[c].message = NoMessage
    BY <1>0 DEF Knows, InHand
  <2> QED
    BY <1>2, <2>1, MessagesAssumption
       DEF Knows, InHand, KnowsRun, KnowsOutcome, KnowsOver
<1>4. /\ task \in TaskRow /\ task' \in TaskRow
      /\ \E capsule \in BOOLEAN :
            task' = [task EXCEPT !.state = "pending", !.needsCapsule = capsule]
  BY <1>0, TaskRows DEF TypeOK, CreateTask
<1>5. /\ task'.state = "pending" /\ task'.holder = task.holder
      /\ task'.linked = task.linked /\ task'.receipt = task.receipt
      /\ task'.cancelRequested = task.cancelRequested
  BY <1>4 DEF TaskRow
<1>6. outbox["ready"].state = "absent" /\ turn = "none" /\ ~task.linked
  BY <1>0, <1>1 DEF TaskInv, RowsAgree, OutcomeReachesSession, TypeOK, TaskRow, Over
<1>7. TypeOK'
  BY <1>0, <1>1, <1>2, <1>4, <1>5 DEF TypeOK, ProcessesTyped, world
<1>8. StampLeft' /\ StoredForGood
  BY <1>1, <1>5, <1>6 DEF TaskInv, StampLeft, StoredForGood, world, Over
<1>9. StateInv'
  BY <1>1, <1>5, <1>6 DEF TaskInv, StateInv, RowsAgree, SubmittedMeansLinked,
     SucceededMeansGated, OutcomeReachesSession, world, Over
<1> QED
  BY <1>2, <1>3, <1>7, <1>8, <1>9 DEF Kept

\* request_cancel, of a task nobody has begun and of one that runs.
LEMMA RequestCancelKept ==
    ASSUME TaskInv, NEW c \in Clients, RequestCancel(c)
    PROVE  Kept(c)
<1> USE DEF Processes
<1>0. TypeOK /\ c \in Processes /\ Knows(c) /\ pc[c] = "idle"
  BY DEF TaskInv, RequestCancel
<1>1. requests' \in 0..MaxRequests /\ faults' \in 0..MaxFaults
      /\ UNCHANGED <<outbox, world>> /\ task \in TaskRow
  BY <1>0, BoundsAssumption DEF TypeOK, RequestCancel, Ask
<1>2. local[c].message = NoMessage
  BY <1>0 DEF Knows, InHand
<1>3. CASE /\ task.state = "pending" /\ Goto(c, "announce")
           /\ task' = [Completed(task, "cancelled") EXCEPT !.cancelRequested = TRUE]
  <2>1. ProcessesTyped' /\ OthersStill(c) /\ pc'[c] = "announce" /\ local'[c] = local[c]
    BY <1>0, <1>3, Moves DEF PC
  <2> DEFINE closed == Completed(task, "cancelled")
  <2>2. closed \in TaskRow
    <3>1. 0 \in 0..LeaseTicks /\ "cancelled" \in Over
      BY LeaseAssumption DEF Over
    <3> QED
      BY <1>1, <3>1, TaskRows DEF Completed
  <2>3. /\ closed.state = "cancelled" /\ closed.readyPending /\ closed.holder = Nobody
        /\ closed.needsCapsule = task.needsCapsule /\ closed.linked = task.linked
        /\ closed.receipt = task.receipt
    BY <1>1 DEF Completed, TaskRow
  <2> HIDE DEF closed
  <2>4. task' = [closed EXCEPT !.cancelRequested = TRUE] /\ task' \in TaskRow
    <3>1. task' = [closed EXCEPT !.cancelRequested = TRUE]
      BY <1>3 DEF closed
    <3> QED
      BY <2>2, <3>1, TaskRows
  <2>5. /\ task'.state = closed.state /\ task'.readyPending = closed.readyPending
        /\ task'.holder = closed.holder /\ task'.needsCapsule = closed.needsCapsule
        /\ task'.linked = closed.linked /\ task'.receipt = closed.receipt
        /\ task'.cancelRequested
    BY <2>2, <2>4 DEF TaskRow
  <2>6. ClosingWrite
    BY <1>1, <1>3, <2>3, <2>4, <2>5 DEF ClosingWrite, Over
  <2>7. Knows(c)'
    BY <1>2, <2>1, <2>6, MessagesAssumption
       DEF ClosingWrite, Knows, InHand, KnowsRun, KnowsOutcome, KnowsOver
  <2> QED
    BY <1>1, <2>1, <2>6, <2>7, ClosingWriteKept DEF Kept
<1>4. CASE /\ task.state = "running" /\ task' = [task EXCEPT !.cancelRequested = TRUE]
           /\ IF task.linked THEN Goto(c, "cancelRun") ELSE UNCHANGED mine
  <2>1. task' \in TaskRow
    BY <1>1, <1>4, TaskRows
  <2>2. OpenWrite /\ task'.cancelRequested /\ task'.linked = task.linked
    BY <1>1, <1>4, <2>1 DEF OpenWrite, TaskRow
  <2>3. ProcessesTyped' /\ OthersStill(c) /\ Knows(c)'
    <3>1. CASE task.linked /\ Goto(c, "cancelRun")
      <4>1. /\ ProcessesTyped' /\ OthersStill(c)
            /\ pc'[c] = "cancelRun" /\ local'[c] = local[c]
        BY <1>0, <3>1, Moves DEF PC
      <4> QED
        BY <1>2, <2>2, <3>1, <4>1, MessagesAssumption
           DEF Knows, InHand, KnowsRun, KnowsOutcome, KnowsOver
    <3>2. CASE UNCHANGED mine
      <4>1. ProcessesTyped' /\ OthersStill(c) /\ pc'[c] = "idle" /\ local'[c] = local[c]
        BY <1>0, <3>2 DEF mine, TypeOK, ProcessesTyped, OthersStill
      <4> QED
        BY <1>2, <4>1, MessagesAssumption
           DEF Knows, InHand, KnowsRun, KnowsOutcome, KnowsOver
    <3> QED
      BY <1>4, <3>1, <3>2
  <2> QED
    BY <1>1, <2>2, <2>3, OpenWriteKept DEF Kept
<1> QED
  BY <1>3, <1>4 DEF RequestCancel

\* A process that dies forgets what it knew.
LEMMA CrashKept ==
    ASSUME TaskInv, NEW p \in Processes, Crash(p)
    PROVE  Kept(p)
<1>0. TypeOK
  BY DEF TaskInv
<1>1. requests' \in 0..MaxRequests /\ faults' \in 0..MaxFaults
      /\ UNCHANGED <<outbox, task, world>>
  BY <1>0, BoundsAssumption DEF TypeOK, Crash, Fail
<1>2. ProcessesTyped' /\ OthersStill(p) /\ pc'[p] = "idle" /\ local'[p] = NoLocal
  BY <1>0, Moves DEF Crash
<1>3. Knows(p)'
  BY <1>2, MessagesAssumption
     DEF NoLocal, Knows, InHand, KnowsRun, KnowsOutcome, KnowsOver
<1> QED
  BY <1>1, <1>2, <1>3, TablesSame DEF Kept

\* What no process does.
Around == TypeOK' /\ StampLeft' /\ StateInv' /\ StoredForGood /\ UNCHANGED mine

\* The call of a client that repeats it, and the end of the envelope.
LEMMA RepeatKept ==
    ASSUME TaskInv, Expire \/ \E c \in Clients : RepeatCall(c)
    PROVE  Around
<1>0. TypeOK /\ UNCHANGED mine /\ UNCHANGED world
  BY DEF TaskInv, Expire, RepeatCall
<1>1. requests' \in 0..MaxRequests /\ faults' \in 0..MaxFaults
  BY <1>0, BoundsAssumption DEF TypeOK, Expire, RepeatCall, Ask
<1>2. ProcessesTyped'
  BY <1>0 DEF TypeOK, ProcessesTyped, mine
<1>3. CASE Expire
  <2>1. task \in TaskRow /\ task' = [task EXCEPT !.expired = TRUE] /\ UNCHANGED outbox
        /\ task.state = "pending"
    BY <1>0, <1>3 DEF TypeOK, Expire
  <2>2. task' \in TaskRow
    BY <2>1, TaskRows
  <2>3. /\ task'.state = task.state /\ task'.gate = task.gate
        /\ task'.holder = task.holder /\ task'.needsCapsule = task.needsCapsule
        /\ task'.linked = task.linked /\ task'.receipt = task.receipt
        /\ task'.cancelRequested = task.cancelRequested
        /\ task'.readyPending = task.readyPending
    BY <2>1 DEF TaskRow
  <2>4. TypeOK'
    BY <1>0, <1>1, <1>2, <2>1, <2>2, <2>3 DEF TypeOK, ProcessesTyped, world
  <2>5. StampLeft' /\ StoredForGood
    BY <1>0, <2>1, <2>3 DEF TaskInv, StampLeft, StoredForGood, world
  <2>6. StateInv'
    BY <1>0, <2>1, <2>3 DEF TaskInv, StateInv, RowsAgree, SubmittedMeansLinked,
       SucceededMeansGated, OutcomeReachesSession, world
  <2> QED
    BY <1>0, <2>4, <2>5, <2>6 DEF Around
<1>4. ASSUME NEW c \in Clients, RepeatCall(c) PROVE Around
  <2>1. PICK m \in {"execute", "replay"} : InsertMessage(m)
    BY <1>4 DEF RepeatCall
  <2>2. OutboxWrite
    BY <1>0, <1>4, <2>1, InsertWrites, MessagesAssumption DEF RepeatCall
  <2> QED
    BY <1>0, <1>1, <1>2, <2>2, OutboxWriteKept DEF Around
<1> QED
  BY <1>3, <1>4

\* The Run, its collectors and its Capsule, and a seal that breaks.
LEMMA RunKept ==
    ASSUME TaskInv, RunMoves \/ BuildCapsule \/ FinishCapsule \/ EvidenceBreaks
    PROVE  Around
<1>0. TypeOK /\ UNCHANGED mine /\ UNCHANGED <<outbox, task, turn>> /\ run \in RunRow
  BY DEF TaskInv, TypeOK, RunMoves, BuildCapsule, FinishCapsule, EvidenceBreaks
<1>1. requests' \in 0..MaxRequests /\ faults' \in 0..MaxFaults
  BY <1>0, BoundsAssumption
     DEF TypeOK, RunMoves, BuildCapsule, FinishCapsule, EvidenceBreaks, Fail
<1>2. ProcessesTyped'
  BY <1>0 DEF TypeOK, ProcessesTyped, mine
<1>3. StampLeft /\ MaxStamps \in Nat
  BY BoundsAssumption DEF TaskInv
<1>4. CASE RunMoves
  <2>1. RunWrite
    <3>1. CASE /\ run.state = "submitting"
               /\ run' = [run EXCEPT !.state = "live", !.job = TRUE]
      <4>1. run' \in RunRow
        BY <1>0, <3>1, RunRows
      <4>2. /\ run'.state = "live" /\ run'.collection = run.collection
            /\ run'.evidence = run.evidence /\ run'.capsule = run.capsule
            /\ run'.stamp = run.stamp
        BY <1>0, <3>1 DEF RunRow
      <4> QED
        BY <1>0, <1>3, <3>1, <4>1, <4>2 DEF RunWrite, StampLeft
    <3>2. ASSUME NEW s \in {"submit_failed", "succeeded", "failed"},
                 run.state \in {"submitting", "live"}, run' = [run EXCEPT !.state = s]
          PROVE  RunWrite
      <4>1. run' \in RunRow
        BY <1>0, <3>2, RunRows DEF TerminalRunStates
      <4>2. /\ run'.state = s /\ run'.collection = run.collection
            /\ run'.evidence = run.evidence /\ run'.capsule = run.capsule
            /\ run'.stamp = run.stamp
        BY <1>0, <3>2 DEF RunRow
      <4> QED
        BY <1>0, <1>3, <3>2, <4>1, <4>2 DEF RunWrite, StampLeft
    <3>3. ASSUME NEW s \in {"succeeded", "failed"}, run.collection = "pending",
                 run' = [run EXCEPT !.collection = s]
          PROVE  RunWrite
      <4>1. run' \in RunRow
        BY <1>0, <3>3, RunRows
      <4>2. /\ run'.state = run.state /\ run'.evidence = run.evidence
            /\ run'.capsule = run.capsule /\ run'.stamp = run.stamp
        BY <1>0, <3>3 DEF RunRow
      <4> QED
        BY <1>0, <1>3, <3>3, <4>1, <4>2 DEF RunWrite, StampLeft
    <3> QED
      BY <1>4, <3>1, <3>2, <3>3 DEF RunMoves
  <2> QED
    BY <1>0, <1>1, <1>2, <2>1, RunWriteKept DEF Around
<1>5. CASE BuildCapsule
  <2> DEFINE capsule == IF run.capsule = "ready" THEN "ready" ELSE "running"
  <2>1. run' = [run EXCEPT !.capsule = capsule, !.stamp = run.stamp + 1]
    BY <1>5 DEF BuildCapsule
  <2>2. /\ capsule \in CapsuleState /\ run.stamp + 1 \in Stamps
        /\ run.stamp + 1 <= MaxStamps + 1
    BY <1>0, <1>3, <1>5 DEF BuildCapsule, CapsuleState, RunRow, Stamps
  <2>3. run' \in RunRow
    BY <1>0, <2>1, <2>2, RunRows
  <2>4. /\ run'.capsule = capsule /\ run'.stamp = run.stamp + 1
        /\ run'.state = run.state /\ run'.collection = run.collection
        /\ run'.evidence = run.evidence
    BY <1>0, <2>1 DEF RunRow
  <2>5. RunWrite
    BY <1>0, <2>2, <2>3, <2>4 DEF RunWrite, StampLeft
  <2> QED
    BY <1>0, <1>1, <1>2, <2>5, RunWriteKept DEF Around
<1>6. CASE FinishCapsule
  <2>1. PICK s \in {"ready", "failed"} :
           run' = [run EXCEPT !.capsule = s, !.stamp = run.stamp + 1]
    BY <1>6 DEF FinishCapsule
  <2>2. s \in CapsuleState /\ run.stamp + 1 \in Stamps /\ run.capsule = "running"
    BY <1>0, <1>3, <1>6 DEF FinishCapsule, CapsuleState, RunRow, Stamps, StampLeft
  <2>3. run' \in RunRow
    BY <1>0, <2>1, <2>2, RunRows
  <2>4. /\ run'.capsule = s /\ run'.state = run.state
        /\ run'.collection = run.collection /\ run'.evidence = run.evidence
    BY <1>0, <2>1 DEF RunRow
  <2>5. RunWrite
    BY <1>0, <2>2, <2>3, <2>4 DEF RunWrite, StampLeft
  <2> QED
    BY <1>0, <1>1, <1>2, <2>5, RunWriteKept DEF Around
<1>7. CASE EvidenceBreaks
  <2>1. run' = [run EXCEPT !.evidence = "broken"]
    BY <1>7 DEF EvidenceBreaks
  <2>2. run' \in RunRow
    BY <1>0, <2>1, RunRows
  <2>3. /\ run'.evidence = "broken" /\ run'.state = run.state
        /\ run'.collection = run.collection /\ run'.capsule = run.capsule
        /\ run'.stamp = run.stamp
    BY <1>0, <2>1 DEF RunRow
  <2>4. RunWrite
    BY <1>0, <1>3, <2>2, <2>3 DEF RunWrite, StampLeft
  <2> QED
    BY <1>0, <1>1, <1>2, <2>4, RunWriteKept DEF Around
<1> QED
  BY <1>4, <1>5, <1>6, <1>7

\* The clock.
LEMMA TickKept == TaskInv /\ Tick => Around
<1> SUFFICES ASSUME TaskInv, Tick PROVE Around
  OBVIOUS
<1>0. TypeOK /\ UNCHANGED mine /\ UNCHANGED world
  BY DEF TaskInv, Tick
<1>1. Cardinality(Overrun) \in Nat
  <2>1. Overrun \subseteq Workers
    BY DEF Overrun
  <2> QED
    BY <2>1, ProcessesAssumption, FS_Subset, FS_CardinalityType
<1>2. requests' \in 0..MaxRequests /\ faults' \in 0..MaxFaults
  BY <1>0, <1>1, BoundsAssumption DEF TypeOK, Tick
<1>3. /\ outbox' \in [Messages -> Row]
      /\ \A m \in Messages : outbox'[m].state = outbox[m].state
  <2>1. \A m \in Messages : /\ ElapsedRow(outbox[m]) \in Row
                            /\ ElapsedRow(outbox[m]).state = outbox[m].state
    <3>1. \A m \in Messages : ElapsedRow(outbox[m]).state = outbox[m].state
      BY DEF ElapsedRow
    <3> QED
      BY <1>0, <3>1, RowSteps DEF TypeOK
  <2> QED
    BY <2>1 DEF Tick, ElapseOutbox
<1>4. "ready" \in Messages /\ outbox'["ready"].state = outbox["ready"].state
  BY <1>3, MessagesAssumption
<1>5. task \in TaskRow /\ task' = [task EXCEPT !.leaseLeft = Less(task.leaseLeft)]
  BY <1>0 DEF TypeOK, Tick
<1>6. Less(task.leaseLeft) \in 0..LeaseTicks
  BY <1>5, LeaseAssumption DEF TaskRow, Less
<1>7. task' \in TaskRow
  BY <1>5, <1>6, TaskRows
<1>8. /\ task'.state = task.state /\ task'.gate = task.gate
      /\ task'.holder = task.holder /\ task'.needsCapsule = task.needsCapsule
      /\ task'.linked = task.linked /\ task'.receipt = task.receipt
      /\ task'.cancelRequested = task.cancelRequested
      /\ task'.readyPending = task.readyPending
  BY <1>5 DEF TaskRow
<1>9. TypeOK'
  BY <1>0, <1>2, <1>3, <1>7, <1>8 DEF TypeOK, world, mine
<1>10. StampLeft' /\ StoredForGood
  BY <1>0, <1>4, <1>8 DEF TaskInv, StampLeft, StoredForGood, world
<1>11. StateInv'
  BY <1>0, <1>4, <1>8 DEF TaskInv, StateInv, RowsAgree, SubmittedMeansLinked,
     SucceededMeansGated, OutcomeReachesSession, world
<1> QED
  BY <1>0, <1>9, <1>10, <1>11 DEF Around

-----------------------------------------------------------------------------

\* A step of one process keeps the invariant: the others know what they knew.
LEMMA KeptKeeps ==
    ASSUME TaskInv, NEW p \in Processes, Kept(p)
    PROVE  TaskInv' /\ StoredForGood
<1>1. ASSUME NEW q \in Processes PROVE Knows(q)'
  <2>1. CASE q = p
    BY <2>1 DEF Kept
  <2>2. CASE q # p
    <3>1. StoredForGood /\ pc'[q] = pc[q] /\ local'[q] = local[q]
      BY <2>2 DEF Kept, OthersStill
    <3> QED
      BY <3>1, StillKnows
  <2> QED
    BY <2>1, <2>2
<1> QED
  BY <1>1 DEF Kept, TaskInv, StateInv

\* The same when no process moves.
LEMMA AroundKeeps ==
    ASSUME TaskInv, Around
    PROVE  TaskInv' /\ StoredForGood
<1>1. ASSUME NEW q \in Processes PROVE Knows(q)'
  <2>1. StoredForGood /\ pc'[q] = pc[q] /\ local'[q] = local[q]
    BY DEF Around, mine
  <2> QED
    BY <2>1, StillKnows
<1> QED
  BY <1>1 DEF Around, TaskInv, StateInv

\* The initial state.
LEMMA InitTaskInv == Init => TaskInv
<1> SUFFICES ASSUME Init PROVE TaskInv
  OBVIOUS
<1>0. "ready" \in Messages /\ outbox = [m \in Messages |-> NoRow]
  BY MessagesAssumption DEF Init, OutboxInit
<1>1. NoRow \in Row /\ NoRow.state = "absent"
  BY NoOwnerAssumption DEF NoRow, Row, MessageState
<1>2. NoLocal \in Local
  BY DEF NoLocal, Local, Rank, NoReceipt, Over, CapsuleState
<1>3. task \in TaskRow
  BY LeaseAssumption DEF Init, TaskRow, Rank, NoReceipt
<1>4. run \in RunRow
  BY BoundsAssumption DEF Init, RunRow, Stamps, CapsuleState
<1>5. TypeOK
  BY <1>0, <1>1, <1>2, <1>3, <1>4, BoundsAssumption DEF Init, TypeOK, PC
<1>6. \A p \in Processes : Knows(p)
  BY MessagesAssumption
     DEF Init, NoLocal, Knows, InHand, KnowsRun, KnowsOutcome, KnowsOver
<1>7. StampLeft /\ RowsAgree /\ SubmittedMeansLinked /\ SucceededMeansGated
      /\ OutcomeReachesSession
  BY <1>0, <1>1 DEF Init, StampLeft, RowsAgree, SubmittedMeansLinked,
     SucceededMeansGated, OutcomeReachesSession, Over
<1> QED
  BY <1>5, <1>6, <1>7 DEF TaskInv

\* The invariant is inductive, and no step undoes what is stored for good.
LEMMA NextTaskInv == TaskInv /\ [Next]_vars => TaskInv' /\ StoredForGood
<1> SUFFICES ASSUME TaskInv, [Next]_vars PROVE TaskInv' /\ StoredForGood
  OBVIOUS
<1>1. ASSUME NEW p \in Workers, NEW m \in Messages, ClaimTaskMessage(p, m)
      PROVE  TaskInv' /\ StoredForGood
  BY <1>1, ClaimKept, KeptKeeps DEF Processes
<1>2. ASSUME NEW p \in Workers, TakeToReconcile(p) \/ AnnounceAgain(p) \/ Work(p)
      PROVE  TaskInv' /\ StoredForGood
  <2>1. Kept(p)
    <3>1. CASE \/ ReadTask(p) \/ CheckCancel(p) \/ ReadRun(p) \/ AnnounceAgain(p)
               \/ TakeToExecute(p) \/ TakeToReconcile(p) \/ LinkRun(p)
      BY <3>1, ReadKept, TakeKept, LinkKept
    <3>2. CASE \/ Schedule(p) \/ Wait(p) \/ Finish(p) \/ StoreReceipt(p)
               \/ Release(p) \/ Abort(p) \/ Finalize(p) \/ Persist(p)
      BY <3>2, AdvanceKept, ReceiptKept, ReleaseKept, CloseKept
    <3>3. CASE \/ Prepare(p) \/ SubmitRun(p) \/ CancelRun(p) \/ Verify(p) \/ Revalidate(p)
      BY <3>3, SubmitKept, CancelKept, VerifyKept, RevalidateKept DEF Processes
    <3>4. CASE \/ Acknowledge(p) \/ Retry(p) \/ Wake(p) \/ Announce(p) \/ Mark(p)
      BY <3>4, SettleKept, WakeKept, AnnounceKept, MarkKept DEF Processes
    <3> QED
      BY <1>2, <3>1, <3>2, <3>3, <3>4 DEF Work
  <2> QED
    BY <2>1, KeptKeeps DEF Processes
<1>3. ASSUME NEW c \in Clients, CreateTask(c) \/ RequestCancel(c) \/ Request(c)
      PROVE  TaskInv' /\ StoredForGood
  <2>1. Kept(c)
    BY <1>3, CreateKept, RequestCancelKept, EnqueueKept, CancelKept, AnnounceKept, MarkKept
       DEF Request, Processes
  <2> QED
    BY <2>1, KeptKeeps DEF Processes
<1>4. ASSUME NEW p \in Processes, Crash(p) PROVE TaskInv' /\ StoredForGood
  BY <1>4, CrashKept, KeptKeeps
<1>5. CASE \/ Expire \/ (\E c \in Clients : RepeatCall(c))
           \/ RunMoves \/ BuildCapsule \/ FinishCapsule \/ EvidenceBreaks \/ Tick
  BY <1>5, RepeatKept, RunKept, TickKept, AroundKeeps
<1>6. CASE UNCHANGED vars
  <2>1. ProcessesTyped' /\ requests' \in 0..MaxRequests /\ faults' \in 0..MaxFaults
    BY <1>6 DEF vars, mine, TaskInv, TypeOK, ProcessesTyped
  <2>2. Around
    BY <1>6, <2>1, TablesSame DEF vars, Around
  <2> QED
    BY <2>2, AroundKeeps
<1> QED
  BY <1>1, <1>2, <1>3, <1>4, <1>5, <1>6 DEF Next

\* Every reachable state satisfies it.
LEMMA TaskInvAlways == Spec => []TaskInv
  BY InitTaskInv, NextTaskInv, PTL DEF Spec

\* Type correctness: the rows, the messages, what the processes carry, and that
\* only a running task has a holder.  No process stores an outcome it did not
\* decide on, and every build of a Capsule finds a stamp left.
THEOREM TaskTypeInvariant == Spec => []TypeOK
<1>1. TaskInv => TypeOK
  BY DEF TaskInv
<1> QED
  BY <1>1, TaskInvAlways, PTL

\* Whatever workers were overtaken between the claim and the submission, no Run
\* is submitted, or cancelled, of which its task does not know.
THEOREM SubmittedMeansLinkedAlways == Spec => []SubmittedMeansLinked
<1>1. TaskInv => SubmittedMeansLinked
  BY DEF TaskInv
<1> QED
  BY <1>1, TaskInvAlways, PTL

\* Whichever of several reconcilers stores it, a success has its evidence, its
\* receipt and its Capsule, for any number of workers, clients and faults.
THEOREM SucceededMeansGatedAlways == Spec => []SucceededMeansGated
<1>1. TaskInv => SucceededMeansGated
  BY DEF TaskInv
<1> QED
  BY <1>1, TaskInvAlways, PTL

\* The Session has the intent, the message or the Turn from the outcome on, and
\* the Turn tells of the outcome the task has.
THEOREM OutcomeReachesSessionAlways == Spec => []OutcomeReachesSession
<1>1. TaskInv => OutcomeReachesSession
  BY DEF TaskInv
<1> QED
  BY <1>1, TaskInvAlways, PTL

\* No step, of whatever process, takes back what is stored for good.
THEOREM StoredForGoodAlways == Spec => [][StoredForGood]_vars
<1>1. TaskInv /\ [Next]_vars => [StoredForGood]_vars
  BY NextTaskInv
<1> QED
  BY <1>1, TaskInvAlways, PTL DEF Spec

=============================================================================
