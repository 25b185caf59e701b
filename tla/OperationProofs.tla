---------------------------- MODULE OperationProofs ----------------------------
(***************************************************************************)
(* What OperationLedger promises for any Turns of a session, operations,   *)
(* invocations and API calls, with no bound on claims or faults.           *)
(***************************************************************************)
EXTENDS OperationLedger, TLAPS

TablesTyped == turns \in [Turns -> TurnRow] /\ sessions \in [Sessions -> SessionState]

LedgerTyped ==
    /\ ops \in [Operations -> [state: OpState, origin: Turns \cup {None},
                               attempt: Identity]]
    /\ invs \in [Turns \X Keys -> InvState]
    /\ effects \in [Operations -> Nat]

CallsTyped ==
    /\ pc \in [Calls -> PC]
    /\ cap \in [Calls -> Request \cup {NoRequest}]
    /\ seen \in [Calls -> OpState]
    /\ \A c \in Calls : pc[c] = "idle" <=> cap[c] = NoRequest

\* The type invariant, by groups of variables.
LEMMA TypeGroups == TypeOK <=> TablesTyped /\ LedgerTyped /\ CallsTyped
  BY DEF TypeOK, TablesTyped, LedgerTyped, CallsTyped

\* The request a busy call serves.
LEMMA RequestFields ==
    ASSUME CallsTyped, NEW c \in Calls, pc[c] # "idle"
    PROVE  /\ cap[c] \in Request /\ Me(c) \in Identity /\ Me(c).turn \in Turns
           /\ MyInv(c) \in Turns \X Keys /\ Asked(c) \in Operations
  BY OpOfAssumption DEF CallsTyped, Request, Me, MyInv, Asked, Identity

-----------------------------------------------------------------------------
\* Types.

\* The initial state is well typed.
LEMMA InitTyped == Init => TypeOK
<1> SUFFICES ASSUME Init PROVE TypeOK
  OBVIOUS
<1>1. TablesTyped
  <2>1. NoTurn \in TurnRow
    BY DEF NoTurn, TurnRow, TurnState, Waiting, Terminal
  <2> QED
    BY <2>1 DEF Init, TablesInit, TablesTyped, SessionState
<1>2. LedgerTyped
  BY DEF Init, LedgerTyped, NoOperation, NoIdentity, Identity, OpState, InvState
<1>3. CallsTyped
  BY DEF Init, CallsTyped, PC, OpState
<1> QED
  BY <1>1, <1>2, <1>3, TypeGroups

\* The rows the environment writes.
LEMMA TurnRows ==
    ASSUME NEW row \in TurnRow
    PROVE  /\ \A state \in TurnState : [row EXCEPT !.state = state] \in TurnRow
           /\ \A id \in WorkerIds, left \in Nat :
                 [row EXCEPT !.state = "running", !.worker = id,
                             !.fence = @ + 1, !.leaseLeft = left] \in TurnRow
           /\ \A left \in Nat : [row EXCEPT !.leaseLeft = left] \in TurnRow
           /\ [row EXCEPT !.cancel = TRUE] \in TurnRow
           /\ \A state \in TurnState, saved \in BOOLEAN :
                 [row EXCEPT !.state = state, !.worker = NoWorkerId,
                             !.leaseLeft = 0, !.saved = saved] \in TurnRow
<1> USE DEF TurnRow
<1>1. \A state \in TurnState : [row EXCEPT !.state = state] \in TurnRow
  OBVIOUS
<1>2. \A id \in WorkerIds, left \in Nat :
         [row EXCEPT !.state = "running", !.worker = id,
                     !.fence = @ + 1, !.leaseLeft = left] \in TurnRow
  <2>1. row.fence + 1 \in Nat
    OBVIOUS
  <2>2. "running" \in TurnState
    BY DEF TurnState
  <2>3. \A fence, left \in Nat, id \in WorkerIds :
           [row EXCEPT !.state = "running", !.worker = id,
                       !.fence = fence, !.leaseLeft = left] \in TurnRow
    BY <2>2
  <2> QED
    BY <2>1, <2>3
<1>3. \A left \in Nat : [row EXCEPT !.leaseLeft = left] \in TurnRow
  OBVIOUS
<1>4. [row EXCEPT !.cancel = TRUE] \in TurnRow
  OBVIOUS
<1>5. \A state \in TurnState, saved \in BOOLEAN :
         [row EXCEPT !.state = state, !.worker = NoWorkerId,
                     !.leaseLeft = 0, !.saved = saved] \in TurnRow
  OBVIOUS
<1> QED
  BY <1>1, <1>2, <1>3, <1>4, <1>5

\* A step that is not a call's keeps the rows well typed.
LEMMA TablesStep ==
    ASSUME TablesTyped, NEW t \in Turns,
           Create(t) \/ Claim(t) \/ Renew(t) \/ End(t) \/ Cancel(t) \/ Tick
    PROVE  TablesTyped'
<1> USE DEF TablesTyped
<1>0. SessionOf[t] \in Sessions /\ turns[t] \in TurnRow
  BY SessionOfAssumption
<1>1. {"queued", "running", "interrupted", "completed"} \subseteq TurnState
      /\ {"idle", "queued", "running"} = SessionState
  BY DEF TurnState, SessionState, Waiting, Terminal
<1>2. \A state \in SessionState : MoveSession(t, state) =>
         sessions' \in [Sessions -> SessionState]
  BY <1>0 DEF MoveSession
<1>3. ASSUME NEW row \in TurnRow, turns' = [turns EXCEPT ![t] = row]
      PROVE  turns' \in [Turns -> TurnRow]
  BY <1>3
<1>4. CASE Create(t)
  <2>1. [turns[t] EXCEPT !.state = "queued"] \in TurnRow
    BY <1>0, <1>1, TurnRows
  <2> QED
    BY <1>1, <1>2, <1>3, <1>4, <2>1 DEF Create, CreateTurn
<1>5. CASE Claim(t)
  <2>1. PICK id \in WorkerIds : ClaimTurn(t, id)
    BY <1>5 DEF Claim
  <2> DEFINE claimed == [turns[t] EXCEPT !.state = "running", !.worker = id,
                                         !.fence = @ + 1, !.leaseLeft = TurnLeaseTicks]
  <2>2. claimed \in TurnRow
    BY <1>0, TurnRows, TurnLeaseAssumption
  <2> QED
    <3>1. turns' \in [Turns -> TurnRow]
      <4>1. turns' = [turns EXCEPT ![t] = claimed]
        BY <2>1 DEF ClaimTurn
      <4> HIDE DEF claimed
      <4> QED
        BY <1>3, <2>2, <4>1
    <3> QED
      BY <1>1, <1>2, <2>1, <3>1 DEF ClaimTurn
<1>6. CASE Renew(t)
  <2>1. [turns[t] EXCEPT !.leaseLeft = TurnLeaseTicks] \in TurnRow
    BY <1>0, TurnRows, TurnLeaseAssumption
  <2> QED
    BY <1>3, <1>6, <2>1 DEF Renew, RenewTurn
<1>7. CASE End(t)
  <2>1. \A state \in {"completed", "interrupted"} :
           [turns[t] EXCEPT !.state = state, !.worker = NoWorkerId,
                            !.leaseLeft = 0, !.saved = FALSE] \in TurnRow
    BY <1>0, <1>1, TurnRows
  <2> QED
    BY <1>1, <1>2, <1>3, <1>7, <2>1 DEF End, CompleteTurn, InterruptTurn, EndTurn
<1>8. CASE Cancel(t)
  <2>1. [turns[t] EXCEPT !.cancel = TRUE] \in TurnRow
    BY <1>0, TurnRows
  <2> QED
    BY <1>3, <1>8, <2>1 DEF Cancel, RequestCancel
<1>9. CASE Tick
  <2>1. ASSUME NEW u \in Turns
        PROVE  [turns[u] EXCEPT !.leaseLeft = IF @ > 0 THEN @ - 1 ELSE 0] \in TurnRow
    <3>1. turns[u].leaseLeft \in Nat
      BY DEF TurnRow
    <3>2. (IF turns[u].leaseLeft > 0 THEN turns[u].leaseLeft - 1 ELSE 0) \in Nat
      BY <3>1
    <3> QED
      BY <3>2, TurnRows
  <2> QED
    BY <1>9, <2>1 DEF Tick, ElapseTurns
<1> QED
  BY <1>4, <1>5, <1>6, <1>7, <1>8, <1>9

\* The three ways a call moves on.
LEMMA Moves ==
    ASSUME CallsTyped, NEW c \in Calls, pc[c] # "idle",
           \/ Done(c)
           \/ \E place \in PC \ {"idle"} :
                 Goto(c, place) \/ \E state \in OpState : See(c, state, place)
    PROVE  CallsTyped'
<1> USE DEF CallsTyped
<1>1. "absent" \in OpState /\ "idle" \in PC
  BY DEF OpState, PC
<1>2. CASE Done(c)
  BY <1>1, <1>2 DEF Done
<1>3. ASSUME NEW place \in PC \ {"idle"}, Goto(c, place) PROVE CallsTyped'
  BY <1>3 DEF Goto
<1>4. ASSUME NEW place \in PC \ {"idle"}, NEW state \in OpState, See(c, state, place)
      PROVE  CallsTyped'
  BY <1>1, <1>4 DEF See
<1> QED
  BY <1>2, <1>3, <1>4

\* A step of a call writes a state into the operation it asks for, or one of
\* its names; and moves on.
Moved(c) ==
    \/ Done(c)
    \/ \E place \in PC \ {"idle"} :
          Goto(c, place) \/ \E state \in OpState : See(c, state, place)

\* A step of a call keeps the state well typed.
LEMMA ServeTyped ==
    ASSUME LedgerTyped, CallsTyped, NEW c \in Calls, pc[c] # "idle", Serve(c)
    PROVE  LedgerTyped' /\ Moved(c)
<1> USE DEF LedgerTyped, ledger
<1>0. /\ Asked(c) \in Operations /\ ops[Asked(c)].state \in OpState
      /\ Me(c) \in Identity /\ Me(c).turn \in Turns /\ MyInv(c) \in Turns \X Keys
      /\ seen[c] \in OpState
  BY RequestFields DEF CallsTyped
<1>1. \A state \in OpState : SetOp(Asked(c), state) =>
          ops' \in [Operations -> [state: OpState, origin: Turns \cup {None},
                                   attempt: Identity]]
  <2>1. \A state \in OpState : [ops[Asked(c)] EXCEPT !.state = state] \in
           [state: OpState, origin: Turns \cup {None}, attempt: Identity]
    BY <1>0
  <2> QED
    BY <1>0, <2>1 DEF SetOp
<1>2. CASE ReserveInvocation(c) \/ Refuse(c)
  BY <1>0, <1>2 DEF ReserveInvocation, Refuse, Moved, PC, InvState
<1>3. CASE ReserveOperation(c)
  <2>1. CASE Done(c) /\ UNCHANGED ops
    BY <1>3, <2>1 DEF ReserveOperation, Moved
  <2>2. CASE /\ ops' = [ops EXCEPT ![Asked(c)] = [@ EXCEPT !.state = "reserved",
                                                          !.origin = Me(c).turn]]
             /\ See(c, "reserved", "prepare")
    BY <1>0, <1>3, <2>2 DEF ReserveOperation, Moved, PC, OpState
  <2>3. ASSUME UNCHANGED ops,
               NEW place \in {"answer", "persist", "classify", "reconcile", "prepare"},
               See(c, ops[Asked(c)].state, place)
        PROVE  LedgerTyped' /\ Moved(c)
    BY <1>0, <1>3, <2>3 DEF ReserveOperation, Moved, PC
  <2> QED
    BY <1>3, <2>1, <2>2, <2>3 DEF ReserveOperation
<1>4. CASE Classify(c) \/ ReadStale(c) \/ ReadAgain(c)
  BY <1>0, <1>4 DEF Classify, ReadStale, ReadAgain, AfterRecord, Moved, PC, OpState
<1>5. CASE MarkStale(c)
  BY <1>0, <1>1, <1>5 DEF MarkStale, Moved, PC, OpState
<1>6. CASE Reconcile(c)
  <2>1. UnresolvedState(c) \in OpState
    BY <1>0 DEF UnresolvedState, OpState
  <2> QED
    BY <1>0, <1>1, <1>6, <2>1 DEF Reconcile, Moved, PC, OpState
<1>7. CASE Prepare(c)
  <2>1. CASE ops' = [ops EXCEPT ![Asked(c)].attempt = Me(c)] /\ Goto(c, "start")
    BY <1>0, <1>7, <2>1 DEF Prepare, Moved, PC
  <2> QED
    BY <1>0, <1>7, <2>1 DEF Prepare, Moved
<1>8. CASE Start(c) \/ StartConflict(c) \/ Beat(c)
  BY <1>0, <1>1, <1>8 DEF Start, StartConflict, AfterConflict, Beat, Moved, PC, OpState
<1>9. CASE RunHandler(c)
  BY <1>0, <1>9 DEF RunHandler, Moved, PC
<1>10. CASE Complete(c) \/ Fail(c) \/ MarkUnknown(c)
  BY <1>0, <1>1, <1>10 DEF Complete, Fail, MarkUnknown, Moved, PC, OpState
<1>11. CASE Answer(c) \/ PersistFailure(c) \/ Crash(c)
  BY <1>0, <1>11 DEF Answer, PersistFailure, FinishInvocation, Crash, Moved, InvState
<1> QED
  BY <1>2, <1>3, <1>4, <1>5, <1>6, <1>7, <1>8, <1>9, <1>10, <1>11 DEF Serve

\* Only a call at work takes a step of Serve.
LEMMA ServeBusy == ASSUME NEW c \in Calls, Serve(c) PROVE pc[c] # "idle" /\ UNCHANGED tables
  BY DEF Serve, ReserveInvocation, Refuse, ReserveOperation, Classify, MarkStale,
         ReadStale, Reconcile, ReadAgain, Prepare, Start, StartConflict, Beat,
         RunHandler, Complete, Fail, MarkUnknown, Answer, PersistFailure,
         FinishInvocation, Crash

\* Type correctness is inductive.
LEMMA NextTyped == TypeOK /\ [Next]_vars => TypeOK'
<1> SUFFICES ASSUME TypeOK, [Next]_vars PROVE TypeOK'
  OBVIOUS
<1>0. TablesTyped /\ LedgerTyped /\ CallsTyped
  BY TypeGroups
<1>1. ASSUME NEW c \in Calls, NEW t \in Turns, NEW key \in Keys, Begin(c, t, key)
      PROVE  TypeOK'
  <2>1. turns[t].fence \in Nat
    BY <1>0 DEF TablesTyped, TurnRow
  <2>2. [id |-> [turn |-> t, fence |-> turns[t].fence], key |-> key] \in Request
    BY <2>1 DEF Request
  <2>3. \A r \in Request : r # NoRequest
    BY NoneAssumption DEF Request, NoRequest, NoIdentity
  <2>4. CallsTyped'
    BY <1>0, <1>1, <2>2, <2>3 DEF Begin, CallsTyped, PC
  <2> QED
    BY <1>0, <1>1, <2>4 DEF Begin, TypeOK, TablesTyped, LedgerTyped, CallsTyped,
                            tables, ledger
<1>2. ASSUME NEW c \in Calls, Serve(c) PROVE TypeOK'
  <2>1. LedgerTyped' /\ CallsTyped'
    BY <1>0, <1>2, ServeBusy, ServeTyped, Moves DEF Moved
  <2> QED
    BY <1>0, <1>2, <2>1, ServeBusy DEF TypeOK, TablesTyped, LedgerTyped, CallsTyped, tables
<1>3. ASSUME NEW t \in Turns,
             Create(t) \/ Claim(t) \/ Renew(t) \/ End(t) \/ Cancel(t) \/ Tick
      PROVE  TypeOK'
  <2>1. UNCHANGED <<ledger, calls, effects>>
    BY <1>3 DEF Create, Claim, Renew, End, Cancel, Tick
  <2> QED
    BY <1>0, <1>3, <2>1, TablesStep
       DEF TypeOK, TablesTyped, LedgerTyped, CallsTyped, ledger, calls
<1>4. CASE Tick
  <2>1. PICK t \in Turns : turns[t].leaseLeft > 0
    BY <1>4 DEF Tick
  <2> QED
    BY <1>3, <1>4, <2>1
<1>5. CASE UNCHANGED vars
  BY <1>5 DEF vars, TypeOK
<1> QED
  BY <1>1, <1>2, <1>3, <1>4, <1>5 DEF Next

\* Every row, request and record is of its kind.
THEOREM TypeInvariant == Spec => []TypeOK
  BY InitTyped, NextTyped, PTL DEF Spec

-----------------------------------------------------------------------------
\* The safety invariants, strengthened by what a call knows at each place.

Executing(c) == pc[c] \in {"beat", "handler"}

\* A call that executes an operation started it, before any effect; one that
\* completes it has had the effect; one that answers found it completed.
CallKnows(c) ==
    /\ pc[c] = "reconcile" => seen[c] \in {"running", "stale", "unknown"}
    /\ Executing(c) => /\ ops[Asked(c)].state \notin {"absent", "reserved"}
                       /\ effects[Asked(c)] = 0
    /\ pc[c] = "complete" => effects[Asked(c)] > 0
    /\ pc[c] = "answer" => ops[Asked(c)].state = "completed"

\* Nobody else executes it.
OneExecutes ==
    \A c, d \in Calls : Executing(c) /\ Executing(d) /\ Asked(c) = Asked(d) => c = d

UnstartedHasNoEffect ==
    \A k \in Operations : ops[k].state \in {"absent", "reserved"} => effects[k] = 0

OperationInv ==
    /\ TypeOK
    /\ \A c \in Calls : CallKnows(c)
    /\ OneExecutes /\ UnstartedHasNoEffect
    /\ EffectAtMostOnce /\ CompletedMeansEffect /\ AnsweredMeansCompleted

\* The inductive invariant of the operation holds at the start.
LEMMA InitOperationInv == Init => OperationInv
<1> SUFFICES ASSUME Init PROVE OperationInv
  OBVIOUS
<1>1. TypeOK
  BY InitTyped
<1>2. \A c \in Calls : pc[c] = "idle"
  BY DEF Init
<1>3. \A k \in Operations : ops[k].state = "absent" /\ effects[k] = 0
  BY DEF Init, NoOperation
<1>4. \A i \in Turns \X Keys : invs[i] = "absent"
  BY DEF Init
<1> QED
  BY <1>1, <1>2, <1>3, <1>4
     DEF OperationInv, CallKnows, OneExecutes, Executing, UnstartedHasNoEffect,
         EffectAtMostOnce, CompletedMeansEffect, AnsweredMeansCompleted

-----------------------------------------------------------------------------

\* What no step does to an operation: start it again, or take its completion
\* or its failure back.
OpKept(k) ==
    /\ ops[k].state \notin {"absent", "reserved"} =>
          ops'[k].state \notin {"absent", "reserved"}
    /\ ops[k].state \in {"completed", "failed"} => ops'[k].state = ops[k].state

OpsKept == \A k \in Operations : OpKept(k)

\* Every step of a call but the handler writes at most the operation it asks for.
LEMMA ServeKeepsOps ==
    ASSUME OperationInv, NEW c \in Calls, Serve(c)
    PROVE  /\ OpsKept
           /\ \A k \in Operations : ops'[k].state # ops[k].state => k = Asked(c)
<1> DEFINE k == Asked(c)
<1>0. /\ pc[c] # "idle" /\ LedgerTyped /\ CallsTyped /\ CallKnows(c)
      /\ k \in Operations
  BY ServeBusy, TypeGroups, RequestFields DEF OperationInv
<1>1. ASSUME NEW state, SetOp(k, state)
      PROVE  /\ ops'[k].state = state
             /\ \A j \in Operations \ {k} : ops'[j] = ops[j]
  BY <1>0, <1>1 DEF SetOp, LedgerTyped
<1>2. CASE UNCHANGED ops
  BY <1>2 DEF OpsKept, OpKept
<1>3. CASE ReserveOperation(c)
  <2>1. CASE UNCHANGED ops
    BY <1>2, <2>1
  <2>2. CASE ops' = [ops EXCEPT ![k] = [@ EXCEPT !.state = "reserved",
                                                 !.origin = Me(c).turn]]
             /\ ops[k].state = "absent"
    BY <1>0, <2>2 DEF OpsKept, OpKept, LedgerTyped
  <2> QED
    BY <1>3, <2>1, <2>2 DEF ReserveOperation
<1>4. CASE MarkStale(c)
  BY <1>0, <1>1, <1>2, <1>4 DEF MarkStale, OpsKept, OpKept
<1>5. CASE Reconcile(c)
  <2>1. UnresolvedState(c) \in {"stale", "unknown"}
    BY <1>0, <1>5 DEF CallKnows, UnresolvedState, Reconcile
  <2>2. UNCHANGED ops \/ /\ ops[k].state \in {"running", "stale", "unknown"}
                         /\ \E state \in {"completed", "stale", "unknown"} : SetOp(k, state)
    BY <1>5, <2>1 DEF Reconcile, Reconcilable
  <2> QED
    BY <1>0, <1>1, <1>2, <2>2 DEF OpsKept, OpKept
<1>6. CASE Prepare(c)
  <2>1. \A j \in Operations : ops'[j].state = ops[j].state
    BY <1>0, <1>6 DEF Prepare, LedgerTyped
  <2> QED
    BY <2>1 DEF OpsKept, OpKept
<1>7. CASE Start(c)
  BY <1>0, <1>1, <1>2, <1>7 DEF Start, Startable, OpsKept, OpKept
<1>8. CASE Complete(c) \/ Fail(c) \/ MarkUnknown(c)
  <2>1. UNCHANGED ops \/ /\ ops[k].state = "running"
                         /\ \E state \in {"completed", "failed", "unknown"} : SetOp(k, state)
    BY <1>8 DEF Complete, Fail, MarkUnknown, Finishable
  <2> QED
    BY <1>0, <1>1, <1>2, <2>1 DEF OpsKept, OpKept
<1>9. CASE \/ ReserveInvocation(c) \/ Refuse(c) \/ Classify(c) \/ ReadStale(c)
           \/ ReadAgain(c) \/ StartConflict(c) \/ Beat(c) \/ RunHandler(c)
           \/ Answer(c) \/ PersistFailure(c) \/ Crash(c)
  <2>1. UNCHANGED ops
    BY <1>9 DEF ReserveInvocation, Refuse, Classify, ReadStale, ReadAgain, StartConflict,
                Beat, RunHandler, Answer, PersistFailure, FinishInvocation, Crash, ledger
  <2> QED
    BY <1>2, <2>1
<1> QED
  BY <1>3, <1>4, <1>5, <1>6, <1>7, <1>8, <1>9 DEF Serve

\* The other calls stay where they are.
LEMMA OthersStay ==
    ASSUME OperationInv, NEW c \in Calls, Serve(c)
    PROVE  \A d \in Calls \ {c} :
              pc'[d] = pc[d] /\ cap'[d] = cap[d] /\ seen'[d] = seen[d]
<1>1. Moved(c) /\ CallsTyped
  BY ServeTyped, ServeBusy, TypeGroups DEF OperationInv
<1> QED
  BY <1>1 DEF Moved, Done, Goto, See, CallsTyped

\* Only the handler has an effect, of the operation its call executes.
LEMMA ServeEffects ==
    ASSUME OperationInv, NEW c \in Calls, Serve(c)
    PROVE  \/ UNCHANGED effects
           \/ /\ Executing(c) /\ UNCHANGED ops
              /\ effects' = [effects EXCEPT ![Asked(c)] = @ + 1]
<1>1. CASE RunHandler(c)
  BY <1>1 DEF RunHandler, Executing, ledger
<1>2. CASE ~RunHandler(c)
  BY <1>2 DEF Serve, ReserveInvocation, Refuse, ReserveOperation, Classify, MarkStale,
              ReadStale, Reconcile, ReadAgain, Prepare, Start, StartConflict, Beat,
              Complete, Fail, MarkUnknown, Answer, PersistFailure, FinishInvocation, Crash
<1> QED
  BY <1>1, <1>2

\* An operation becomes completed by a proof of its effect or after it.
LEMMA CompletedAfterEffect ==
    ASSUME OperationInv, NEW c \in Calls, Serve(c), NEW k \in Operations,
           ops'[k].state = "completed", ops[k].state # "completed"
    PROVE  effects[k] > 0
<1>0. /\ k = Asked(c) /\ pc[c] # "idle" /\ LedgerTyped /\ CallKnows(c)
  BY ServeKeepsOps, ServeBusy, TypeGroups DEF OperationInv
<1>1. CASE Complete(c)
  BY <1>0, <1>1 DEF CallKnows, Complete
<1>2. CASE Reconcile(c)
  <2>1. UnresolvedState(c) # "completed"
    BY <1>0, <1>2 DEF CallKnows, UnresolvedState, Reconcile
  <2> QED
    BY <1>0, <1>2, <2>1 DEF Reconcile, Provable, SetOp, LedgerTyped
<1>3. CASE ReserveOperation(c) \/ Prepare(c)
  <2>1. ops'[k].state \in {ops[k].state, "reserved"}
    <3>1. CASE ReserveOperation(c)
      <4>1. CASE ops' = [ops EXCEPT ![k] = [@ EXCEPT !.state = "reserved",
                                                     !.origin = Me(c).turn]]
        BY <1>0, <4>1 DEF LedgerTyped
      <4> QED
        BY <1>0, <3>1, <4>1 DEF ReserveOperation
    <3>2. CASE Prepare(c)
      BY <1>0, <3>2 DEF Prepare, LedgerTyped
    <3> QED
      BY <1>3, <3>1, <3>2
  <2> QED
    BY <1>0, <2>1
<1>4. CASE MarkStale(c) \/ Start(c) \/ Fail(c) \/ MarkUnknown(c)
  <2>1. UNCHANGED ops \/ \E state \in {"stale", "running", "failed", "unknown"} : SetOp(k, state)
    BY <1>0, <1>4 DEF MarkStale, Start, Fail, MarkUnknown
  <2> QED
    BY <1>0, <2>1 DEF SetOp, LedgerTyped
<1>5. CASE ~ (ReserveOperation(c) \/ Prepare(c) \/ MarkStale(c) \/ Start(c) \/ Fail(c)
              \/ MarkUnknown(c) \/ Complete(c) \/ Reconcile(c))
  <2>1. UNCHANGED ops
    BY <1>5 DEF Serve, ReserveInvocation, Refuse, Classify, ReadStale, ReadAgain,
       StartConflict, Beat, RunHandler, Answer, PersistFailure, FinishInvocation, Crash, ledger
  <2> QED
    BY <2>1
<1> QED
  BY <1>1, <1>2, <1>3, <1>4, <1>5

\* An invocation is answered by a call that found its operation completed.
LEMMA ServeInvocations ==
    ASSUME OperationInv, NEW c \in Calls, Serve(c), NEW i \in Turns \X Keys,
           invs'[i] = "completed", invs[i] # "completed"
    PROVE  pc[c] = "answer" /\ i = MyInv(c)
<1>0. LedgerTyped
  BY TypeGroups DEF OperationInv
<1>1. CASE Answer(c) \/ PersistFailure(c)
  BY <1>0, <1>1 DEF Answer, PersistFailure, FinishInvocation, LedgerTyped
<1>2. CASE ~Answer(c) /\ ~PersistFailure(c)
  BY <1>0, <1>2 DEF Serve, ReserveInvocation, Refuse, ReserveOperation, Classify, MarkStale,
              ReadStale, Reconcile, ReadAgain, Prepare, Start, StartConflict, Beat,
              RunHandler, Complete, Fail, MarkUnknown, Crash, ledger, LedgerTyped
<1> QED
  BY <1>1, <1>2

\* What the call that moves knows where it gets.
LEMMA ServeKnows ==
    ASSUME OperationInv, NEW c \in Calls, Serve(c)
    PROVE  /\ CallKnows(c)'
           /\ Executing(c)' =>
                 /\ cap'[c] = cap[c]
                 /\ Executing(c) \/ ops[Asked(c)].state = "reserved"
<1>0. /\ pc[c] # "idle" /\ LedgerTyped /\ CallsTyped /\ CallKnows(c)
      /\ Asked(c) \in Operations
      /\ UnstartedHasNoEffect /\ CompletedMeansEffect
  BY ServeBusy, TypeGroups, RequestFields DEF OperationInv
<1>1. CASE ReserveInvocation(c) \/ Refuse(c) \/ PersistFailure(c) \/ Answer(c) \/ Crash(c)
           \/ MarkStale(c) \/ Prepare(c) \/ Fail(c) \/ MarkUnknown(c)
  <2>1. pc'[c] \in {"idle", "reserveOp", "persist", "readStale", "start"}
    BY <1>0, <1>1 DEF ReserveInvocation, Refuse, PersistFailure, Answer, FinishInvocation,
       Crash, MarkStale, Prepare, Fail, MarkUnknown, Done, Goto, CallsTyped
  <2> QED
    BY <2>1 DEF CallKnows, Executing
<1>2. CASE ReserveOperation(c)
  <2>1. ASSUME See(c, ops[Asked(c)].state, "reconcile"), ops[Asked(c)].state \in {"unknown", "stale"}
        PROVE  pc'[c] = "reconcile" /\ seen'[c] \in {"running", "stale", "unknown"}
    BY <1>0, <2>1 DEF See, CallsTyped
  <2>2. ASSUME See(c, ops[Asked(c)].state, "answer"), ops[Asked(c)].state = "completed", UNCHANGED ops
        PROVE  pc'[c] = "answer" /\ ops'[Asked(c)'].state = "completed"
    BY <1>0, <2>2 DEF See, CallsTyped, Asked, MyInv
  <2>3. \/ pc'[c] \in {"idle", "prepare", "persist", "classify"}
        \/ pc'[c] = "reconcile" /\ seen'[c] \in {"running", "stale", "unknown"}
        \/ pc'[c] = "answer" /\ ops'[Asked(c)'].state = "completed"
    BY <1>0, <1>2, <2>1, <2>2 DEF ReserveOperation, Done, See, CallsTyped
  <2> QED
    BY <2>3 DEF CallKnows, Executing
<1>3. CASE Classify(c) \/ ReadStale(c)
  <2>1. ASSUME NEW state, See(c, state, "reconcile"), ToReconcile(c, state)
        PROVE  seen'[c] \in {"running", "stale", "unknown"}
    BY <1>0, <2>1 DEF See, ToReconcile, CallsTyped
  <2>2. \/ pc'[c] \in {"markStale", "persist", "prepare"}
        \/ pc'[c] = "reconcile" /\ seen'[c] \in {"running", "stale", "unknown"}
    BY <1>0, <1>3, <2>1 DEF Classify, ReadStale, AfterRecord, See, CallsTyped
  <2> QED
    BY <2>2 DEF CallKnows, Executing
<1>4. CASE Reconcile(c)
  <2>1. \/ pc'[c] = "readAgain"
        \/ pc'[c] = "answer" /\ ops'[Asked(c)].state = "completed" /\ cap'[c] = cap[c]
    BY <1>0, <1>4 DEF Reconcile, See, SetOp, CallsTyped, LedgerTyped
  <2> QED
    BY <2>1 DEF CallKnows, Executing, Asked, MyInv
<1>5. CASE ReadAgain(c)
  <2>1. pc'[c] \in {"persist", "prepare"}
    BY <1>0, <1>5 DEF ReadAgain, AfterRecord, See, CallsTyped
  <2> QED
    BY <2>1 DEF CallKnows, Executing
<1>6. CASE Start(c)
  <2>1. \/ pc'[c] = "startConflict"
        \/ /\ pc'[c] = "beat" /\ cap'[c] = cap[c]
           /\ ops[Asked(c)].state = "reserved" /\ ops'[Asked(c)].state = "running"
           /\ effects' = effects
    BY <1>0, <1>6 DEF Start, Startable, Goto, SetOp, CallsTyped, LedgerTyped
  <2> QED
    BY <1>0, <2>1 DEF CallKnows, Executing, UnstartedHasNoEffect, Asked, MyInv
<1>7. CASE StartConflict(c)
  <2>1. \/ pc'[c] = "persist"
        \/ /\ pc'[c] = "answer" /\ cap'[c] = cap[c]
           /\ ops[Asked(c)].state = "completed" /\ UNCHANGED ops
    BY <1>0, <1>7 DEF StartConflict, AfterConflict, Goto, CallsTyped, ledger
  <2> QED
    BY <2>1 DEF CallKnows, Executing, Asked, MyInv
<1>8. CASE Beat(c)
  <2>1. \/ pc'[c] = "idle"
        \/ pc'[c] = "handler" /\ cap'[c] = cap[c] /\ Executing(c)
           /\ UNCHANGED <<ops, effects>>
    BY <1>0, <1>8 DEF Beat, Goto, Done, CallsTyped, Executing, ledger
  <2> QED
    BY <1>0, <2>1 DEF CallKnows, Executing, Asked, MyInv
<1>9. CASE RunHandler(c)
  <2>1. \/ pc'[c] \in {"fail", "unknown"}
        \/ /\ pc'[c] = "complete" /\ cap'[c] = cap[c]
           /\ effects'[Asked(c)] = effects[Asked(c)] + 1
    BY <1>0, <1>9 DEF RunHandler, Goto, CallsTyped, LedgerTyped
  <2>2. effects[Asked(c)] \in Nat
    BY <1>0 DEF LedgerTyped
  <2> QED
    BY <2>1, <2>2 DEF CallKnows, Executing, Asked, MyInv
<1>10. CASE Complete(c)
  <2>1. \/ pc'[c] \in {"persist", "idle"}
        \/ /\ pc'[c] = "answer" /\ cap'[c] = cap[c]
           /\ ops'[Asked(c)].state = "completed"
    BY <1>0, <1>10 DEF Complete, Goto, Done, SetOp, CallsTyped, LedgerTyped
  <2> QED
    BY <2>1 DEF CallKnows, Executing, Asked, MyInv
<1> QED
  BY <1>1, <1>2, <1>3, <1>4, <1>5, <1>6, <1>7, <1>8, <1>9, <1>10 DEF Serve

\* A step of a call keeps it.
LEMMA ServeOperationInv ==
    ASSUME OperationInv, NEW c \in Calls, Serve(c)
    PROVE  OperationInv'
<1>0. /\ pc[c] # "idle" /\ LedgerTyped /\ CallsTyped /\ Asked(c) \in Operations
      /\ TypeOK'
  <2>1. TypeOK'
    BY NextTyped DEF OperationInv, Next
  <2> QED
    BY <2>1, ServeBusy, TypeGroups, RequestFields DEF OperationInv
<1>1. /\ \A d \in Calls \ {c} : /\ pc'[d] = pc[d] /\ seen'[d] = seen[d]
                               /\ Asked(d)' = Asked(d) /\ Executing(d)' = Executing(d)
      /\ Executing(c)' => Asked(c)' = Asked(c)
  BY OthersStay, ServeKnows DEF Asked, MyInv, Executing
<1>2. \/ UNCHANGED effects
      \/ /\ Executing(c) /\ UNCHANGED ops
         /\ effects'[Asked(c)] = 1
         /\ \A k \in Operations \ {Asked(c)} : effects'[k] = effects[k]
  BY <1>0, ServeEffects DEF OperationInv, CallKnows, LedgerTyped
<1>3. OpsKept
  BY ServeKeepsOps
<1>4. \A d \in Calls : CallKnows(d)'
  <2>1. CallKnows(c)'
    BY ServeKnows
  <2>2. ASSUME NEW d \in Calls \ {c} PROVE CallKnows(d)'
    <3>1. CASE pc[d] = "idle"
      BY <1>1, <2>2, <3>1 DEF CallKnows, Executing
    <3>2. CASE pc[d] # "idle"
      <4>1. Asked(d) \in Operations /\ CallKnows(d)
        BY <1>0, <3>2, RequestFields DEF OperationInv
      <4>2. OpKept(Asked(d))
        BY <1>3, <4>1 DEF OpsKept
      <4>3. Executing(d) => effects'[Asked(d)] = 0
        BY <1>2, <4>1 DEF OperationInv, OneExecutes, CallKnows
      <4>4. effects[Asked(d)] > 0 => effects'[Asked(d)] > 0
        BY <1>2, <4>1
      <4> QED
        BY <1>1, <4>1, <4>2, <4>3, <4>4 DEF CallKnows, OpKept
    <3> QED
      BY <3>1, <3>2
  <2> QED
    BY <2>1, <2>2
<1>5. OneExecutes'
  <2>1. ASSUME NEW d \in Calls \ {c}, Executing(d), Executing(c)', Asked(d) = Asked(c)
        PROVE  FALSE
    <3>1. Executing(c) \/ ops[Asked(c)].state = "reserved"
      BY <2>1, ServeKnows
    <3> QED
      BY <2>1, <3>1 DEF OperationInv, OneExecutes, CallKnows
  <2> QED
    BY <1>1, <2>1 DEF OperationInv, OneExecutes
<1>6. UnstartedHasNoEffect' /\ EffectAtMostOnce' /\ CompletedMeansEffect'
  <2>1. ASSUME NEW k \in Operations
        PROVE  /\ ops'[k].state \in {"absent", "reserved"} => effects'[k] = 0
               /\ effects'[k] <= 1
               /\ ops'[k].state = "completed" => effects'[k] > 0
    <3>0. /\ effects[k] \in Nat /\ effects[k] <= 1
          /\ ops[k].state = "completed" => effects[k] > 0
          /\ ops[k].state \in {"absent", "reserved"} => effects[k] = 0
          /\ Executing(c) => ops[Asked(c)].state \notin {"absent", "reserved"}
      BY <1>0 DEF OperationInv, EffectAtMostOnce, CompletedMeansEffect,
                  UnstartedHasNoEffect, CallKnows, LedgerTyped
    <3>1. OpKept(k)
      BY <1>3 DEF OpsKept
    <3>2. ops'[k].state = "completed" => effects[k] > 0
      BY <3>0, CompletedAfterEffect
    <3> QED
      BY <1>2, <3>0, <3>1, <3>2 DEF OpKept
  <2> QED
    BY <2>1 DEF UnstartedHasNoEffect, EffectAtMostOnce, CompletedMeansEffect
<1>7. AnsweredMeansCompleted'
  <2>1. ASSUME NEW t \in Turns, NEW key \in Keys, invs'[<<t, key>>] = "completed"
        PROVE  ops'[OpOf[<<t, key>>]].state = "completed"
    <3>1. OpOf[<<t, key>>] \in Operations
      BY OpOfAssumption
    <3>2. ops[OpOf[<<t, key>>]].state = "completed"
      <4>1. CASE invs[<<t, key>>] = "completed"
        BY <4>1 DEF OperationInv, AnsweredMeansCompleted
      <4>2. CASE invs[<<t, key>>] # "completed"
        BY <2>1, <4>2, ServeInvocations DEF OperationInv, CallKnows, Asked
      <4> QED
        BY <4>1, <4>2
    <3> QED
      BY <1>3, <3>1, <3>2 DEF OpsKept, OpKept
  <2> QED
    BY <2>1 DEF AnsweredMeansCompleted
<1> QED
  BY <1>0, <1>4, <1>5, <1>6, <1>7 DEF OperationInv

\* A new request is at the beginning; the environment leaves the ledger alone.
LEMMA NextOperationInv == OperationInv /\ [Next]_vars => OperationInv'
<1> SUFFICES ASSUME OperationInv, [Next]_vars PROVE OperationInv'
  OBVIOUS
<1>0. TypeOK' /\ CallsTyped
  BY NextTyped, TypeGroups DEF OperationInv
<1>1. ASSUME NEW c \in Calls, Serve(c) PROVE OperationInv'
  BY <1>1, ServeOperationInv
<1>2. ASSUME NEW c \in Calls, NEW t \in Turns, NEW key \in Keys, Begin(c, t, key)
      PROVE  OperationInv'
  <2>1. /\ pc'[c] = "reserveInv"
        /\ \A d \in Calls \ {c} : pc'[d] = pc[d] /\ cap'[d] = cap[d] /\ seen'[d] = seen[d]
        /\ UNCHANGED <<ops, invs, effects>>
    BY <1>0, <1>2 DEF Begin, CallsTyped, ledger
  <2>2. \A d \in Calls : CallKnows(d)'
    BY <2>1 DEF OperationInv, CallKnows, Executing, Asked, MyInv
  <2>3. OneExecutes'
    BY <2>1 DEF OperationInv, OneExecutes, Executing, Asked, MyInv
  <2> QED
    BY <1>0, <2>1, <2>2, <2>3 DEF OperationInv, UnstartedHasNoEffect, EffectAtMostOnce,
                              CompletedMeansEffect, AnsweredMeansCompleted
<1>3. CASE UNCHANGED <<ledger, calls, effects>>
  BY <1>0, <1>3 DEF OperationInv, CallKnows, OneExecutes, Executing, Asked, MyInv,
     UnstartedHasNoEffect, EffectAtMostOnce, CompletedMeansEffect,
     AnsweredMeansCompleted, ledger, calls
<1>4. ASSUME NEW t \in Turns,
             Create(t) \/ Claim(t) \/ Renew(t) \/ End(t) \/ Cancel(t) \/ Tick
      PROVE  UNCHANGED <<ledger, calls, effects>>
  BY <1>4 DEF Create, Claim, Renew, End, Cancel, Tick
<1> QED
  BY <1>1, <1>2, <1>3, <1>4 DEF Next, Tick, vars, ledger, calls

\* It holds in every reachable state.
LEMMA OperationInvAlways == Spec => []OperationInv
  BY InitOperationInv, NextOperationInv, PTL DEF Spec

\* The side effect of an operation takes place at most once, however many
\* claims, Turns and calls ask for it and whatever becomes of them.
THEOREM EffectAtMostOnceAlways == Spec => []EffectAtMostOnce
<1>1. OperationInv => EffectAtMostOnce
  BY DEF OperationInv
<1> QED
  BY <1>1, OperationInvAlways, PTL

\* The ledger says completed only of an operation whose effect took place.
THEOREM CompletedMeansEffectAlways == Spec => []CompletedMeansEffect
<1>1. OperationInv => CompletedMeansEffect
  BY DEF OperationInv
<1> QED
  BY <1>1, OperationInvAlways, PTL

\* A result is given only for an operation that is completed in the ledger.
THEOREM AnsweredMeansCompletedAlways == Spec => []AnsweredMeansCompleted
<1>1. OperationInv => AnsweredMeansCompleted
  BY DEF OperationInv
<1> QED
  BY <1>1, OperationInvAlways, PTL

\* The outcome of an operation is never taken back.
THEOREM OutcomeStaysAlways == Spec => OutcomeStays
<1> DEFINE Kept == \A k \in Operations : ops[k].state \in {"completed", "failed"} =>
                                           ops'[k].state = ops[k].state
<1>1. OperationInv /\ [Next]_vars => [Kept]_vars
  <2> SUFFICES ASSUME OperationInv, Next PROVE Kept
    BY DEF vars
  <2>1. ASSUME NEW c \in Calls, Serve(c) PROVE Kept
    BY <2>1, ServeKeepsOps DEF OpsKept, OpKept
  <2>2. CASE UNCHANGED ops
    BY <2>2
  <2> QED
    BY <2>1, <2>2 DEF Next, Begin, Create, Claim, Renew, End, Cancel, Tick, ledger
<1> QED
  BY <1>1, OperationInvAlways, PTL DEF Spec, OutcomeStays

=============================================================================
