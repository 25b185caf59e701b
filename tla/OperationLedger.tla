---------------------------- MODULE OperationLedger ----------------------------
(***************************************************************************)
(* Side effects of an agent's tool calls: agent/tool_gateway.py (invoke),  *)
(* the operation ledger (agent/operation_ledger.py), its attempts          *)
(* (agent/operation_attempts.py) and its reconciler                        *)
(* (agent/operation_reconciler.py).                                        *)
(*                                                                         *)
(* A Turn asks for an operation through an invocation.  An operation is    *)
(* named by what is asked, not by the Turn, so a later claim of the Turn,  *)
(* and a later Turn of its session, ask for the same one.  The API serves  *)
(* every request in a thread of its own: a call.  Each transaction of a    *)
(* call, and the tool's handler, is an action; a call holds the capability *)
(* of one claim of a Turn, which may be over by the time it is used.       *)
(* The worker of AgentTurns is the environment here: its claims, renewals, *)
(* ends and cancels of Turns, and the clock.                               *)
(***************************************************************************)
EXTENDS AgentTurnTable

CONSTANTS
    Operations,    \* the operation_keys asked for in one session
    Keys,          \* the idempotency_keys of a Turn's invocations
    OpOf,          \* the operation that an invocation asks for
    Calls,         \* the requests the API serves at a time
    None,          \* no Turn, no key
    MaxFence,      \* bound: the claims of each Turn
    Cancellable    \* bound: the Turns the user cancels

ASSUME NoneAssumption == None \notin Turns \cup Keys
ASSUME OpOfAssumption == OpOf \in [Turns \X Keys -> Operations]
ASSUME OneSessionAssumption == \A t, u \in Turns : SessionOf[t] = SessionOf[u]
ASSUME BoundsAssumption == MaxFence \in [Turns -> Nat] /\ Cancellable \subseteq Turns

VARIABLES
    ops,       \* the rows of agent_operations and agent_operation_attempts
    invs,      \* the state of each row of agent_tool_invocations
    pc,        \* what each call does next
    cap,       \* its capability (a Turn, the token of its claim), its key
    seen,      \* the state of the record it reconciles
    effects    \* how often an operation's side effect took place

ledger == <<ops, invs>>
calls == <<pc, cap, seen>>
vars == <<turns, sessions, ops, invs, pc, cap, seen, effects>>

-----------------------------------------------------------------------------

OpState == {"absent", "reserved", "running", "completed", "failed", "unknown", "stale"}
InvState == {"absent", "running", "completed", "failed"}
PC == {"idle", "reserveInv", "reserveOp", "classify", "markStale",
       "readStale", "reconcile", "readAgain", "prepare", "start",
       "startConflict", "beat", "handler", "complete", "fail", "unknown",
       "answer", "persist"}

Identity == [turn: Turns \cup {None}, fence: Nat]
NoIdentity == [turn |-> None, fence |-> 0]
NoOperation == [state |-> "absent", origin |-> None, attempt |-> NoIdentity]

Request == [id: [turn: Turns, fence: Nat], key: Keys]
NoRequest == [id |-> NoIdentity, key |-> None]

TypeOK ==
    /\ turns \in [Turns -> TurnRow]
    /\ sessions \in [Sessions -> SessionState]
    /\ ops \in [Operations -> [state: OpState, origin: Turns \cup {None},
                               attempt: Identity]]
    /\ invs \in [Turns \X Keys -> InvState]
    /\ pc \in [Calls -> PC]
    /\ cap \in [Calls -> Request \cup {NoRequest}]
    /\ seen \in [Calls -> OpState]
    /\ effects \in [Operations -> Nat]
    /\ \A c \in Calls : pc[c] = "idle" <=> cap[c] = NoRequest

Init ==
    /\ TablesInit
    /\ ops = [k \in Operations |-> NoOperation]
    /\ invs = [i \in Turns \X Keys |-> "absent"]
    /\ pc = [c \in Calls |-> "idle"]
    /\ cap = [c \in Calls |-> NoRequest]
    /\ seen = [c \in Calls |-> "absent"]
    /\ effects = [k \in Operations |-> 0]

\* What every transaction asks of the Turn: running under that claim, within
\* its lease, and not cancelled.
Current(id) ==
    LET turn == turns[id.turn]
    IN  /\ turn.state = "running" /\ turn.fence = id.fence
        /\ turn.leaseLeft > 0 /\ ~turn.cancel

Me(c) == cap[c].id
MyInv(c) == <<cap[c].id.turn, cap[c].key>>
Asked(c) == OpOf[MyInv(c)]

\* start, complete, fail and mark_unknown ask it of the operation's own Turn.
OriginHolds(c) ==
    /\ ops[Asked(c)].origin # None
    /\ Current([turn |-> ops[Asked(c)].origin, fence |-> Me(c).fence])

Goto(c, place) == pc' = [pc EXCEPT ![c] = place] /\ UNCHANGED <<cap, seen>>

Done(c) ==
    /\ pc' = [pc EXCEPT ![c] = "idle"]
    /\ cap' = [cap EXCEPT ![c] = NoRequest]
    /\ seen' = [seen EXCEPT ![c] = "absent"]

\* With a record in state it has just read; only the reconciler looks at it later.
See(c, state, place) ==
    /\ pc' = [pc EXCEPT ![c] = place]
    /\ seen' = [seen EXCEPT ![c] = IF place = "reconcile" THEN state ELSE "absent"]
    /\ UNCHANGED cap
SetOp(k, state) == ops' = [ops EXCEPT ![k].state = state]

-----------------------------------------------------------------------------
\* The environment: the worker process, the user and the clock.

Create(t) == CreateTurn(t) /\ UNCHANGED <<ledger, calls, effects>>

Claim(t) ==
    /\ ClaimableTurn(t) /\ turns[t].fence < MaxFence[t]
    /\ \E id \in WorkerIds : ClaimTurn(t, id)
    /\ UNCHANGED <<ledger, calls, effects>>

Renew(t) ==
    /\ turns[t].state = "running" /\ turns[t].leaseLeft > 0
    /\ RenewTurn(t)
    /\ UNCHANGED <<ledger, calls, effects>>

\* Whatever its outcome: completed stands for the three.
End(t) ==
    /\ turns[t].state = "running"
    /\ \/ CompleteTurn(t, "completed", FALSE)
       \/ InterruptTurn(t, FALSE)
    /\ UNCHANGED <<ledger, calls, effects>>

Cancel(t) ==
    /\ t \in Cancellable /\ RequestCancel(t)
    /\ UNCHANGED <<ledger, calls, effects>>

Tick ==
    /\ \E t \in Turns : turns[t].leaseLeft > 0
    /\ ElapseTurns
    /\ UNCHANGED <<ledger, calls, effects>>

-----------------------------------------------------------------------------
\* invoke, up to the operation.

\* pilot-agentd calls with the capability of the claim it executes.
Begin(c, t, key) ==
    /\ pc[c] = "idle"
    /\ turns[t].state = "running" /\ ~turns[t].cancel
    /\ pc' = [pc EXCEPT ![c] = "reserveInv"]
    /\ cap' = [cap EXCEPT ![c] = [id |-> [turn |-> t, fence |-> turns[t].fence],
                                  key |-> key]]
    /\ UNCHANGED <<tables, ledger, seen, effects>>

\* reserve_tool_invocation: a row that is there already is replayed.
ReserveInvocation(c) ==
    /\ pc[c] = "reserveInv"
    /\ IF invs[MyInv(c)] = "absent" /\ Current(Me(c))
       THEN invs' = [invs EXCEPT ![MyInv(c)] = "running"] /\ Goto(c, "reserveOp")
       ELSE UNCHANGED invs /\ Done(c)
    /\ UNCHANGED <<tables, ops, effects>>

\* A budget is used up (get_turn_tool_usage), or the tool is not there.
Refuse(c) ==
    /\ pc[c] = "reserveOp" /\ Current(Me(c))
    /\ Goto(c, "persist")
    /\ UNCHANGED <<tables, ledger, effects>>

\* Whether the record another request left is put to the reconciler, and what
\* is done with a record that is not, or that it could not resolve.
ToReconcile(c, state) ==
    \/ state \in {"unknown", "stale"}
    \/ state = "running" /\ ops[Asked(c)].origin # Me(c).turn

AfterRecord(state) ==
    IF state \in {"running", "stale", "unknown"} THEN "persist" ELSE "prepare"

\* The ledger's reserve: INSERT OR IGNORE, then the row that is there.
ReserveOperation(c) ==
    LET k == Asked(c)
        state == ops[k].state
    IN  /\ pc[c] = "reserveOp"
        /\ CASE ~Current(Me(c)) -> Done(c) /\ UNCHANGED ops
             [] Current(Me(c)) /\ state = "absent" ->
                   /\ ops' = [ops EXCEPT ![k] = [@ EXCEPT !.state = "reserved",
                                                          !.origin = Me(c).turn]]
                   /\ See(c, "reserved", "prepare")
             [] OTHER ->
                   /\ See(c, state, CASE state = "completed" -> "answer"
                                      [] state = "failed" -> "persist"
                                      [] state = "running" -> "classify"
                                      [] state \in {"unknown", "stale"} -> "reconcile"
                                      [] OTHER -> "prepare")
                   /\ UNCHANGED ops
        /\ UNCHANGED <<tables, invs, effects>>

\* classify: whose attempt is it.
Classify(c) ==
    LET attempt == ops[Asked(c)].attempt
    IN  /\ pc[c] = "classify"
        /\ See(c, "running", IF attempt \notin {NoIdentity, Me(c)} THEN "markStale"
                             ELSE IF ToReconcile(c, "running") THEN "reconcile"
                             ELSE "persist")
        /\ UNCHANGED <<tables, ledger, effects>>

\* mark_stale; the operation may have left running since.
MarkStale(c) ==
    LET k == Asked(c)
    IN  /\ pc[c] = "markStale"
        /\ IF Current(Me(c)) /\ ops[k].state = "running"
           THEN /\ IF ops[k].attempt \in {NoIdentity, Me(c)} THEN UNCHANGED ops
                   ELSE SetOp(k, "stale")
                /\ Goto(c, "readStale")
           ELSE Done(c) /\ UNCHANGED ops
        /\ UNCHANGED <<tables, invs, effects>>

ReadStale(c) ==
    LET state == ops[Asked(c)].state
    IN  /\ pc[c] = "readStale"
        /\ See(c, state, IF ToReconcile(c, state) THEN "reconcile" ELSE AfterRecord(state))
        /\ UNCHANGED <<tables, ledger, effects>>

\* (Mutants) A resolution that takes the request for its outcome, and
\* UPDATE ... WHERE operation_key = ? alone.
ProvableAnyway(k) == {TRUE, FALSE}
ReconcilableAnyState(k) == ops[k].state # "absent"

\* _resolution: a receipt of the domain proves that the effect took place.
\* Some tools have no receipt, and the authority may be out of reach.
Provable(k) == {effects[k] > 0, FALSE}

\* The states commit_resolution and note_unresolved may overwrite.
Reconcilable(k) == ops[k].state \in {"running", "stale", "unknown"}

\* What note_unresolved writes follows from the record that was read.
UnresolvedState(c) == IF seen[c] = "running" THEN "stale" ELSE seen[c]

\* reconcile; losing its state race raises and is caught.
Reconcile(c) ==
    LET k == Asked(c)
    IN  /\ pc[c] = "reconcile"
        /\ IF Current(Me(c)) /\ Reconcilable(k)
           THEN \E proved \in Provable(k) :
                   IF proved
                   THEN SetOp(k, "completed") /\ See(c, "completed", "answer")
                   ELSE SetOp(k, UnresolvedState(c)) /\ See(c, "absent", "readAgain")
           ELSE See(c, "absent", "readAgain") /\ UNCHANGED ops
        /\ UNCHANGED <<tables, invs, effects>>

ReadAgain(c) ==
    LET state == ops[Asked(c)].state
    IN  /\ pc[c] = "readAgain"
        /\ See(c, state, AfterRecord(state))
        /\ UNCHANGED <<tables, ledger, effects>>

-----------------------------------------------------------------------------
\* The execution of an operation.

\* prepare: the attempt of an earlier claim is replaced.
Prepare(c) ==
    LET k == Asked(c)
    IN  /\ pc[c] = "prepare"
        /\ IF Current(Me(c)) /\ ops[k].state = "reserved"
           THEN ops' = [ops EXCEPT ![k].attempt = Me(c)] /\ Goto(c, "start")
           ELSE Done(c) /\ UNCHANGED ops
        /\ UNCHANGED <<tables, invs, effects>>

\* (Mutant) A start that does not look at the operation's state.
StartableAnyState(c) == OriginHolds(c)

Startable(c) == ops[Asked(c)].state = "reserved" /\ OriginHolds(c)

Start(c) ==
    /\ pc[c] = "start"
    /\ IF Startable(c) THEN SetOp(Asked(c), "running") /\ Goto(c, "beat")
       ELSE Goto(c, "startConflict") /\ UNCHANGED ops
    /\ UNCHANGED <<tables, invs, effects>>

\* (Mutant) Whoever started it will have completed it.
AfterConflictAnswer(state) == "answer"

AfterConflict(state) == IF state = "completed" THEN "answer" ELSE "persist"

StartConflict(c) ==
    /\ pc[c] = "startConflict"
    /\ Goto(c, AfterConflict(ops[Asked(c)].state))
    /\ UNCHANGED <<tables, ledger, effects>>

\* The first heartbeat; a refusal leaves the operation running.
Beat(c) ==
    LET op == ops[Asked(c)]
    IN  /\ pc[c] = "beat"
        /\ IF op.state = "running" /\ op.attempt = Me(c) /\ Current(Me(c))
           THEN Goto(c, "handler") ELSE Done(c)
        /\ UNCHANGED <<tables, ledger, effects>>

\* The handler: it returns a result, having had its effect; or it raises, an
\* error of the gateway or another one, before or after it.  A heartbeat that
\* failed meanwhile, or a result without form, counts as another error.
RunHandler(c) ==
    LET k == Asked(c)
    IN  /\ pc[c] = "handler"
        /\ \/ /\ effects' = [effects EXCEPT ![k] = @ + 1]
              /\ \E place \in {"complete", "fail", "unknown"} : Goto(c, place)
           \/ /\ UNCHANGED effects
              /\ \E place \in {"fail", "unknown"} : Goto(c, place)
        /\ UNCHANGED <<tables, ledger>>

Finishable(c) == ops[Asked(c)].state = "running" /\ OriginHolds(c)

\* complete; then the answer, or a byte budget that is exceeded by it.  Without
\* the row the call is fenced, unless somebody stored the very same result.
Complete(c) ==
    /\ pc[c] = "complete"
    /\ IF Finishable(c)
       THEN /\ SetOp(Asked(c), "completed")
            /\ \E place \in {"answer", "persist"} : Goto(c, place)
       ELSE /\ \/ ops[Asked(c)].state = "completed" /\ Goto(c, "answer")
               \/ Done(c)
            /\ UNCHANGED ops
    /\ UNCHANGED <<tables, invs, effects>>

Fail(c) ==
    /\ pc[c] = "fail"
    /\ IF Finishable(c) THEN SetOp(Asked(c), "failed") /\ Goto(c, "persist")
       ELSE Done(c) /\ UNCHANGED ops
    /\ UNCHANGED <<tables, invs, effects>>

\* mark_unknown; a conflict is suppressed.
MarkUnknown(c) ==
    /\ pc[c] = "unknown"
    /\ IF Finishable(c) THEN SetOp(Asked(c), "unknown") ELSE UNCHANGED ops
    /\ Goto(c, "persist")
    /\ UNCHANGED <<tables, invs, effects>>

-----------------------------------------------------------------------------
\* finish_tool_invocation.

FinishInvocation(c, state) ==
    /\ IF invs[MyInv(c)] = "running" /\ Current(Me(c))
       THEN invs' = [invs EXCEPT ![MyInv(c)] = state]
       ELSE UNCHANGED invs
    /\ Done(c)
    /\ UNCHANGED <<tables, ops, effects>>

Answer(c) == pc[c] = "answer" /\ FinishInvocation(c, "completed")
PersistFailure(c) == pc[c] = "persist" /\ FinishInvocation(c, "failed")

\* The API dies, with the call it serves.
Crash(c) ==
    /\ pc[c] # "idle"
    /\ Done(c)
    /\ UNCHANGED <<tables, ledger, effects>>

-----------------------------------------------------------------------------

Serve(c) ==
    \/ ReserveInvocation(c) \/ Refuse(c) \/ ReserveOperation(c)
    \/ Classify(c) \/ MarkStale(c) \/ ReadStale(c)
    \/ Reconcile(c) \/ ReadAgain(c)
    \/ Prepare(c) \/ Start(c) \/ StartConflict(c) \/ Beat(c) \/ RunHandler(c)
    \/ Complete(c) \/ Fail(c) \/ MarkUnknown(c)
    \/ Answer(c) \/ PersistFailure(c) \/ Crash(c)

Next ==
    \/ \E c \in Calls :
          \/ \E t \in Turns, key \in Keys : Begin(c, t, key)
          \/ Serve(c)
    \/ \E t \in Turns : Create(t) \/ Claim(t) \/ Renew(t) \/ End(t) \/ Cancel(t)
    \/ Tick

Spec == Init /\ [][Next]_vars

-----------------------------------------------------------------------------
\* Properties.

\* However often an operation is asked for - at the same time, by a later
\* claim of its Turn or by a later Turn, with its first execution dead, late
\* or still under way - its side effect takes place once (invoke, start).
EffectAtMostOnce == \A k \in Operations : effects[k] <= 1

\* An operation is completed only if its effect took place, whether the tool's
\* own call stored that or a reconciler did (complete, _commit_resolution).
CompletedMeansEffect ==
    \A k \in Operations : ops[k].state = "completed" => effects[k] > 0

\* An invocation is answered with a result only if the operation it asked for
\* is completed in the ledger (_replay_completed_operation, invoke).
AnsweredMeansCompleted ==
    \A t \in Turns, key \in Keys : invs[<<t, key>>] = "completed" =>
        ops[OpOf[<<t, key>>]].state = "completed"

\* Nobody takes an outcome back: neither a reconciler that writes what it read
\* before (note_unresolved) nor a handler that returns after its operation was
\* resolved without it.
OutcomeStays ==
    [][\A k \in Operations : ops[k].state \in {"completed", "failed"} =>
          ops'[k].state = ops[k].state]_vars

=============================================================================
