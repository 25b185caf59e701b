------------------------------ MODULE AgentTasks ------------------------------
(***************************************************************************)
(* A validation task of the agent: the table agent_tasks of                *)
(* src/pilot107/agent/task_store.py and the service that works on it,      *)
(* services/agent_task_service.py.  A tool call of a Turn schedules it; a  *)
(* worker dispatches it into a Run, later passes reconcile it with the     *)
(* Run, its evidence and its Capsule, and once it is over a follow-up Turn *)
(* wakes the Session.  Both are messages of the control outbox.            *)
(*                                                                         *)
(* Tasks share nothing but the workers, so there is one.  A lease is worth *)
(* something only while fencing_token and version of the row are the ones  *)
(* it was given with; task.holder names the process of which that is so.   *)
(* Left out: AUTH_REQUIRED, into which no code puts a Run, and ORPHANED    *)
(* and COLLECTION_FAILED, which end a task as SUBMIT_FAILED and a failed   *)
(* collection do.                                                          *)
(***************************************************************************)
EXTENDS OutboxTable, FiniteSets

CONSTANTS
    Workers,        \* processes that run dispatch_due and reconcile_active
    Clients,        \* API requests: the tool call, its repetition, a cancel
    IdOf,           \* the worker_id of each worker
    Nobody,         \* no holder of the task
    NoMessage,
    MaxAttempts,    \* max_attempts of the service
    MaxStamps,      \* bound: no Capsule build is begun once the Run has this stamp
    MaxRequests,    \* bound: repetitions and cancels
    MaxFaults       \* bound: crashes, leases outlived, authorities that fail

ASSUME ProcessesAssumption ==
    /\ IsFiniteSet(Workers) /\ Workers \cap Clients = {}
    /\ Nobody \notin Workers /\ IdOf \in [Workers -> Owners]
ASSUME MessagesAssumption ==
    Messages = {"execute", "replay", "ready"} /\ NoMessage \notin Messages
ASSUME BoundsAssumption ==
    MaxAttempts \in Nat \ {0} /\ {MaxStamps, MaxRequests, MaxFaults} \subseteq Nat

VARIABLES
    task,       \* the row of the task
    run,        \* its Run and the evidence of it; stamp stands for updated_at
    turn,       \* the outcome the follow-up Turn tells of, or "none"
    pc,         \* what each process does next
    local,      \* what it knows: its message, what it read, what it will store
    requests, faults

world == <<run, turn>>
mine == <<pc, local>>
vars == <<outbox, task, world, mine, requests, faults>>

Processes == Workers \cup Clients
Over == {"succeeded", "failed", "cancelled"}

\* _GATE_STATE_RANK, of the gate states the service writes.
Rank == [created |-> 0, pending |-> 3, awaiting_run_terminal |-> 5,
         awaiting_evidence |-> 6, awaiting_integrity |-> 7, awaiting_capsule |-> 8,
         completed |-> 9, cancelled |-> 9, failed |-> 9, blocked |-> 9]

NoReceipt == 0
Stamps == 1..(MaxStamps + 2)

\* needsCapsule: completion_policy.requires_capsule.
TaskRow == [state: {"absent", "pending", "running"} \cup Over, gate: DOMAIN Rank,
            holder: Workers \cup {Nobody}, leaseLeft: 0..LeaseTicks,
            cancelRequested: BOOLEAN, linked: BOOLEAN, needsCapsule: BOOLEAN,
            receipt: Stamps \cup {NoReceipt}, readyPending: BOOLEAN, expired: BOOLEAN]

TerminalRunStates == {"succeeded", "failed", "submit_failed", "cancelled"}
CapsuleState == {"pending", "running", "ready", "failed"}
RunRow == [state: {"absent", "validated", "submitting", "live"} \cup TerminalRunStates,
           job: BOOLEAN, collection: {"pending", "succeeded", "failed"},
           capsule: CapsuleState, evidence: {"open", "sealed", "broken"}, stamp: Stamps]

PC == {"idle", "enqueue", "read", "take", "check", "prepare", "link", "submit",
       "schedule", "release", "ack", "retry", "abort", "wake",
       "reconcile", "cancelRun", "wait", "verify", "gate", "revalidate", "finalize",
       "finish", "persist", "announce", "mark", "announceLate", "markLate"}

Local == [message: Messages \cup {NoMessage}, token: Nat, gate: DOMAIN Rank,
          outcome: Over \cup {"none"}, capsule: CapsuleState,
          receipt: Stamps \cup {NoReceipt}]
NoLocal == [message |-> NoMessage, token |-> 0, gate |-> "created", outcome |-> "none",
            capsule |-> "pending", receipt |-> NoReceipt]

TypeOK ==
    /\ outbox \in [Messages -> Row]
    /\ task \in TaskRow /\ run \in RunRow
    /\ turn \in Over \cup {"none"}
    /\ pc \in [Processes -> PC] /\ local \in [Processes -> Local]
    /\ requests \in 0..MaxRequests /\ faults \in 0..MaxFaults
    /\ \A p \in Processes : pc[p] = "idle" => local[p] = NoLocal
    /\ task.holder # Nobody => task.state = "running"

Init ==
    /\ OutboxInit
    /\ task = [state |-> "absent", gate |-> "created", holder |-> Nobody,
               leaseLeft |-> 0, cancelRequested |-> FALSE, linked |-> FALSE,
               needsCapsule |-> FALSE, receipt |-> NoReceipt,
               readyPending |-> FALSE, expired |-> FALSE]
    /\ run = [state |-> "absent", job |-> FALSE, collection |-> "pending",
              capsule |-> "pending", evidence |-> "open", stamp |-> 1]
    /\ turn = "none"
    /\ pc = [p \in Processes |-> "idle"]
    /\ local = [p \in Processes |-> NoLocal]
    /\ requests = 0 /\ faults = 0

Ask == requests < MaxRequests /\ requests' = requests + 1
Fail == faults < MaxFaults /\ faults' = faults + 1

Goto(p, place) == pc' = [pc EXCEPT ![p] = place] /\ UNCHANGED local

Leave(p) ==
    /\ pc' = [pc EXCEPT ![p] = "idle"]
    /\ local' = [local EXCEPT ![p] = NoLocal]

\* Where the outcome is stored, or the wait for something.
Decide(p, place, gate, outcome) ==
    /\ pc' = [pc EXCEPT ![p] = place]
    /\ local' = [local EXCEPT ![p].gate = gate, ![p].outcome = outcome]

\* The end of a handler: an execute message is left to acknowledge.
AfterHandling(p) == IF local[p].message = NoMessage THEN Leave(p) ELSE Goto(p, "ack")

HoldsMyMessage(p) == Holds(local[p].message, IdOf[p], local[p].token)

-----------------------------------------------------------------------------
\* The row of the task, one transaction of the store each.

Takeable(t) ==
    \/ t.state = "pending" /\ ~t.cancelRequested /\ ~t.expired
    \/ t.state = "running" /\ (t.holder = Nobody \/ t.leaseLeft = 0)

TakeTask(p) ==
    /\ Takeable(task)
    /\ task' = [task EXCEPT !.state = "running", !.holder = p, !.leaseLeft = LeaseTicks]

\* _assert_lease.
Leased(p) == task.state = "running" /\ task.holder = p /\ task.leaseLeft > 0

\* advance_gate; its receipt is for ever.
Advances(p, gate) == Leased(p) /\ Rank[gate] >= Rank[task.gate]

\* (Mutant) A row that is over and still leased.
CompletedHeld(t, outcome) ==
    [t EXCEPT !.state = outcome, !.readyPending = TRUE]

\* (Mutant) The intent to tell the Session is left to the message.
CompletedQuietly(t, outcome) ==
    [t EXCEPT !.state = outcome, !.holder = Nobody, !.leaseLeft = 0]

Completed(t, outcome) ==
    [t EXCEPT !.state = outcome, !.readyPending = TRUE,
              !.holder = Nobody, !.leaseLeft = 0]

-----------------------------------------------------------------------------
\* API requests.

\* schedule_validation: create_task, then the message.
CreateTask(c) ==
    /\ pc[c] = "idle" /\ task.state = "absent"
    /\ \E capsule \in BOOLEAN :
          task' = [task EXCEPT !.state = "pending", !.needsCapsule = capsule]
    /\ Goto(c, "enqueue")
    /\ UNCHANGED <<outbox, world, requests, faults>>

Enqueue(c) ==
    /\ pc[c] = "enqueue"
    /\ InsertMessage("execute")
    /\ Leave(c)
    /\ UNCHANGED <<task, world, requests, faults>>

\* The same call again: create_task finds the row, and the message is named by
\* the version it has by now.
RepeatCall(c) ==
    /\ pc[c] = "idle" /\ task.state # "absent" /\ Ask
    /\ InsertMessage(IF task.state = "pending" THEN "execute" ELSE "replay")
    /\ UNCHANGED <<task, world, mine, faults>>

\* request_cancel of the store, and where the service goes with the row.
\* (A second cancel of a task that is cancelled only announces it again.)
RequestCancel(c) ==
    /\ pc[c] = "idle" /\ Ask
    /\ \/ /\ task.state = "pending"
          /\ task' = [Completed(task, "cancelled") EXCEPT !.cancelRequested = TRUE]
          /\ Goto(c, "announce")
       \/ /\ task.state = "running"
          /\ task' = [task EXCEPT !.cancelRequested = TRUE]
          /\ IF task.linked THEN Goto(c, "cancelRun") ELSE UNCHANGED mine
    /\ UNCHANGED <<outbox, world, faults>>

\* The envelope expires, which matters before the first claim only.
Expire ==
    /\ task.state = "pending" /\ ~task.expired
    /\ task' = [task EXCEPT !.expired = TRUE]
    /\ UNCHANGED <<outbox, world, mine, requests, faults>>

-----------------------------------------------------------------------------
\* dispatch_due of an execute message.

ClaimTaskMessage(p, m) ==
    /\ pc[p] = "idle"
    /\ ClaimMessage(m, IdOf[p])
    /\ pc' = [pc EXCEPT ![p] = IF m = "ready" THEN "wake" ELSE "read"]
    /\ local' = [local EXCEPT ![p] = [NoLocal EXCEPT !.message = m,
                                          !.token = outbox'[m].fencingToken]]
    /\ UNCHANGED <<task, world, requests, faults>>

ReadTask(p) ==
    /\ pc[p] = "read"
    /\ Goto(p, IF task.state \in Over THEN "ack" ELSE "take")
    /\ UNCHANGED <<outbox, task, world, requests, faults>>

TakeToExecute(p) ==
    /\ pc[p] = "take"
    /\ \/ TakeTask(p) /\ Goto(p, "check")
       \/ ~Takeable(task) /\ Goto(p, "retry") /\ UNCHANGED task
    /\ UNCHANGED <<outbox, world, requests, faults>>

\* "cancelled before Run creation"; the gate stays where it is.
CheckCancel(p) ==
    /\ pc[p] = "check"
    /\ IF task.cancelRequested THEN Decide(p, "persist", task.gate, "cancelled")
                               ELSE Goto(p, "prepare")
    /\ UNCHANGED <<outbox, task, world, requests, faults>>

\* _run_request and prepare, which no lease guards and which finds the Run of
\* an earlier attempt; the workspace or the platform snapshot may be missing.
Prepare(p) ==
    /\ pc[p] = "prepare"
    /\ \/ /\ run' = [run EXCEPT !.state = IF @ = "absent" THEN "validated" ELSE @]
          /\ Goto(p, "link") /\ UNCHANGED faults
       \/ /\ Fail /\ UNCHANGED run
          /\ (Decide(p, "finish", "blocked", "failed") \/ Goto(p, "abort"))
    /\ UNCHANGED <<outbox, task, turn, requests>>

\* (Mutant) A link that was refused does not stop the submission.
LinkRunAnyhow(p) ==
    /\ pc[p] = "link"
    /\ task' = [task EXCEPT !.linked = Leased(p) \/ task.linked]
    /\ Goto(p, "submit")
    /\ UNCHANGED <<outbox, world, requests, faults>>

LinkRun(p) ==
    /\ pc[p] = "link"
    /\ \/ Leased(p) /\ task' = [task EXCEPT !.linked = TRUE] /\ Goto(p, "submit")
       \/ ~Leased(p) /\ Goto(p, "abort") /\ UNCHANGED task
    /\ UNCHANGED <<outbox, world, requests, faults>>

\* enqueue_submission, which no lease guards either.
SubmitRun(p) ==
    /\ pc[p] = "submit"
    /\ IF run.job \/ run.state \in {"validated", "submitting"}
       THEN /\ run' = [run EXCEPT !.state = IF @ = "validated" THEN "submitting" ELSE @]
            /\ Goto(p, "schedule")
       ELSE Goto(p, "abort") /\ UNCHANGED run
    /\ UNCHANGED <<outbox, task, turn, requests, faults>>

\* The schedule receipt.
Schedule(p) ==
    /\ pc[p] = "schedule"
    /\ IF Advances(p, "pending")
       THEN task' = [task EXCEPT !.gate = "pending"] /\ Goto(p, "release")
       ELSE Goto(p, "abort") /\ UNCHANGED task
    /\ UNCHANGED <<outbox, world, requests, faults>>

Released == [task EXCEPT !.holder = Nobody, !.leaseLeft = 0]

Release(p) ==
    /\ pc[p] = "release"
    /\ IF Leased(p) THEN task' = Released /\ AfterHandling(p)
                    ELSE Goto(p, "abort") /\ UNCHANGED task
    /\ UNCHANGED <<outbox, world, requests, faults>>

\* Something raised: the lease is given back if it is still there.
Abort(p) ==
    /\ pc[p] = "abort"
    /\ task' = IF Leased(p) THEN Released ELSE task
    /\ IF local[p].message = NoMessage THEN Leave(p) ELSE Goto(p, "retry")
    /\ UNCHANGED <<outbox, world, requests, faults>>

Acknowledge(p) ==
    /\ pc[p] = "ack"
    /\ IF HoldsMyMessage(p) THEN AcknowledgeMessage(local[p].message)
                            ELSE UNCHANGED outbox
    /\ Leave(p)
    /\ UNCHANGED <<task, world, requests, faults>>

Retry(p) ==
    /\ pc[p] = "retry"
    /\ LET m == local[p].message
       IN  IF HoldsMyMessage(p) THEN RetryMessage(m, RetryTarget(m, MaxAttempts))
                                ELSE UNCHANGED outbox
    /\ Leave(p)
    /\ UNCHANGED <<task, world, requests, faults>>

-----------------------------------------------------------------------------
\* dispatch_due of a ready message.  create_turn needs the Session, which is the
\* user's as well, to be idle and of the version that was read, unless the Turn
\* is there already.
Wake(p) ==
    /\ pc[p] = "wake"
    /\ \/ turn # "none" /\ Goto(p, "ack") /\ UNCHANGED turn
       \/ turn = "none" /\ turn' = task.state /\ Goto(p, "ack")
       \/ turn = "none" /\ Goto(p, "retry") /\ UNCHANGED turn
    /\ UNCHANGED <<outbox, task, run, requests, faults>>

-----------------------------------------------------------------------------
\* reconcile_active.

TakeToReconcile(p) ==
    /\ pc[p] = "idle" /\ task.state = "running"
    /\ TakeTask(p)
    /\ Goto(p, "reconcile")
    /\ UNCHANGED <<outbox, world, requests, faults>>

\* The collectors may still write.
PendingCollection(r) == r.collection = "pending" /\ r.state \in {"failed", "succeeded"}

\* What the Run that was read makes of the task.
ReadRun(p) ==
    /\ pc[p] = "reconcile"
    /\ CASE ~task.linked -> Goto(p, "release")
         [] task.linked /\ run.state \notin TerminalRunStates ->
               IF task.cancelRequested THEN Goto(p, "cancelRun")
               ELSE Decide(p, "wait", "awaiting_run_terminal", "none")
         [] task.linked /\ run.state = "cancelled" ->
               Decide(p, "finish", "cancelled", "cancelled")
         [] task.linked /\ PendingCollection(run) ->
               Decide(p, "wait", "awaiting_evidence", "none")
         [] task.linked /\ run.state = "succeeded" /\ ~PendingCollection(run)
            /\ run.collection # "failed" ->
               /\ pc' = [pc EXCEPT ![p] = "verify"]
               /\ local' = [local EXCEPT ![p].capsule = run.capsule]
         [] OTHER -> Decide(p, "finish", "failed", "failed")
    /\ UNCHANGED <<outbox, task, world, requests, faults>>

\* cancel of the RunService, of a Run that may be over by now: the backend's
\* answer, always CANCELLED, is stored whatever the Run had become.
CancelRun(p) ==
    /\ pc[p] = "cancelRun"
    /\ run' = [run EXCEPT !.state = "cancelled"]
    /\ IF p \in Clients THEN Leave(p) ELSE Decide(p, "finish", "cancelled", "cancelled")
    /\ UNCHANGED <<outbox, task, turn, requests, faults>>

Wait(p) ==
    /\ pc[p] = "wait"
    /\ IF Advances(p, local[p].gate)
       THEN task' = [task EXCEPT !.gate = local[p].gate] /\ Goto(p, "release")
       ELSE Goto(p, "abort") /\ UNCHANGED task
    /\ UNCHANGED <<outbox, world, requests, faults>>

\* (Mutant) The seal is left to somebody else.
SealLater(r) == r

Sealed(r) == [r EXCEPT !.evidence = "sealed"]

\* What the receipt is good for, with the Capsule as it was read.
GateOf(capsule) ==
    CASE ~task.needsCapsule -> <<"gate", "awaiting_integrity">>
      [] task.needsCapsule /\ capsule = "ready" -> <<"gate", "awaiting_capsule">>
      [] task.needsCapsule /\ capsule = "failed" -> <<"finish", "failed">>
      [] OTHER -> <<"wait", "awaiting_capsule">>

Verifiable ==
    run.state = "succeeded" /\ run.collection = "succeeded" /\ run.evidence # "broken"

\* seal_terminal_evidence and verify_terminal_gate; terminal_at of the receipt
\* is the updated_at of the Run.  Another binder may have the seal, and an
\* authority may be out of reach.
Verify(p) ==
    /\ pc[p] = "verify"
    /\ \/ /\ Verifiable /\ run' = Sealed(run)
          /\ LET next == GateOf(local[p].capsule)
             IN  /\ pc' = [pc EXCEPT ![p] = next[1]]
                 /\ local' = [local EXCEPT ![p].gate = next[2], ![p].outcome = "failed",
                                           ![p].receipt = run.stamp]
          /\ UNCHANGED faults
       \/ /\ ~Verifiable /\ UNCHANGED <<run, faults>>
          /\ Decide(p, "finish", "blocked", "failed")
       \/ /\ Fail /\ UNCHANGED run
          /\ \/ Decide(p, "finish", "blocked", "failed")
             \/ run.evidence = "open" /\ Decide(p, "wait", "awaiting_evidence", "none")
    /\ UNCHANGED <<outbox, task, turn, requests>>

\* advance_gate with the receipt, which has to be the one stored before.
StoreReceipt(p) ==
    /\ pc[p] = "gate"
    /\ IF /\ Advances(p, local[p].gate)
          /\ task.receipt \in {NoReceipt, local[p].receipt}
       THEN /\ task' = [task EXCEPT !.gate = local[p].gate, !.receipt = local[p].receipt]
            /\ Goto(p, "revalidate")
       ELSE Goto(p, "abort") /\ UNCHANGED task
    /\ UNCHANGED <<outbox, world, requests, faults>>

SameReceipt(receipt) ==
    /\ run.state = "succeeded" /\ run.evidence # "broken"
    /\ task.needsCapsule => run.capsule = "ready"
    /\ run.stamp = receipt

\* _revalidate_terminal_receipt; anything but the same receipt blocks the task.
Revalidate(p) ==
    /\ pc[p] = "revalidate"
    /\ \/ SameReceipt(local[p].receipt) /\ Goto(p, "finalize") /\ UNCHANGED faults
       \/ /\ IF SameReceipt(local[p].receipt) THEN Fail ELSE UNCHANGED faults
          /\ Decide(p, "finish", "blocked", "failed")
    /\ UNCHANGED <<outbox, task, world, requests>>

\* A write that was refused: the outcome another process stored is told.
Refused(p) ==
    /\ Goto(p, IF task.state \in Over THEN "announceLate" ELSE "abort")
    /\ UNCHANGED task

Finalize(p) ==
    /\ pc[p] = "finalize"
    /\ IF Leased(p)
       THEN /\ task' = [Completed(task, "succeeded") EXCEPT !.gate = "completed"]
            /\ Goto(p, "announce")
       ELSE Refused(p)
    /\ UNCHANGED <<outbox, world, requests, faults>>

\* _finalize_without_gate: the gate state and the outcome in two transactions.
Finish(p) ==
    /\ pc[p] = "finish"
    /\ IF Advances(p, local[p].gate)
       THEN task' = [task EXCEPT !.gate = local[p].gate] /\ Goto(p, "persist")
       ELSE Goto(p, "abort") /\ UNCHANGED task
    /\ UNCHANGED <<outbox, world, requests, faults>>

Persist(p) ==
    /\ pc[p] = "persist"
    /\ IF Leased(p)
       THEN task' = Completed(task, local[p].outcome) /\ Goto(p, "announce")
       ELSE Refused(p)
    /\ UNCHANGED <<outbox, world, requests, faults>>

\* _enqueue_ready: the message, then the intent is done with.
Announce(p) ==
    /\ pc[p] \in {"announce", "announceLate"}
    /\ \/ InsertMessage("ready")
       \/ outbox["ready"].state # "absent" /\ UNCHANGED outbox
    /\ Goto(p, IF pc[p] = "announce" THEN "mark" ELSE "markLate")
    /\ UNCHANGED <<task, world, requests, faults>>

Mark(p) ==
    /\ pc[p] \in {"mark", "markLate"}
    /\ task' = [task EXCEPT !.readyPending = FALSE]
    /\ IF pc[p] = "mark" THEN AfterHandling(p) ELSE Goto(p, "abort")
    /\ UNCHANGED <<outbox, world, requests, faults>>

\* list_ready_outbox_pending.
AnnounceAgain(p) ==
    /\ pc[p] = "idle" /\ task.state \in Over /\ task.readyPending
    /\ Goto(p, "announce")
    /\ UNCHANGED <<outbox, task, world, requests, faults>>

-----------------------------------------------------------------------------
\* The Run, its evidence and its Capsule; failures and the clock.

RunMoves ==
    /\ \/ /\ run.state = "submitting"
          /\ \/ run' = [run EXCEPT !.state = "live", !.job = TRUE]
             \/ run' = [run EXCEPT !.state = "submit_failed"]
       \/ run.state = "live" /\ \E s \in {"succeeded", "failed"} :
                                   run' = [run EXCEPT !.state = s]
       \/ /\ run.state \in {"succeeded", "failed"} /\ run.collection = "pending"
          /\ \E s \in {"succeeded", "failed"} : run' = [run EXCEPT !.collection = s]
    /\ UNCHANGED <<outbox, task, turn, mine, requests, faults>>

\* begin_capsule_build, also of one that is READY.
BuildCapsule ==
    /\ run.collection # "pending" /\ run.capsule # "running"
    /\ run.stamp <= MaxStamps /\ task.state \notin Over
    /\ run' = [run EXCEPT !.capsule = IF @ = "ready" THEN @ ELSE "running",
                          !.stamp = @ + 1]
    /\ UNCHANGED <<outbox, task, turn, mine, requests, faults>>

FinishCapsule ==
    /\ run.capsule = "running"
    /\ \E s \in {"ready", "failed"} :
          run' = [run EXCEPT !.capsule = s, !.stamp = @ + 1]
    /\ UNCHANGED <<outbox, task, turn, mine, requests, faults>>

EvidenceBreaks ==
    /\ run.collection = "succeeded" /\ run.evidence # "broken"
    /\ Fail
    /\ run' = [run EXCEPT !.evidence = "broken"]
    /\ UNCHANGED <<outbox, task, turn, mine, requests>>

Crash(p) ==
    /\ pc[p] # "idle" /\ Fail
    /\ Leave(p)
    /\ UNCHANGED <<outbox, task, world, requests>>

\* Workers that lose a lease by the next unit of time.
Overrun ==
    {p \in Workers : pc[p] # "idle" /\
        \/ Leased(p) /\ task.leaseLeft = 1
        \/ local[p].message # NoMessage /\ HoldsMyMessage(p)
           /\ outbox[local[p].message].leaseLeft = 1}

Tick ==
    /\ \/ task.leaseLeft > 0
       \/ \E m \in Messages : outbox[m].leaseLeft + outbox[m].dueIn > 0
    /\ faults + Cardinality(Overrun) <= MaxFaults
    /\ faults' = faults + Cardinality(Overrun)
    /\ ElapseOutbox
    /\ task' = [task EXCEPT !.leaseLeft = Less(@)]
    /\ UNCHANGED <<world, mine, requests>>

-----------------------------------------------------------------------------

Work(p) ==
    \/ ReadTask(p) \/ TakeToExecute(p) \/ CheckCancel(p) \/ Prepare(p) \/ LinkRun(p)
    \/ SubmitRun(p) \/ Schedule(p) \/ Release(p) \/ Abort(p) \/ Acknowledge(p)
    \/ Retry(p) \/ Wake(p) \/ ReadRun(p) \/ CancelRun(p) \/ Wait(p)
    \/ Verify(p) \/ StoreReceipt(p) \/ Revalidate(p)
    \/ Finalize(p) \/ Finish(p) \/ Persist(p) \/ Announce(p) \/ Mark(p)

Request(c) == Enqueue(c) \/ CancelRun(c) \/ Announce(c) \/ Mark(c)

Next ==
    \/ \E p \in Workers :
          \/ \E m \in Messages : ClaimTaskMessage(p, m)
          \/ TakeToReconcile(p) \/ AnnounceAgain(p) \/ Work(p)
    \/ \E c \in Clients :
          CreateTask(c) \/ RepeatCall(c) \/ RequestCancel(c) \/ Request(c)
    \/ \E p \in Processes : Crash(p)
    \/ Expire \/ RunMoves \/ BuildCapsule \/ FinishCapsule \/ EvidenceBreaks
    \/ Tick

Spec == Init /\ [][Next]_vars

-----------------------------------------------------------------------------
\* Properties.

\* No job without a task that knows its Run: whatever workers were overtaken,
\* the Run is linked before it may be submitted (link_run).
SubmittedMeansLinked == run.state \notin {"absent", "validated"} => task.linked

\* A task succeeds only when its evidence was collected and sealed, its receipt
\* is stored and its Capsule is there if the policy asks for it; its Run is
\* one that succeeded, unless a cancel overwrote that meanwhile, whichever
\* worker of several stored the outcome (_reconcile_one, finalize_task).
SucceededMeansGated ==
    task.state = "succeeded" =>
        /\ task.linked /\ task.gate = "completed" /\ task.receipt # NoReceipt
        /\ run.collection = "succeeded" /\ run.evidence # "open"
        /\ task.needsCapsule => run.capsule = "ready"
        /\ (run.state = "succeeded" \/ task.cancelRequested)

\* The Session is told, once and for good, of the outcome the task has: it has
\* the intent or the message from the transaction that stored it on, although
\* the worker may die or be overtaken at any step between, and the message is
\* done with only when the Turn exists (complete_task, _dispatch_ready,
\* list_ready_outbox_pending).
OutcomeReachesSession ==
    /\ task.state \in Over => task.readyPending \/ outbox["ready"].state # "absent"
    /\ outbox["ready"].state = "succeeded" => turn # "none"
    /\ turn # "none" => turn = task.state

=============================================================================
