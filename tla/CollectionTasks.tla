--------------------------- MODULE CollectionTasks ---------------------------
(***************************************************************************)
(* Collecting the evidence of one Run: the table collection_tasks of       *)
(* core/run_store.py, and the workers that execute its tasks from the      *)
(* control outbox (_dispatch_collection_tasks and                          *)
(* _execute_collection_message of worker/runtime_worker.py).               *)
(*                                                                         *)
(* A task is collected once per generation, and each generation has a      *)
(* message of its own, <<task, generation>>.  The message and the task row *)
(* are written by separate transactions, each with its own fence.          *)
(*                                                                         *)
(* The columns attempts and lease_expires_at of a task are left out: with  *)
(* a control repository nothing reads them but the seeding of the outbox,  *)
(* which for a running task is a no-op, since its message exists.          *)
(***************************************************************************)
EXTENDS OutboxTable, FiniteSets

CONSTANTS
    Tasks,           \* the task_types of the Run
    Reactivated,     \* runtime_status: collected again after each snapshot
    Deferrable,      \* logs_finalize: waits for the Runtime Watch to drain
    Workers,
    OwnerOf,         \* worker_id of each worker process
    NoMessage,
    Budget,          \* collection_max_attempts
    MaxGenerations,  \* bound: generations of a reactivated task
    MaxDeferrals,    \* bound: reconcilers that schedule a terminal drain
    MaxCrashes,      \* bound: workers that die with a message in hand
    MaxOverruns      \* bound: leases that run out under a live worker

ASSUME WorkersAssumption ==
    IsFiniteSet(Workers) /\ OwnerOf \in [Workers -> Owners]
ASSUME TasksAssumption == Reactivated \subseteq Tasks /\ Deferrable \subseteq Tasks
ASSUME MessagesAssumption ==
    Messages = Tasks \X (1..MaxGenerations) /\ NoMessage \notin Messages
ASSUME NumbersAssumption ==
    /\ Budget \in Nat \ {0} /\ MaxGenerations \in Nat \ {0}
    /\ MaxDeferrals \in Nat /\ MaxCrashes \in Nat /\ MaxOverruns \in Nat

VARIABLES
    tasks,      \* the rows of collection_tasks
    pc,         \* what each worker does next
    claim,      \* the message in its hand: id, fencing token, attempts
    lost,       \* whether its heartbeat has met a conflict
    deferring,  \* drains scheduled whose logs_finalize is not yet deferred
    deferrals, crashes, overruns

wvars == <<pc, claim, lost>>
bounds == <<deferrals, crashes, overruns>>
vars == <<outbox, tasks, pc, claim, lost, deferring, deferrals, crashes, overruns>>

TaskState == {"absent", "pending", "running", "succeeded", "failed_retryable",
              "failed_permanent", "waiting_runtime_watch"}

TaskRow == [state: TaskState, generation: 1..MaxGenerations, dueIn: Nat,
            owner: Owners \cup {NoOwner}, token: Nat]

PC == {"idle", "read", "claim", "collect", "succeed", "failRetryable",
       "failPermanent", "retry", "retryPermanent", "ack", "raised"}

TypeOK ==
    /\ outbox \in [Messages -> Row]
    /\ tasks \in [Tasks -> TaskRow]
    /\ pc \in [Workers -> PC]
    /\ claim \in [Workers -> [message: Messages \cup {NoMessage},
                              token: Nat, attempts: Nat]]
    /\ lost \in [Workers -> BOOLEAN]
    /\ deferring \in 0..MaxDeferrals /\ deferrals \in 0..MaxDeferrals
    /\ crashes \in 0..MaxCrashes /\ overruns \in 0..MaxOverruns
    /\ \A w \in Workers : pc[w] # "idle" <=> claim[w].message # NoMessage

NoClaim == [message |-> NoMessage, token |-> 0, attempts |-> 0]

Init ==
    /\ OutboxInit
    /\ tasks = [t \in Tasks |-> [state |-> "absent", generation |-> 1,
                                 dueIn |-> 0, owner |-> NoOwner, token |-> 0]]
    /\ pc = [w \in Workers |-> "idle"]
    /\ claim = [w \in Workers |-> NoClaim]
    /\ lost = [w \in Workers |-> FALSE]
    /\ deferring = 0 /\ deferrals = 0 /\ crashes = 0 /\ overruns = 0

Task(w) == claim[w].message[1]
Generation(w) == claim[w].message[2]

-----------------------------------------------------------------------------
\* The fences.

HoldsMessage(w) == Holds(claim[w].message, OwnerOf[w], claim[w].token)

\* (Mutants) A claim that looks at the tokens only; one that takes nothing over.
ClaimableTaskByToken(w) ==
    LET task == tasks[Task(w)]
    IN  task.generation = Generation(w) /\ task.token < claim[w].token
ClaimableTaskNoTakeover(w) ==
    LET task == tasks[Task(w)]
    IN  /\ task.generation = Generation(w) /\ task.dueIn = 0
        /\ task.state \in {"pending", "failed_retryable"}

\* claim_collection_task: due, or running under a smaller token.
ClaimableTask(w) ==
    LET task == tasks[Task(w)]
    IN  /\ task.generation = Generation(w)
        /\ \/ task.state \in {"pending", "failed_retryable"} /\ task.dueIn = 0
           \/ task.state = "running" /\ task.token < claim[w].token

\* (Mutant) The fence without the owner.
HoldsTaskByToken(w) ==
    tasks[Task(w)].state = "running" /\ tasks[Task(w)].token = claim[w].token

\* The fence of mark_collection_task_succeeded and _failed.
HoldsTask(w) ==
    /\ tasks[Task(w)].state = "running"
    /\ tasks[Task(w)].owner = OwnerOf[w]
    /\ tasks[Task(w)].token = claim[w].token

-----------------------------------------------------------------------------
\* Snapshots of the job (apply_snapshot) and the terminal drain.

\* _ensure_task, and _reactivate_succeeded_task for a Run that is not over.
NonterminalSnapshot(t) ==
    /\ t \in Reactivated
    /\ \/ /\ tasks[t].state = "absent"
          /\ tasks' = [tasks EXCEPT ![t].state = "pending"]
       \/ /\ tasks[t].state = "succeeded" /\ tasks[t].generation < MaxGenerations
          /\ tasks' = [tasks EXCEPT
                         ![t] = [state |-> "pending", dueIn |-> 0,
                                 generation |-> tasks[t].generation + 1,
                                 owner |-> tasks[t].owner, token |-> tasks[t].token]]
    /\ UNCHANGED <<outbox, wvars, deferring, bounds>>

\* The first terminal snapshot, from a worker's reconcile or from a cancel,
\* makes the other tasks.
TerminalSnapshot ==
    LET fresh == {t \in Tasks \ Reactivated : tasks[t].state = "absent"}
    IN  /\ fresh # {}
        /\ tasks' = [t \in Tasks |-> IF t \in fresh
                        THEN [tasks[t] EXCEPT !.state = "pending"] ELSE tasks[t]]
        /\ UNCHANGED <<outbox, wvars, deferring, bounds>>

\* A worker's tick that saw the terminal state has scheduled a drain ...
ScheduleDrain ==
    /\ deferrals < MaxDeferrals
    /\ \E t \in Deferrable : tasks[t].state # "absent"
    /\ deferrals' = deferrals + 1 /\ deferring' = deferring + 1
    /\ UNCHANGED <<outbox, tasks, wvars, crashes, overruns>>

\* ... and then defers logs_finalize, in another transaction.
DeferLogsFinalize ==
    /\ deferring > 0
    /\ deferring' = deferring - 1
    /\ tasks' = [t \in Tasks |->
         IF t \in Deferrable /\ tasks[t].state \in {"pending", "failed_retryable"}
         THEN [tasks[t] EXCEPT !.state = "waiting_runtime_watch", !.dueIn = 0]
         ELSE tasks[t]]
    /\ UNCHANGED <<outbox, wvars, bounds>>

\* The watch has drained, whenever that is.
ReleaseLogsFinalize(t) ==
    /\ tasks[t].state = "waiting_runtime_watch"
    /\ tasks' = [tasks EXCEPT ![t].state = "pending"]
    /\ UNCHANGED <<outbox, wvars, deferring, bounds>>

\* list_collection_tasks_for_dispatch and enqueue.  If the generation moved on
\* between the two, the old message is there already.
DispatchTask(t) ==
    /\ tasks[t].state \in {"pending", "failed_retryable"} /\ tasks[t].dueIn = 0
    /\ InsertMessage(<<t, tasks[t].generation>>)
    /\ UNCHANGED <<tasks, wvars, deferring, bounds>>

-----------------------------------------------------------------------------
\* A worker executing a message.

Goto(w, place) ==
    /\ pc' = [pc EXCEPT ![w] = place]
    /\ UNCHANGED <<claim, lost>>

Leave(w) ==
    /\ pc' = [pc EXCEPT ![w] = "idle"]
    /\ claim' = [claim EXCEPT ![w] = NoClaim]
    /\ lost' = [lost EXCEPT ![w] = FALSE]

ClaimCollectionMessage(w, m) ==
    /\ pc[w] = "idle"
    /\ ClaimMessage(m, OwnerOf[w])
    /\ pc' = [pc EXCEPT ![w] = "read"]
    /\ claim' = [claim EXCEPT ![w] =
                   [message |-> m, token |-> outbox'[m].fencingToken,
                    attempts |-> outbox'[m].attempts]]
    /\ UNCHANGED <<tasks, lost, deferring, bounds>>

\* (Mutant) "The task runs already: nothing to do".
AfterTaskReadNoTakeover(task, generation) ==
    IF \/ task.generation # generation
       \/ task.state \in {"succeeded", "failed_permanent", "running"}
    THEN "ack" ELSE "claim"

\* A message of another generation, or of a settled task, is acknowledged.
AfterTaskRead(task, generation) ==
    IF \/ task.generation # generation
       \/ task.state \in {"succeeded", "failed_permanent"}
    THEN "ack" ELSE "claim"

ReadTask(w) ==
    /\ pc[w] = "read"
    /\ Goto(w, AfterTaskRead(tasks[Task(w)], Generation(w)))
    /\ UNCHANGED <<outbox, tasks, deferring, bounds>>

ClaimTask(w) ==
    /\ pc[w] = "claim"
    /\ IF ClaimableTask(w)
       THEN /\ tasks' = [tasks EXCEPT
                           ![Task(w)] = [state |-> "running",
                              generation |-> tasks[Task(w)].generation,
                              dueIn |-> tasks[Task(w)].dueIn,
                              owner |-> OwnerOf[w], token |-> claim[w].token]]
            /\ Goto(w, "collect")
       ELSE Goto(w, "raised") /\ UNCHANGED tasks
    /\ UNCHANGED <<outbox, deferring, bounds>>

\* One beat of _OutboxHeartbeat; the first conflict ends the thread.
Heartbeat(w) ==
    /\ pc[w] = "collect" /\ ~lost[w]
    /\ IF Renewable(claim[w].message, OwnerOf[w], claim[w].token)
       THEN RenewMessage(claim[w].message) /\ UNCHANGED lost
       ELSE lost' = [lost EXCEPT ![w] = TRUE] /\ UNCHANGED outbox
    /\ UNCHANGED <<tasks, pc, claim, deferring, bounds>>

\* The collector returns; a lost heartbeat turns that into an error.
CollectorReturns(w) ==
    /\ pc[w] = "collect"
    /\ Goto(w, IF lost[w] THEN "failRetryable" ELSE "succeed")
    /\ UNCHANGED <<outbox, tasks, deferring, bounds>>

\* The collector raises, and the error is classified.
CollectorRaises(w) ==
    /\ pc[w] = "collect"
    /\ \E place \in {"failRetryable", "failPermanent"} : Goto(w, place)
    /\ UNCHANGED <<outbox, tasks, deferring, bounds>>

\* The row as a claimant settles it: the owner becomes NULL, the token stays.
SettledRow(task, state, delay) ==
    [state |-> state, generation |-> task.generation, dueIn |-> delay,
     owner |-> NoOwner, token |-> task.token]

MarkSucceeded(w) ==
    /\ pc[w] = "succeed"
    /\ IF HoldsTask(w)
       THEN /\ tasks' = [tasks EXCEPT ![Task(w)] =
                           SettledRow(@, "succeeded", @.dueIn)]
            /\ Goto(w, "ack")
       ELSE Goto(w, "raised") /\ UNCHANGED tasks
    /\ UNCHANGED <<outbox, deferring, bounds>>

FailedState(canRetry) == IF canRetry THEN "failed_retryable" ELSE "failed_permanent"

MarkFailed(w) ==
    LET canRetry == pc[w] = "failRetryable" /\ claim[w].attempts < Budget
    IN  /\ pc[w] \in {"failRetryable", "failPermanent"}
        /\ IF HoldsTask(w)
           THEN /\ tasks' = [tasks EXCEPT ![Task(w)] =
                     SettledRow(@, FailedState(canRetry),
                                IF canRetry THEN RetryTicks ELSE 0)]
                /\ Goto(w, IF pc[w] = "failRetryable" THEN "retry"
                                                      ELSE "retryPermanent")
           ELSE Goto(w, "raised") /\ UNCHANGED tasks
        /\ UNCHANGED <<outbox, deferring, bounds>>

\* The message follows the task; a permanent failure allows one attempt.
RetryCollection(w) ==
    LET m == claim[w].message
    IN  /\ pc[w] \in {"retry", "retryPermanent"}
        /\ IF HoldsMessage(w)
           THEN /\ RetryMessage(m, RetryTarget(m, IF pc[w] = "retry" THEN Budget
                                                                     ELSE 1))
                /\ Leave(w)
           ELSE Goto(w, "raised") /\ UNCHANGED outbox
        /\ UNCHANGED <<tasks, deferring, bounds>>

\* _acknowledge_collection suppresses a conflict.
AcknowledgeCollection(w) ==
    /\ pc[w] = "ack"
    /\ IF HoldsMessage(w) THEN AcknowledgeMessage(claim[w].message)
                          ELSE UNCHANGED outbox
    /\ Leave(w)
    /\ UNCHANGED <<tasks, deferring, bounds>>

\* The loop's except clause retries the message, with a conflict suppressed.
HandleException(w) ==
    LET m == claim[w].message
    IN  /\ pc[w] = "raised"
        /\ IF HoldsMessage(w) THEN RetryMessage(m, RetryTarget(m, Budget))
                              ELSE UNCHANGED outbox
        /\ Leave(w)
        /\ UNCHANGED <<tasks, deferring, bounds>>

Crash(w) ==
    /\ pc[w] # "idle" /\ crashes < MaxCrashes
    /\ crashes' = crashes + 1
    /\ Leave(w)
    /\ UNCHANGED <<outbox, tasks, deferring, deferrals, overruns>>

Overrun == {w \in Workers : /\ pc[w] # "idle" /\ HoldsMessage(w)
                            /\ outbox[claim[w].message].leaseLeft = 1}

Tick ==
    /\ \/ \E m \in Messages : outbox[m].leaseLeft > 0 \/ outbox[m].dueIn > 0
       \/ \E t \in Tasks : tasks[t].dueIn > 0
    /\ overruns + Cardinality(Overrun) <= MaxOverruns
    /\ overruns' = overruns + Cardinality(Overrun)
    /\ ElapseOutbox
    /\ tasks' = [t \in Tasks |-> [tasks[t] EXCEPT !.dueIn = Less(@)]]
    /\ UNCHANGED <<wvars, deferring, deferrals, crashes>>

-----------------------------------------------------------------------------

Work(w) ==
    \/ ReadTask(w) \/ ClaimTask(w)
    \/ CollectorReturns(w) \/ CollectorRaises(w)
    \/ MarkSucceeded(w) \/ MarkFailed(w)
    \/ RetryCollection(w) \/ AcknowledgeCollection(w) \/ HandleException(w)

Next ==
    \/ \E t \in Tasks :
          NonterminalSnapshot(t) \/ ReleaseLogsFinalize(t) \/ DispatchTask(t)
    \/ TerminalSnapshot \/ ScheduleDrain \/ DeferLogsFinalize
    \/ \E w \in Workers :
          \/ \E m \in Messages : ClaimCollectionMessage(w, m)
          \/ Work(w) \/ Heartbeat(w) \/ Crash(w)
    \/ Tick

Spec == Init /\ [][Next]_vars

\* Every tick of a worker seeds the outbox, claims what is claimable and runs
\* each message to its end (collectors have timeouts), and the clock runs.
Fairness ==
    /\ WF_vars(Tick)
    /\ \A t \in Tasks : WF_vars(DispatchTask(t))
    /\ \A w \in Workers : WF_vars(Work(w))
    /\ \A m \in Messages :
          WF_vars(\E w \in Workers : ClaimCollectionMessage(w, m))

FairSpec == Spec /\ Fairness

-----------------------------------------------------------------------------
\* Properties.

Settled == {"succeeded", "failed_permanent"}

\* A message is acknowledged only when its task is settled or a later
\* generation has begun: no crash, takeover or late answer loses a collection
\* (the business row is written before acknowledge).
AckedMeansSettled ==
    \A t \in Tasks : \A g \in 1..MaxGenerations :
        outbox[<<t, g>>].state = "succeeded" =>
            tasks[t].generation > g \/ tasks[t].state \in Settled

\* What one generation of a task came to stays: a worker that read the task
\* before it was settled cannot run it again or overwrite the result.
SettledTaskStays ==
    [][\A t \in Tasks :
         tasks[t].state \in Settled /\ tasks'[t].generation = tasks[t].generation
           => tasks'[t].state = tasks[t].state]_vars

\* A task is settled by an execution of its current generation: an old token
\* cannot write back, although the tokens of each generation start at 1 again.
WrittenByItsGeneration ==
    [][\A t \in Tasks :
         tasks[t].state = "running" /\ tasks'[t].state # "running" =>
           \E w \in Workers :
              /\ pc[w] \in {"succeed", "failRetryable", "failPermanent"}
              /\ pc'[w] # pc[w]
              /\ claim[w].message = <<t, tasks[t].generation>>]_vars

\* As long as no lease runs out under a live worker, two workers never collect
\* one task at a time.
OneCollectorAtATime ==
    \A v, w \in Workers :
        v # w /\ pc[v] = "collect" /\ pc[w] = "collect" => Task(v) # Task(w)

\* With finitely many crashes and no overruns, every task that becomes due is
\* settled.
CollectionSettles ==
    \A t \in Tasks : tasks[t].state = "pending" ~> tasks[t].state \in Settled

=============================================================================
