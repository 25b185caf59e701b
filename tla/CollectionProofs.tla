--------------------------- MODULE CollectionProofs ---------------------------
(***************************************************************************)
(* What CollectionTasks promises for any set of tasks and any finite set   *)
(* of workers: a message is acknowledged only for a task that is settled   *)
(* or past its generation, a settled task stays so within its generation,  *)
(* a task is settled by an execution of its current generation (here the   *)
(* workers need ids of their own), and while no lease has run out under a  *)
(* live worker no two workers collect one task.                            *)
(***************************************************************************)
EXTENDS CollectionTasks, FiniteSetTheorems, TLAPS

\* TypeOK alone is not inductive: each deferral under way was counted.
Typed == TypeOK /\ deferring <= deferrals

-----------------------------------------------------------------------------
\* Types.

\* Every transaction of the outbox leaves a row of the type of the table behind.
LEMMA RowSteps ==
    ASSUME NEW row \in Row
    PROVE  /\ [row EXCEPT !.state = "pending"] \in Row
           /\ \A owner \in Owners : ClaimedRow(row, owner) \in Row
           /\ \A state \in MessageState, delay \in Nat :
                 FinishedRow(row, state, delay) \in Row
           /\ [row EXCEPT !.leaseLeft = LeaseTicks] \in Row
           /\ ElapsedRow(row) \in Row
<1> USE NoOwnerAssumption, LeaseAssumption DEF Row, MessageState
<1>1. /\ [row EXCEPT !.state = "pending"] \in Row
      /\ [row EXCEPT !.leaseLeft = LeaseTicks] \in Row
      /\ \A owner \in Owners : ClaimedRow(row, owner) \in Row
  BY DEF ClaimedRow
<1>2. /\ \A state \in MessageState, delay \in Nat : FinishedRow(row, state, delay) \in Row
      /\ ElapsedRow(row) \in Row
  BY DEF FinishedRow, ElapsedRow, Less
<1> QED
  BY <1>1, <1>2

\* A message is a task and one of its generations.
LEMMA MessageParts ==
    ASSUME NEW m \in Messages
    PROVE  /\ m[1] \in Tasks /\ m[2] \in 1..MaxGenerations
           /\ m = <<m[1], m[2]>>
  BY MessagesAssumption

\* What a busy worker holds, and the rows it works on.
LEMMA BusyFields ==
    ASSUME TypeOK, NEW w \in Workers, pc[w] # "idle"
    PROVE  /\ claim[w].message \in Messages /\ claim[w].token \in Nat
           /\ Task(w) \in Tasks /\ Generation(w) \in 1..MaxGenerations
           /\ claim[w].message = <<Task(w), Generation(w)>>
           /\ outbox[claim[w].message] \in Row
           /\ tasks[Task(w)] \in TaskRow
<1>1. claim[w].message \in Messages /\ claim[w].token \in Nat
  BY DEF TypeOK
<1> QED
  BY <1>1, MessageParts DEF TypeOK, Task, Generation

\* The initial state is well typed.
LEMMA InitTyped == Init => Typed
  BY NoOwnerAssumption, NumbersAssumption, MessagesAssumption
     DEF Init, OutboxInit, Typed, TypeOK, NoRow, Row, MessageState, TaskRow,
         TaskState, PC, NoClaim

\* The workers' variables.
WorkerTypes ==
    /\ pc \in [Workers -> PC]
    /\ claim \in [Workers -> [message: Messages \cup {NoMessage},
                              token: Nat, attempts: Nat]]
    /\ lost \in [Workers -> BOOLEAN]
    /\ \A w \in Workers : pc[w] # "idle" <=> claim[w].message # NoMessage

\* A worker that goes on in its handler stays well typed.
LEMMA GotoTyped ==
    ASSUME TypeOK, NEW w \in Workers, NEW place \in PC \ {"idle"},
           pc[w] # "idle", Goto(w, place)
    PROVE  WorkerTypes'
  BY DEF TypeOK, WorkerTypes, Goto

\* A worker that ends its handler stays well typed.
LEMMA LeaveTyped ==
    ASSUME TypeOK, NEW w \in Workers, Leave(w)
    PROVE  WorkerTypes'
  BY DEF TypeOK, WorkerTypes, Leave, NoClaim, PC

\* Acknowledging and retrying keep the outbox typed.
LEMMA FinishTyped ==
    ASSUME TypeOK, NEW m \in Messages, NEW budget,
           \/ AcknowledgeMessage(m)
           \/ RetryMessage(m, RetryTarget(m, budget))
    PROVE  outbox' \in [Messages -> Row]
<1> DEFINE target == RetryTarget(m, budget)
           delay == IF target = "pending" THEN RetryTicks ELSE 0
<1>1. /\ FinishedRow(outbox[m], "succeeded", 0) \in Row
      /\ FinishedRow(outbox[m], target, delay) \in Row
  BY RowSteps, RetryAssumption DEF TypeOK, MessageState, RetryTarget
<1> QED
  BY <1>1 DEF TypeOK, AcknowledgeMessage, RetryMessage

\* The rows a claimant writes.
LEMMA TaskRows ==
    ASSUME TypeOK, NEW t \in Tasks
    PROVE  /\ \A state \in TaskState, delay \in Nat :
                 SettledRow(tasks[t], state, delay) \in TaskRow
           /\ \A state \in TaskState, delay \in Nat :
                 [tasks[t] EXCEPT !.state = state, !.dueIn = delay] \in TaskRow
           /\ \A state \in TaskState : [tasks[t] EXCEPT !.state = state] \in TaskRow
           /\ [tasks[t] EXCEPT !.dueIn = Less(@)] \in TaskRow
<1>0. tasks[t] \in TaskRow
  BY DEF TypeOK
<1>1. \A state \in TaskState, delay \in Nat :
         SettledRow(tasks[t], state, delay) \in TaskRow
  BY <1>0 DEF TaskRow, SettledRow
<1>2. \A state \in TaskState, delay \in Nat :
         [tasks[t] EXCEPT !.state = state, !.dueIn = delay] \in TaskRow
  BY <1>0 DEF TaskRow
<1>3. \A state \in TaskState : [tasks[t] EXCEPT !.state = state] \in TaskRow
  BY <1>0 DEF TaskRow
<1>4. [tasks[t] EXCEPT !.dueIn = Less(@)] \in TaskRow
  <2>1. Less(tasks[t].dueIn) \in Nat
    BY <1>0 DEF TaskRow, Less
  <2> QED
    BY <1>0, <2>1 DEF TaskRow
<1> QED
  BY <1>1, <1>2, <1>3, <1>4

\* A worker's own steps.
LEMMA WorkTyped == ASSUME TypeOK, NEW w \in Workers, Work(w) PROVE TypeOK'
<1> USE DEF bounds
<1>0. pc[w] # "idle"
  BY DEF Work, ReadTask, ClaimTask, CollectorReturns, CollectorRaises,
         MarkSucceeded, MarkFailed, RetryCollection, AcknowledgeCollection,
         HandleException
<1>a. /\ claim[w].message \in Messages /\ claim[w].token \in Nat
      /\ Task(w) \in Tasks /\ Generation(w) \in 1..MaxGenerations
      /\ tasks[Task(w)] \in TaskRow
  BY <1>0, BusyFields
<1>1. CASE ReadTask(w)
  <2>1. AfterTaskRead(tasks[Task(w)], Generation(w)) \in PC \ {"idle"}
    BY DEF AfterTaskRead, PC
  <2> QED
    BY <1>0, <1>1, <2>1, GotoTyped DEF ReadTask, TypeOK, WorkerTypes
<1>2. CASE ClaimTask(w)
  <2>1. WorkerTypes'
    BY <1>0, <1>2, GotoTyped DEF ClaimTask, PC
  <2>2. [state |-> "running", generation |-> tasks[Task(w)].generation,
         dueIn |-> tasks[Task(w)].dueIn,
         owner |-> OwnerOf[w], token |-> claim[w].token] \in TaskRow
    BY <1>a, WorkersAssumption DEF TaskRow, TaskState
  <2>3. tasks' \in [Tasks -> TaskRow]
    BY <1>2, <1>a, <2>2 DEF ClaimTask, TypeOK
  <2> QED
    BY <1>2, <2>1, <2>3 DEF ClaimTask, TypeOK, WorkerTypes
<1>3. CASE CollectorReturns(w) \/ CollectorRaises(w)
  <2>1. PICK place \in PC \ {"idle"} : Goto(w, place)
    BY <1>3 DEF CollectorReturns, CollectorRaises, PC
  <2> QED
    BY <1>0, <1>3, <2>1, GotoTyped
       DEF CollectorReturns, CollectorRaises, TypeOK, WorkerTypes
<1>4. CASE MarkSucceeded(w)
  <2>1. WorkerTypes'
    BY <1>0, <1>4, GotoTyped DEF MarkSucceeded, PC
  <2>2. SettledRow(tasks[Task(w)], "succeeded", tasks[Task(w)].dueIn) \in TaskRow
    <3>1. tasks[Task(w)].dueIn \in Nat
      BY <1>a DEF TaskRow
    <3> QED
      BY <3>1, <1>a, TaskRows DEF TaskState
  <2>3. tasks' \in [Tasks -> TaskRow]
    BY <1>4, <1>a, <2>2 DEF MarkSucceeded, TypeOK
  <2> QED
    BY <1>4, <2>1, <2>3 DEF MarkSucceeded, TypeOK, WorkerTypes
<1>5. CASE MarkFailed(w)
  <2> DEFINE canRetry == pc[w] = "failRetryable" /\ claim[w].attempts < Budget
             row == SettledRow(tasks[Task(w)], FailedState(canRetry),
                               IF canRetry THEN RetryTicks ELSE 0)
  <2>1. WorkerTypes'
    BY <1>0, <1>5, GotoTyped DEF MarkFailed, PC
  <2>2. row \in TaskRow
    BY <1>a, TaskRows, RetryAssumption DEF TaskState, FailedState
  <2>3. tasks' = [tasks EXCEPT ![Task(w)] = row] \/ tasks' = tasks
    BY <1>5 DEF MarkFailed
  <2>4. tasks' \in [Tasks -> TaskRow]
    BY <1>a, <2>2, <2>3 DEF TypeOK
  <2> QED
    BY <1>5, <2>1, <2>4 DEF MarkFailed, TypeOK, WorkerTypes
<1>6. CASE RetryCollection(w)
  <2>1. WorkerTypes'
    BY <1>0, <1>6, GotoTyped, LeaveTyped DEF RetryCollection, PC
  <2>2. outbox' \in [Messages -> Row]
    BY <1>6, <1>a, FinishTyped DEF RetryCollection, TypeOK
  <2> QED
    BY <1>6, <2>1, <2>2 DEF RetryCollection, TypeOK, WorkerTypes
<1>7. CASE AcknowledgeCollection(w) \/ HandleException(w)
  <2>1. WorkerTypes'
    BY <1>7, LeaveTyped DEF AcknowledgeCollection, HandleException
  <2>2. outbox' \in [Messages -> Row]
    BY <1>7, <1>a, FinishTyped DEF AcknowledgeCollection, HandleException, TypeOK
  <2> QED
    BY <1>7, <2>1, <2>2
       DEF AcknowledgeCollection, HandleException, TypeOK, WorkerTypes
<1> QED
  BY <1>1, <1>2, <1>3, <1>4, <1>5, <1>6, <1>7 DEF Work

\* Type correctness, with the invariants it needs, is inductive.
LEMMA NextTyped == Typed /\ [Next]_vars => Typed'
<1> SUFFICES ASSUME TypeOK, deferring <= deferrals, [Next]_vars PROVE Typed'
  BY DEF Typed
<1> USE NumbersAssumption DEF Typed, bounds, wvars
<1>1. ASSUME NEW t \in Tasks, NonterminalSnapshot(t) PROVE Typed'
  <2>1. [state |-> "pending", dueIn |-> 0, generation |-> tasks[t].generation + 1,
         owner |-> tasks[t].owner, token |-> tasks[t].token] \in TaskRow
        \/ ~(tasks[t].generation < MaxGenerations)
    BY DEF TypeOK, TaskRow, TaskState
  <2>2. [tasks[t] EXCEPT !.state = "pending"] \in TaskRow
    BY TaskRows DEF TaskState
  <2>3. tasks' \in [Tasks -> TaskRow]
    BY <1>1, <2>1, <2>2 DEF NonterminalSnapshot, TypeOK
  <2> QED
    BY <1>1, <2>3 DEF NonterminalSnapshot, TypeOK
<1>2. ASSUME NEW t \in Tasks, ReleaseLogsFinalize(t) PROVE Typed'
  <2>1. [tasks[t] EXCEPT !.state = "pending"] \in TaskRow
    BY TaskRows DEF TaskState
  <2> QED
    BY <1>2, <2>1 DEF ReleaseLogsFinalize, TypeOK
<1>3. ASSUME NEW t \in Tasks, DispatchTask(t) PROVE Typed'
  <2> DEFINE m == <<t, tasks[t].generation>>
  <2>1. m \in Messages
    BY MessagesAssumption DEF TypeOK, TaskRow
  <2>2. [outbox[m] EXCEPT !.state = "pending"] \in Row
    BY <2>1, RowSteps DEF TypeOK
  <2> QED
    BY <1>3, <2>1, <2>2 DEF DispatchTask, InsertMessage, TypeOK
<1>4. CASE TerminalSnapshot
  <2>1. \A t \in Tasks : [tasks[t] EXCEPT !.state = "pending"] \in TaskRow
    BY TaskRows DEF TaskState
  <2>2. tasks' \in [Tasks -> TaskRow]
    BY <1>4, <2>1 DEF TerminalSnapshot, TypeOK
  <2> QED
    BY <1>4, <2>2 DEF TerminalSnapshot, TypeOK
<1>5. CASE ScheduleDrain
  BY <1>5 DEF ScheduleDrain, TypeOK
<1>6. CASE DeferLogsFinalize
  <2>1. \A t \in Tasks : [tasks[t] EXCEPT !.state = "waiting_runtime_watch",
                                          !.dueIn = 0] \in TaskRow
    BY TaskRows DEF TaskState
  <2>2. tasks' \in [Tasks -> TaskRow]
    BY <1>6, <2>1 DEF DeferLogsFinalize, TypeOK
  <2>3. deferring' \in 0..MaxDeferrals /\ deferring' <= deferrals
    <3>1. deferring > 0 /\ deferring' = deferring - 1
      BY <1>6 DEF DeferLogsFinalize
    <3>2. deferring \in 0..MaxDeferrals /\ deferrals \in 0..MaxDeferrals
      BY DEF TypeOK
    <3> QED
      BY <3>1, <3>2
  <2>4. UNCHANGED <<outbox, wvars, bounds>>
    BY <1>6 DEF DeferLogsFinalize
  <2> QED
    BY <2>2, <2>3, <2>4 DEF TypeOK
<1>7. ASSUME NEW w \in Workers, NEW m \in Messages, ClaimCollectionMessage(w, m)
      PROVE  Typed'
  <2>1. ClaimedRow(outbox[m], OwnerOf[w]) \in Row
    BY WorkersAssumption, RowSteps DEF TypeOK
  <2>2. outbox' \in [Messages -> Row]
    BY <1>7, <2>1 DEF ClaimCollectionMessage, ClaimMessage, TypeOK
  <2>3. outbox'[m].fencingToken \in Nat /\ outbox'[m].attempts \in Nat
    BY <2>2 DEF Row
  <2> QED
    BY <1>7, <2>2, <2>3, MessagesAssumption
       DEF ClaimCollectionMessage, TypeOK, PC
<1>8. ASSUME NEW w \in Workers, Work(w) PROVE Typed'
  <2>1. UNCHANGED <<deferring, deferrals>>
    BY <1>8 DEF Work, ReadTask, ClaimTask, CollectorReturns, CollectorRaises,
         MarkSucceeded, MarkFailed, RetryCollection, AcknowledgeCollection,
         HandleException
  <2> QED
    BY <1>8, <2>1, WorkTyped
<1>9. ASSUME NEW w \in Workers, Heartbeat(w) PROVE Typed'
  <2>1. claim[w].message \in Messages /\ outbox[claim[w].message] \in Row
    BY <1>9, BusyFields DEF Heartbeat
  <2>2. [outbox[claim[w].message] EXCEPT !.leaseLeft = LeaseTicks] \in Row
    BY <2>1, RowSteps
  <2>3. outbox' \in [Messages -> Row] /\ lost' \in [Workers -> BOOLEAN]
    BY <1>9, <2>1, <2>2 DEF Heartbeat, RenewMessage, TypeOK
  <2> QED
    BY <1>9, <2>3 DEF Heartbeat, TypeOK
<1>10. ASSUME NEW w \in Workers, Crash(w) PROVE Typed'
  <2>1. WorkerTypes'
    BY <1>10, LeaveTyped DEF Crash
  <2> QED
    BY <1>10, <2>1 DEF Crash, TypeOK, WorkerTypes
<1>11. CASE Tick
  <2>1. \A m \in Messages : ElapsedRow(outbox[m]) \in Row
    BY RowSteps DEF TypeOK
  <2>2. Cardinality(Overrun) \in Nat
    <3>1. Overrun \subseteq Workers
      BY DEF Overrun
    <3> QED
      BY <3>1, WorkersAssumption, FS_Subset, FS_CardinalityType
  <2>3. tasks' \in [Tasks -> TaskRow]
    BY <1>11, TaskRows DEF Tick, TypeOK
  <2> QED
    BY <1>11, <2>1, <2>2, <2>3 DEF Tick, ElapseOutbox, TypeOK
<1>12. CASE UNCHANGED vars
  BY <1>12 DEF vars, TypeOK
<1> QED
  BY <1>1, <1>2, <1>3, <1>4, <1>5, <1>6, <1>7, <1>8, <1>9, <1>10, <1>11, <1>12
     DEF Next

\* It holds in every reachable state.
LEMMA TypedAlways == Spec => []Typed
  BY InitTyped, NextTyped, PTL DEF Spec

\* Every variable of the collection keeps its type, and a worker has a message
\* in hand exactly while it is busy.
THEOREM TypeInvariant == Spec => []TypeOK
<1>1. Typed => TypeOK
  BY DEF Typed
<1> QED
  BY <1>1, TypedAlways, PTL

-----------------------------------------------------------------------------
\* What a step may do to tasks, messages and workers.

\* The message's generation has begun; and it is settled or over.
Begun(m) == m[2] <= tasks[m[1]].generation
Done(m) == tasks[m[1]].generation > m[2] \/ tasks[m[1]].state \in Settled

\* A generation never goes back, and what it came to stays.
TaskMoves ==
    \A t \in Tasks :
        /\ tasks[t].generation <= tasks'[t].generation
        /\ tasks[t].state \in Settled /\ tasks'[t].generation = tasks[t].generation
              => tasks'[t].state = tasks[t].state

\* A message is inserted for a generation that has begun, and acknowledged by
\* a worker that came to acknowledge it.
MessageMoves ==
    \A m \in Messages :
        /\ outbox'[m].state # "absent" => outbox[m].state # "absent" \/ Begun(m)
        /\ outbox'[m].state = "succeeded" =>
              \/ outbox[m].state = "succeeded"
              \/ \E w \in Workers : pc[w] = "ack" /\ claim[w].message = m

\* A worker works on a message that was inserted, and comes to acknowledge it
\* when its generation is settled or over.
WorkerMoves ==
    \A w \in Workers : pc'[w] # "idle" =>
        \/ /\ pc[w] # "idle" /\ claim'[w] = claim[w]
           /\ pc'[w] = "ack" /\ pc[w] # "ack" => Done(claim[w].message)'
        \/ /\ claim'[w].message \in Messages /\ pc'[w] = "read"
           /\ outbox[claim'[w].message].state # "absent"

Moves == TaskMoves /\ MessageMoves /\ WorkerMoves

Held == \A w \in Workers : pc[w] # "idle" => Begun(claim[w].message)

\* A task that is settled is not written by its workers, whoever they are.
LEMMA ClaimantsWrite ==
    ASSUME TypeOK, NEW w \in Workers, NEW row, Task(w) \in Tasks,
           tasks' = [tasks EXCEPT ![Task(w)] = row],
           tasks[Task(w)].state \notin Settled,
           row.generation = tasks[Task(w)].generation
    PROVE  TaskMoves
<1>1. \A t \in Tasks : tasks[t].generation \in Nat
  BY DEF TypeOK, TaskRow
<1>2. \A t \in Tasks : tasks'[t] = IF t = Task(w) THEN row ELSE tasks[t]
  BY DEF TypeOK
<1> QED
  BY <1>1, <1>2 DEF TaskMoves

\* Nothing about the tasks, the messages or the workers changes.
LEMMA TasksQuiet == ASSUME TypeOK, UNCHANGED tasks PROVE TaskMoves
<1>1. \A t \in Tasks : tasks[t].generation \in Nat
  BY DEF TypeOK, TaskRow
<1> QED
  BY <1>1 DEF TaskMoves

\* A step that leaves the outbox alone moves no message.
LEMMA MessagesQuiet == ASSUME UNCHANGED outbox PROVE MessageMoves
  BY DEF MessageMoves

\* A step that leaves the workers alone moves none.
LEMMA WorkersQuiet == ASSUME UNCHANGED <<pc, claim>> PROVE WorkerMoves
  BY DEF WorkerMoves

\* A worker that ends its handler drops its claim.
LEMMA LeaveMoves == ASSUME TypeOK, NEW w \in Workers, Leave(w) PROVE WorkerMoves
  BY DEF TypeOK, Leave, WorkerMoves

\* A worker that goes on keeps its claim.
LEMMA GotoMoves ==
    ASSUME TypeOK, NEW w \in Workers, NEW place, pc[w] # "idle", Goto(w, place),
           place = "ack" => Done(claim[w].message)'
    PROVE  WorkerMoves
  BY DEF TypeOK, Goto, WorkerMoves

\* Retrying a message leaves it a message that is not acknowledged.
LEMMA RetryMoves ==
    ASSUME TypeOK, NEW m \in Messages, NEW budget,
           RetryMessage(m, RetryTarget(m, budget)), outbox[m].state = "running"
    PROVE  MessageMoves
<1>1. /\ outbox'[m].state # "succeeded"
      /\ \A n \in Messages \ {m} : outbox'[n] = outbox[n]
  BY DEF TypeOK, RetryMessage, RetryTarget, FinishedRow
<1> QED
  BY <1>1 DEF MessageMoves

\* Every step of a handler is one of the moves.
LEMMA WorkMoves == ASSUME TypeOK, Held, NEW w \in Workers, Work(w) PROVE Moves
<1> USE DEF Moves
<1>0. pc[w] # "idle"
  BY DEF Work, ReadTask, ClaimTask, CollectorReturns, CollectorRaises,
         MarkSucceeded, MarkFailed, RetryCollection, AcknowledgeCollection,
         HandleException
<1> DEFINE m == claim[w].message
<1>a. /\ m \in Messages /\ Task(w) \in Tasks
      /\ tasks[Task(w)] \in TaskRow /\ Generation(w) \in Nat
      /\ Generation(w) <= tasks[Task(w)].generation
  BY <1>0, BusyFields DEF Held, Begun, Task, Generation
<1>1. CASE ReadTask(w)
  <2> DEFINE place == AfterTaskRead(tasks[Task(w)], Generation(w))
  <2>1. place = "ack" => Done(m)'
    <3>1. ASSUME place = "ack" PROVE Done(m)
      BY <3>1, <1>a DEF AfterTaskRead, Done, Settled, Task, Generation, TaskRow
    <3> QED
      BY <1>1, <3>1 DEF ReadTask, Goto, Done
  <2> QED
    BY <1>0, <1>1, <2>1, GotoMoves, TasksQuiet, MessagesQuiet DEF ReadTask
<1>2. CASE ClaimTask(w)
  <2>1. TaskMoves
    <3>1. CASE UNCHANGED tasks
      BY <3>1, TasksQuiet
    <3>2. CASE ~UNCHANGED tasks
      <4>1. tasks[Task(w)].state \notin Settled
        BY <1>2, <3>2 DEF ClaimTask, ClaimableTask, Settled
      <4> QED
        BY <1>2, <1>a, <3>2, <4>1, ClaimantsWrite DEF ClaimTask
    <3> QED
      BY <3>1, <3>2
  <2>2. WorkerMoves
    BY <1>0, <1>2, GotoMoves DEF ClaimTask
  <2> QED
    BY <1>2, <2>1, <2>2, MessagesQuiet DEF ClaimTask
<1>3. CASE CollectorReturns(w) \/ CollectorRaises(w)
  <2>1. PICK place \in PC \ {"ack"} : Goto(w, place)
    BY <1>3 DEF CollectorReturns, CollectorRaises, PC
  <2>2. WorkerMoves
    BY <1>0, <2>1, GotoMoves
  <2> QED
    BY <1>3, <2>2, TasksQuiet, MessagesQuiet DEF CollectorReturns, CollectorRaises
<1>4. CASE MarkSucceeded(w)
  <2> DEFINE row == SettledRow(tasks[Task(w)], "succeeded", tasks[Task(w)].dueIn)
  <2>1. CASE HoldsTask(w)
    <3>1. tasks' = [tasks EXCEPT ![Task(w)] = row] /\ Goto(w, "ack")
      BY <1>4, <2>1 DEF MarkSucceeded
    <3>2. TaskMoves
      BY <1>a, <2>1, <3>1, ClaimantsWrite DEF HoldsTask, Settled, SettledRow
    <3>3. tasks'[Task(w)].state \in Settled
      BY <1>a, <3>1 DEF TypeOK, SettledRow, Settled
    <3>4. Done(m)'
      BY <3>1, <3>3 DEF Done, Task, Goto
    <3>5. WorkerMoves
      BY <1>0, <3>1, <3>4, GotoMoves
    <3> QED
      BY <1>4, <3>2, <3>5, MessagesQuiet DEF MarkSucceeded
  <2>2. CASE ~HoldsTask(w)
    <3>1. WorkerMoves
      BY <1>0, <1>4, <2>2, GotoMoves DEF MarkSucceeded
    <3> QED
      BY <1>4, <2>2, <3>1, TasksQuiet, MessagesQuiet DEF MarkSucceeded
  <2> QED
    BY <2>1, <2>2
<1>5. CASE MarkFailed(w)
  <2> DEFINE canRetry == pc[w] = "failRetryable" /\ claim[w].attempts < Budget
             row == SettledRow(tasks[Task(w)], FailedState(canRetry),
                               IF canRetry THEN RetryTicks ELSE 0)
  <2>1. CASE HoldsTask(w)
    <3>1. tasks' = [tasks EXCEPT ![Task(w)] = row]
      BY <1>5, <2>1 DEF MarkFailed
    <3>2. TaskMoves
      BY <1>a, <2>1, <3>1, ClaimantsWrite DEF HoldsTask, Settled, SettledRow
    <3>3. WorkerMoves
      BY <1>0, <1>5, <2>1, GotoMoves DEF MarkFailed
    <3> QED
      BY <1>5, <3>2, <3>3, MessagesQuiet DEF MarkFailed
  <2>2. CASE ~HoldsTask(w)
    <3>1. WorkerMoves
      BY <1>0, <1>5, <2>2, GotoMoves DEF MarkFailed
    <3> QED
      BY <1>5, <2>2, <3>1, TasksQuiet, MessagesQuiet DEF MarkFailed
  <2> QED
    BY <2>1, <2>2
<1>6. CASE RetryCollection(w)
  <2>1. WorkerMoves
    BY <1>0, <1>6, GotoMoves, LeaveMoves DEF RetryCollection
  <2>2. MessageMoves
    BY <1>6, <1>a, RetryMoves, MessagesQuiet
       DEF RetryCollection, HoldsMessage, Holds
  <2> QED
    BY <1>6, <2>1, <2>2, TasksQuiet DEF RetryCollection
<1>7. CASE HandleException(w)
  <2>1. MessageMoves
    BY <1>7, <1>a, RetryMoves, MessagesQuiet
       DEF HandleException, HoldsMessage, Holds
  <2> QED
    BY <1>7, <2>1, LeaveMoves, TasksQuiet DEF HandleException
<1>8. CASE AcknowledgeCollection(w)
  <2>1. MessageMoves
    <3>1. pc[w] = "ack" /\ (outbox' = outbox \/ (AcknowledgeMessage(m) /\ HoldsMessage(w)))
      BY <1>8 DEF AcknowledgeCollection
    <3>2. \A n \in Messages \ {m} : outbox'[n] = outbox[n]
      BY <3>1 DEF AcknowledgeMessage, TypeOK
    <3> QED
      BY <3>1, <3>2 DEF MessageMoves, HoldsMessage, Holds
  <2> QED
    BY <1>8, <2>1, LeaveMoves, TasksQuiet DEF AcknowledgeCollection
<1> QED
  BY <1>1, <1>2, <1>3, <1>4, <1>5, <1>6, <1>7, <1>8 DEF Work

\* Every step of the system is one of the moves.
LEMMA NextMoves == TypeOK /\ Held /\ [Next]_vars => Moves
<1> SUFFICES ASSUME TypeOK, Held, [Next]_vars PROVE Moves
  OBVIOUS
<1> USE DEF Moves, bounds, wvars
<1>0. \A t \in Tasks : tasks[t] \in TaskRow /\ tasks[t].generation \in Nat
  BY DEF TypeOK, TaskRow
<1>1. ASSUME NEW t \in Tasks, NonterminalSnapshot(t) PROVE Moves
  <2>1. tasks[t].state \in {"absent", "succeeded"}
    BY <1>1 DEF NonterminalSnapshot
  <2>2. /\ tasks'[t].generation \in {tasks[t].generation, tasks[t].generation + 1}
        /\ tasks'[t].generation = tasks[t].generation => tasks[t].state = "absent"
    BY <1>0, <1>1 DEF NonterminalSnapshot, TypeOK, TaskRow
  <2>3. \A u \in Tasks \ {t} : tasks'[u] = tasks[u]
    BY <1>1 DEF NonterminalSnapshot, TypeOK
  <2>4. TaskMoves
    BY <1>0, <2>1, <2>2, <2>3 DEF TaskMoves, Settled
  <2> QED
    BY <1>1, <2>4, MessagesQuiet, WorkersQuiet DEF NonterminalSnapshot
<1>2. ASSUME NEW t \in Tasks, ReleaseLogsFinalize(t) PROVE Moves
  <2>1. tasks[t].state \notin Settled /\ tasks'[t].generation = tasks[t].generation
    BY <1>0, <1>2 DEF ReleaseLogsFinalize, Settled, TypeOK, TaskRow
  <2>2. \A u \in Tasks \ {t} : tasks'[u] = tasks[u]
    BY <1>2 DEF ReleaseLogsFinalize, TypeOK
  <2>3. TaskMoves
    BY <1>0, <2>1, <2>2 DEF TaskMoves
  <2> QED
    BY <1>2, <2>3, MessagesQuiet, WorkersQuiet DEF ReleaseLogsFinalize
<1>3. ASSUME NEW t \in Tasks, DispatchTask(t) PROVE Moves
  <2> DEFINE m == <<t, tasks[t].generation>>
  <2>1. m \in Messages
    BY <1>0, MessagesAssumption DEF TaskRow
  <2>2. /\ outbox'[m].state = "pending" /\ Begun(m)
        /\ \A n \in Messages \ {m} : outbox'[n] = outbox[n]
    BY <1>0, <1>3, <2>1 DEF DispatchTask, InsertMessage, TypeOK, Row, Begun
  <2>3. MessageMoves
    BY <2>2 DEF MessageMoves
  <2> QED
    BY <1>3, <2>3, TasksQuiet, WorkersQuiet DEF DispatchTask
<1>4. CASE TerminalSnapshot
  <2>1. \A t \in Tasks :
           \/ tasks'[t] = tasks[t]
           \/ /\ tasks[t].state = "absent"
              /\ tasks'[t].generation = tasks[t].generation
    BY <1>0, <1>4 DEF TerminalSnapshot, TypeOK, TaskRow
  <2>2. TaskMoves
    BY <1>0, <2>1 DEF TaskMoves, Settled
  <2> QED
    BY <1>4, <2>2, MessagesQuiet, WorkersQuiet DEF TerminalSnapshot
<1>5. CASE ScheduleDrain
  BY <1>5, TasksQuiet, MessagesQuiet, WorkersQuiet DEF ScheduleDrain
<1>6. CASE DeferLogsFinalize
  <2>1. \A t \in Tasks :
           \/ tasks'[t] = tasks[t]
           \/ /\ tasks[t].state \in {"pending", "failed_retryable"}
              /\ tasks'[t].generation = tasks[t].generation
    BY <1>0, <1>6 DEF DeferLogsFinalize, TypeOK, TaskRow
  <2>2. TaskMoves
    BY <1>0, <2>1 DEF TaskMoves, Settled
  <2> QED
    BY <1>6, <2>2, MessagesQuiet, WorkersQuiet DEF DeferLogsFinalize
<1>7. ASSUME NEW w \in Workers, NEW m \in Messages, ClaimCollectionMessage(w, m)
      PROVE  Moves
  <2>1. /\ outbox[m].state \in {"pending", "running"} /\ outbox'[m].state = "running"
        /\ \A n \in Messages \ {m} : outbox'[n] = outbox[n]
    BY <1>7 DEF ClaimCollectionMessage, ClaimMessage, Claimable, ClaimedRow, TypeOK
  <2>2. MessageMoves
    BY <2>1 DEF MessageMoves
  <2>3. /\ claim'[w].message = m /\ pc'[w] = "read"
        /\ \A v \in Workers \ {w} : claim'[v] = claim[v] /\ pc'[v] = pc[v]
    BY <1>7 DEF ClaimCollectionMessage, TypeOK
  <2>4. WorkerMoves
    BY <2>1, <2>3 DEF WorkerMoves
  <2> QED
    BY <1>7, <2>2, <2>4, TasksQuiet DEF ClaimCollectionMessage
<1>8. ASSUME NEW w \in Workers, Work(w) PROVE Moves
  BY <1>8, WorkMoves
<1>9. ASSUME NEW w \in Workers, Heartbeat(w) PROVE Moves
  <2>1. claim[w].message \in Messages
    BY <1>9, BusyFields DEF Heartbeat
  <2>2. \A n \in Messages : outbox'[n].state = outbox[n].state
    <3>1. \A n \in Messages : [outbox[n] EXCEPT !.leaseLeft = LeaseTicks].state
                              = outbox[n].state
      BY DEF TypeOK, Row
    <3>2. \/ outbox' = outbox
          \/ RenewMessage(claim[w].message)
      BY <1>9 DEF Heartbeat
    <3>3. \A n \in Messages :
             \/ outbox'[n] = outbox[n]
             \/ outbox'[n] = [outbox[n] EXCEPT !.leaseLeft = LeaseTicks]
      BY <3>2, <2>1 DEF RenewMessage, TypeOK
    <3> QED
      BY <3>1, <3>3
  <2>3. MessageMoves
    BY <2>2 DEF MessageMoves
  <2> QED
    BY <1>9, <2>3, TasksQuiet, WorkersQuiet DEF Heartbeat
<1>10. ASSUME NEW w \in Workers, Crash(w) PROVE Moves
  BY <1>10, LeaveMoves, TasksQuiet, MessagesQuiet DEF Crash
<1>11. CASE Tick
  <2>1. \A n \in Messages : outbox'[n].state = outbox[n].state
    BY <1>11 DEF Tick, ElapseOutbox, ElapsedRow
  <2>2. MessageMoves
    BY <2>1 DEF MessageMoves
  <2>3. \A t \in Tasks : /\ tasks'[t].state = tasks[t].state
                         /\ tasks'[t].generation = tasks[t].generation
    BY <1>0, <1>11 DEF Tick, TaskRow
  <2>4. TaskMoves
    BY <1>0, <2>3 DEF TaskMoves
  <2> QED
    BY <1>11, <2>2, <2>4, WorkersQuiet DEF Tick
<1>12. CASE UNCHANGED vars
  BY <1>12, TasksQuiet, MessagesQuiet, WorkersQuiet DEF vars
<1> QED
  BY <1>1, <1>2, <1>3, <1>4, <1>5, <1>6, <1>7, <1>8, <1>9, <1>10, <1>11, <1>12
     DEF Next

-----------------------------------------------------------------------------
\* The theorems.

CollectionInv ==
    /\ Held
    /\ \A m \in Messages : outbox[m].state # "absent" => Begun(m)
    /\ \A w \in Workers : pc[w] = "ack" => Done(claim[w].message)
    /\ \A m \in Messages : outbox[m].state = "succeeded" => Done(m)

\* What has begun has begun for good, and what is done stays done.
LEMMA DoneStays ==
    ASSUME Typed, Typed', TaskMoves, NEW m \in Messages, Begun(m)
    PROVE  Begun(m)' /\ (Done(m) => Done(m)')
<1>1. /\ m[1] \in Tasks /\ m[2] \in Nat
      /\ tasks[m[1]].generation \in Nat /\ tasks'[m[1]].generation \in Nat
  BY MessageParts DEF Typed, TypeOK, TaskRow
<1> QED
  BY <1>1 DEF Begun, Done, TaskMoves

\* The inductive invariant of the collection is kept by every step.
LEMMA CollectionInductive ==
    Typed /\ Typed' /\ CollectionInv /\ [Next]_vars => CollectionInv'
<1> SUFFICES ASSUME Typed, Typed', CollectionInv, [Next]_vars
             PROVE  CollectionInv'
  OBVIOUS
<1>0. Moves
  BY NextMoves DEF Typed, CollectionInv
<1>a. \A w \in Workers : pc[w] # "idle" => claim[w].message \in Messages
  BY BusyFields DEF Typed
<1>b. \A m \in Messages : outbox[m].state = "succeeded" => Begun(m)
  BY DEF CollectionInv
<1>1. Held'
  BY <1>0, <1>a, DoneStays DEF CollectionInv, Held, Moves, WorkerMoves, Begun
<1>2. \A m \in Messages : outbox'[m].state # "absent" => Begun(m)'
  BY <1>0, DoneStays DEF CollectionInv, Moves, MessageMoves
<1>3. ASSUME NEW w \in Workers, pc'[w] = "ack" PROVE Done(claim[w].message)'
  BY <1>0, <1>3, <1>a, DoneStays DEF CollectionInv, Held, Moves, WorkerMoves
<1>4. \A w \in Workers : pc'[w] = "ack" => Done(claim[w].message)' /\ claim'[w] = claim[w]
  BY <1>0, <1>3 DEF Moves, WorkerMoves
<1>5. ASSUME NEW m \in Messages, outbox'[m].state = "succeeded" PROVE Done(m)'
  <2>1. Done(m) /\ Begun(m)
    BY <1>0, <1>5, <1>b DEF CollectionInv, Held, Moves, MessageMoves
  <2> QED
    BY <1>0, <2>1, DoneStays DEF Moves
<1> QED
  BY <1>1, <1>2, <1>4, <1>5 DEF CollectionInv, Done

\* It holds at the start.
LEMMA CollectionInitially == Init => CollectionInv
  BY MessageParts DEF Init, OutboxInit, NoRow, CollectionInv, Held

\* It holds in every reachable state.
LEMMA CollectionInvariant == Spec => []CollectionInv
  BY TypedAlways, CollectionInitially, CollectionInductive, PTL DEF Spec

\* No collection is lost: a message is acknowledged only once its task is
\* settled or a later generation has begun.
THEOREM AckedMeansSettledAlways == Spec => []AckedMeansSettled
<1>1. Typed /\ CollectionInv => AckedMeansSettled
  BY MessagesAssumption DEF CollectionInv, Done, AckedMeansSettled
<1> QED
  BY <1>1, TypedAlways, CollectionInvariant, PTL

\* Within a generation, no late worker runs a settled task again or changes
\* what it came to.
THEOREM SettledTaskStaysAlways == Spec => SettledTaskStays
<1> DEFINE Stays == \A t \in Tasks :
         tasks[t].state \in Settled /\ tasks'[t].generation = tasks[t].generation
           => tasks'[t].state = tasks[t].state
<1>1. Typed /\ CollectionInv /\ [Next]_vars => [Stays]_vars
  BY NextMoves DEF Typed, CollectionInv, Moves, TaskMoves
<1> QED
  BY <1>1, TypedAlways, CollectionInvariant, PTL DEF Spec, SettledTaskStays

-----------------------------------------------------------------------------
\* Who writes a running task.

\* The places of the handler at which a worker executes its task.
Executing == {"collect", "succeed", "failRetryable", "failPermanent"}

\* The row of t is what w's claim of the task made it.
TakesTask(w, t) ==
    /\ ClaimTask(w) /\ ClaimableTask(w) /\ Task(w) = t
    /\ tasks'[t].state = "running" /\ tasks'[t].owner = OwnerOf[w]
    /\ tasks'[t].token = claim[w].token /\ tasks'[t].generation = Generation(w)

\* A running task runs on as it is.
RunsOn(t) ==
    /\ tasks[t].state = "running" /\ tasks'[t].owner = tasks[t].owner
    /\ tasks'[t].token = tasks[t].token
    /\ tasks'[t].generation = tasks[t].generation

EndsTask(w, t) == (MarkSucceeded(w) \/ MarkFailed(w)) /\ HoldsTask(w) /\ Task(w) = t

\* A task comes to run by a claim, and stops by the hand of one that holds it.
RunMoves ==
    \A t \in Tasks :
        /\ tasks'[t].state = "running" =>
              RunsOn(t) \/ \E w \in Workers : TakesTask(w, t)
        /\ tasks[t].state = "running" =>
              \/ RunsOn(t) /\ tasks'[t].state = "running"
              \/ \E w \in Workers : EndsTask(w, t) \/ TakesTask(w, t)

\* Every step moves the running tasks so.
LEMMA NextRunMoves == TypeOK /\ [Next]_vars => RunMoves
<1> SUFFICES ASSUME TypeOK, [Next]_vars PROVE RunMoves
  OBVIOUS
<1>0. \A t \in Tasks : tasks[t] \in TaskRow
  BY DEF TypeOK
<1>1. CASE UNCHANGED tasks
  BY <1>1 DEF RunMoves, RunsOn
<1>2. ASSUME NEW w \in Workers, ClaimTask(w) PROVE RunMoves
  <2>1. Task(w) \in Tasks
    BY <1>2, BusyFields DEF ClaimTask
  <2>2. CASE ClaimableTask(w)
    <3>1. /\ tasks'[Task(w)] = [state |-> "running",
                 generation |-> tasks[Task(w)].generation,
                 dueIn |-> tasks[Task(w)].dueIn,
                 owner |-> OwnerOf[w], token |-> claim[w].token]
          /\ \A t \in Tasks \ {Task(w)} : tasks'[t] = tasks[t]
      BY <1>2, <2>1, <2>2 DEF ClaimTask, TypeOK
    <3>2. TakesTask(w, Task(w))
      BY <1>2, <2>2, <3>1 DEF TakesTask, ClaimableTask
    <3> QED
      BY <3>1, <3>2 DEF RunMoves, RunsOn
  <2>3. CASE ~ClaimableTask(w)
    BY <1>1, <1>2, <2>3 DEF ClaimTask
  <2> QED
    BY <2>2, <2>3
<1>3. ASSUME NEW w \in Workers, MarkSucceeded(w) \/ MarkFailed(w) PROVE RunMoves
  <2>1. Task(w) \in Tasks
    BY <1>3, BusyFields DEF MarkSucceeded, MarkFailed
  <2>2. CASE HoldsTask(w)
    <3>1. \E state \in TaskState \ {"running"} : \E delay :
             tasks' = [tasks EXCEPT ![Task(w)] = SettledRow(tasks[Task(w)], state, delay)]
      <4>1. CASE MarkSucceeded(w)
        BY <2>2, <4>1 DEF MarkSucceeded, TaskState
      <4>2. CASE MarkFailed(w)
        <5> DEFINE canRetry == pc[w] = "failRetryable" /\ claim[w].attempts < Budget
        <5>1. FailedState(canRetry) \in TaskState \ {"running"}
          BY DEF FailedState, TaskState
        <5> QED
          BY <2>2, <4>2, <5>1 DEF MarkFailed
      <4> QED
        BY <1>3, <4>1, <4>2
    <3>2. /\ tasks'[Task(w)].state # "running"
          /\ \A t \in Tasks \ {Task(w)} : tasks'[t] = tasks[t]
      BY <2>1, <3>1 DEF TypeOK, SettledRow
    <3> QED
      BY <1>3, <2>2, <3>2 DEF RunMoves, RunsOn, EndsTask
  <2>3. CASE ~HoldsTask(w)
    BY <1>1, <1>3, <2>3 DEF MarkSucceeded, MarkFailed
  <2> QED
    BY <2>2, <2>3
<1>4. ASSUME \A t \in Tasks :
                \/ tasks'[t] = tasks[t]
                \/ tasks[t].state # "running" /\ tasks'[t].state # "running"
      PROVE  RunMoves
  BY <1>4 DEF RunMoves, RunsOn
<1>5. ASSUME NEW t \in Tasks, NonterminalSnapshot(t) \/ ReleaseLogsFinalize(t)
      PROVE  RunMoves
  <2>1. tasks[t].state # "running" /\ tasks'[t].state # "running"
    BY <1>0, <1>5 DEF NonterminalSnapshot, ReleaseLogsFinalize, TypeOK, TaskRow
  <2>2. \A u \in Tasks \ {t} : tasks'[u] = tasks[u]
    BY <1>5 DEF NonterminalSnapshot, ReleaseLogsFinalize, TypeOK
  <2> QED
    BY <1>4, <2>1, <2>2
<1>6. CASE TerminalSnapshot
  BY <1>0, <1>4, <1>6 DEF TerminalSnapshot, TaskRow
<1>7. CASE DeferLogsFinalize
  BY <1>0, <1>4, <1>7 DEF DeferLogsFinalize, TaskRow
<1>8. CASE Tick
  <2>1. \A t \in Tasks : tasks'[t] = [tasks[t] EXCEPT !.dueIn = Less(tasks[t].dueIn)]
    BY <1>8 DEF Tick
  <2>2. \A t \in Tasks : /\ tasks'[t].state = tasks[t].state
                         /\ tasks'[t].generation = tasks[t].generation
                         /\ tasks'[t].owner = tasks[t].owner
                         /\ tasks'[t].token = tasks[t].token
    BY <1>0, <2>1 DEF TaskRow
  <2> QED
    BY <2>2 DEF RunMoves, RunsOn
<1>9. ASSUME NEW w \in Workers, Work(w) PROVE RunMoves
  <2>1. UNCHANGED tasks \/ ClaimTask(w) \/ MarkSucceeded(w) \/ MarkFailed(w)
    BY <1>9 DEF Work, ReadTask, CollectorReturns, CollectorRaises, RetryCollection,
       AcknowledgeCollection, HandleException
  <2> QED
    BY <1>1, <1>2, <1>3, <2>1
<1> QED
  BY <1>1, <1>5, <1>6, <1>7, <1>8, <1>9
     DEF Next, vars, DispatchTask, ScheduleDrain, ClaimCollectionMessage, Heartbeat, Crash

\* A worker comes to execute a task by a claim of it, and keeps its message then.
LEMMA ExecutorsClaim ==
    ASSUME TypeOK, [Next]_vars, NEW w \in Workers, pc'[w] \in Executing
    PROVE  /\ claim'[w] = claim[w] /\ pc[w] # "idle"
           /\ pc[w] \in Executing \/ (ClaimTask(w) /\ ClaimableTask(w))
<1> DEFINE Goal == /\ claim'[w] = claim[w] /\ pc[w] # "idle"
                   /\ pc[w] \in Executing \/ (ClaimTask(w) /\ ClaimableTask(w))
<1>1. ASSUME NEW v \in Workers, Work(v) PROVE Goal
  <2>1. CASE v = w
    <3>1. CASE ClaimTask(w)
      BY <3>1 DEF ClaimTask, Goto, TypeOK, Executing
    <3>2. CASE ~ClaimTask(w)
      <4>1. ~ReadTask(w)
        BY DEF ReadTask, AfterTaskRead, Goto, TypeOK, Executing
      <4> QED
        BY <1>1, <2>1, <3>2, <4>1 DEF Work, CollectorReturns, CollectorRaises,
           MarkSucceeded, MarkFailed, RetryCollection, AcknowledgeCollection,
           HandleException, Goto, Leave, TypeOK, Executing
    <3> QED
      BY <3>1, <3>2
  <2>2. CASE v # w
    BY <1>1, <2>2 DEF Work, ReadTask, ClaimTask, CollectorReturns, CollectorRaises,
       MarkSucceeded, MarkFailed, RetryCollection, AcknowledgeCollection,
       HandleException, Goto, Leave, TypeOK, Executing
  <2> QED
    BY <2>1, <2>2
<1>2. ASSUME NEW v \in Workers, NEW m \in Messages, ClaimCollectionMessage(v, m)
      PROVE  Goal
  BY <1>2 DEF ClaimCollectionMessage, TypeOK, Executing
<1>3. ASSUME NEW v \in Workers, Crash(v) PROVE Goal
  BY <1>3 DEF Crash, Leave, TypeOK, Executing
<1>4. CASE UNCHANGED <<pc, claim>>
  BY <1>4 DEF Executing
<1> QED
  BY <1>1, <1>2, <1>3, <1>4 DEF Next, vars, wvars, NonterminalSnapshot,
     ReleaseLogsFinalize, DispatchTask, TerminalSnapshot, ScheduleDrain,
     DeferLogsFinalize, Heartbeat, Tick

-----------------------------------------------------------------------------
\* WrittenByItsGeneration.

\* A running task that carries the id of a worker executing it is of the
\* generation that worker executes.
OwnRows ==
    \A w \in Workers : pc[w] \in Executing =>
        LET task == tasks[Task(w)]
        IN  task.state = "running" /\ task.owner = OwnerOf[w] =>
               task.generation = Generation(w)

\* No two processes work under one id; one that crashed comes back under its own.
DistinctIds == \A v, w \in Workers : OwnerOf[v] = OwnerOf[w] => v = w

\* It is inductive where every worker has an id of its own.
LEMMA OwnRowsInductive ==
    ASSUME DistinctIds
    PROVE  TypeOK /\ OwnRows /\ [Next]_vars => OwnRows'
<1> SUFFICES ASSUME TypeOK, OwnRows, [Next]_vars,
                    NEW w \in Workers, pc'[w] \in Executing,
                    tasks'[Task(w)].state = "running",
                    tasks'[Task(w)].owner = OwnerOf[w]
             PROVE  tasks'[Task(w)].generation = Generation(w)
  BY ExecutorsClaim DEF OwnRows, Task, Generation
<1>1. Task(w) \in Tasks /\ (pc[w] \in Executing \/ ClaimableTask(w))
  BY ExecutorsClaim, BusyFields
<1>2. CASE RunsOn(Task(w))
  BY <1>1, <1>2 DEF RunsOn, OwnRows, ClaimableTask
<1>3. ASSUME NEW v \in Workers, TakesTask(v, Task(w))
      PROVE  tasks'[Task(w)].generation = Generation(w)
  BY <1>3 DEF TakesTask, DistinctIds
<1> QED
  BY <1>1, <1>2, <1>3, NextRunMoves DEF RunMoves

\* Where every worker process has an id of its own, a task is settled by an
\* execution of its current generation, whatever workers were overtaken, crashed
\* and came back: the tokens of each generation start at 1 again, and the fence of
\* the task does not look at the generation.
THEOREM WrittenByItsGenerationAlways ==
    ASSUME DistinctIds
    PROVE  Spec => WrittenByItsGeneration
<1> DEFINE Written == \A t \in Tasks :
         tasks[t].state = "running" /\ tasks'[t].state # "running" =>
           \E w \in Workers :
              /\ pc[w] \in {"succeed", "failRetryable", "failPermanent"}
              /\ pc'[w] # pc[w]
              /\ claim[w].message = <<t, tasks[t].generation>>
<1>1. Init => OwnRows
  BY DEF Init, OwnRows, Executing
<1>2. ASSUME TypeOK, OwnRows, [Next]_vars, NEW t \in Tasks,
             tasks[t].state = "running", tasks'[t].state # "running"
      PROVE  \E w \in Workers :
                /\ pc[w] \in {"succeed", "failRetryable", "failPermanent"}
                /\ pc'[w] # pc[w]
                /\ claim[w].message = <<t, tasks[t].generation>>
  <2>1. PICK w \in Workers : EndsTask(w, t)
    BY <1>2, NextRunMoves DEF RunMoves, TakesTask
  <2>2. pc[w] \in {"succeed", "failRetryable", "failPermanent"} /\ pc'[w] # pc[w]
    BY <1>2, <2>1 DEF EndsTask, MarkSucceeded, MarkFailed, Goto, TypeOK
  <2>3. claim[w].message = <<t, Generation(w)>>
    BY <1>2, <2>1, <2>2, BusyFields DEF EndsTask
  <2>4. Generation(w) = tasks[t].generation
    BY <1>2, <2>1, <2>2 DEF OwnRows, Executing, EndsTask, HoldsTask
  <2> QED
    BY <2>2, <2>3, <2>4
<1>3. TypeOK /\ OwnRows /\ [Next]_vars => [Written]_vars
  BY <1>2
<1> QED
  BY <1>1, <1>3, OwnRowsInductive, TypeInvariant, PTL DEF Spec, WrittenByItsGeneration

-----------------------------------------------------------------------------
\* OneCollectorAtATime.

\* A worker at work still holds its message.
OnTime(w) == HoldsMessage(w) /\ outbox[claim[w].message].leaseLeft > 0

MessagesHeld == \A w \in Workers : pc[w] # "idle" => OnTime(w)

OneWorkerEach ==
    \A v, w \in Workers :
        pc[v] # "idle" /\ pc[w] # "idle" /\ claim[v].message = claim[w].message
            => v = w

\* And a worker that executes a task holds that too, in its own generation.
TasksHeld ==
    \A w \in Workers : pc[w] \in Executing =>
        HoldsTask(w) /\ tasks[Task(w)].generation = Generation(w)

OnTimeInv == overruns = 0 => MessagesHeld /\ OneWorkerEach /\ TasksHeld

\* The leases that run out under a worker are counted.
LEMMA OverrunsCount ==
    ASSUME TypeOK, [Next]_vars, overruns' = 0
    PROVE  /\ overruns = 0
           /\ Tick => \A w \in Workers : pc[w] # "idle" /\ HoldsMessage(w) =>
                         outbox[claim[w].message].leaseLeft # 1
<1>1. CASE Tick
  <2>1. IsFiniteSet(Overrun)
    <3>1. Overrun \subseteq Workers
      BY DEF Overrun
    <3> QED
      BY <3>1, WorkersAssumption, FS_Subset
  <2>2. Cardinality(Overrun) \in Nat
    BY <2>1, FS_CardinalityType
  <2>3. overruns = 0 /\ Cardinality(Overrun) = 0
    BY <1>1, <2>2, NumbersAssumption DEF Tick, TypeOK
  <2>4. Overrun = {}
    BY <2>1, <2>3, FS_EmptySet
  <2> QED
    BY <2>3, <2>4 DEF Overrun
<1>2. CASE ~Tick
  <2>1. ASSUME NEW w \in Workers, Work(w) PROVE overruns' = overruns
    BY <2>1 DEF Work, bounds, ReadTask, ClaimTask, CollectorReturns, CollectorRaises,
       MarkSucceeded, MarkFailed, RetryCollection, AcknowledgeCollection, HandleException
  <2> QED
    BY <1>2, <2>1 DEF Next, vars, bounds, NonterminalSnapshot, ReleaseLogsFinalize,
       DispatchTask, TerminalSnapshot, ScheduleDrain, DeferLogsFinalize,
       ClaimCollectionMessage, Heartbeat, Crash
<1> QED
  BY <1>1, <1>2

\* A worker that a step leaves alone, its message included, stays on time.
LEMMA OnTimeKept ==
    ASSUME NEW w \in Workers, OnTime(w), claim'[w] = claim[w],
           outbox'[claim[w].message] = outbox[claim[w].message]
    PROVE  OnTime(w)'
  BY DEF OnTime, HoldsMessage, Holds

\* What v does to its message leaves the others on time.
LEMMA OthersOnTime ==
    ASSUME TypeOK, MessagesHeld, OneWorkerEach, NEW v \in Workers, pc[v] # "idle",
           \A m \in Messages \ {claim[v].message} : outbox'[m] = outbox[m],
           NEW w \in Workers, w # v, pc[w] # "idle", claim'[w] = claim[w]
    PROVE  OnTime(w)'
<1>1. claim[w].message \in Messages \ {claim[v].message}
  BY BusyFields DEF OneWorkerEach
<1> QED
  BY <1>1, OnTimeKept DEF MessagesHeld

\* Messages stay held, each by one worker, for as long as no lease runs out.
LEMMA HoldingInductive ==
    ASSUME TypeOK, MessagesHeld, OneWorkerEach, [Next]_vars, overruns' = 0
    PROVE  MessagesHeld' /\ OneWorkerEach'
<1> DEFINE Stays == \A w \in Workers : pc'[w] # "idle" =>
                        pc[w] # "idle" /\ claim'[w] = claim[w] /\ OnTime(w)'
<1>0. Stays => MessagesHeld' /\ OneWorkerEach'
  BY DEF MessagesHeld, OneWorkerEach
<1>a. \A w \in Workers : pc[w] # "idle" =>
         claim[w].message \in Messages /\ outbox[claim[w].message] \in Row
  BY BusyFields
<1>1. ASSUME NEW v \in Workers, NEW m \in Messages, ClaimCollectionMessage(v, m)
      PROVE  MessagesHeld' /\ OneWorkerEach'
  <2>1. /\ Claimable(m) /\ pc[v] = "idle"
        /\ outbox'[m] = ClaimedRow(outbox[m], OwnerOf[v])
        /\ \A n \in Messages \ {m} : outbox'[n] = outbox[n]
    BY <1>1 DEF ClaimCollectionMessage, ClaimMessage, TypeOK
  <2>2. /\ claim'[v].message = m /\ claim'[v].token = outbox'[m].fencingToken
        /\ \A w \in Workers \ {v} : pc'[w] = pc[w] /\ claim'[w] = claim[w]
    BY <1>1 DEF ClaimCollectionMessage, TypeOK
  <2>3. OnTime(v)'
    BY <2>1, <2>2, LeaseAssumption DEF OnTime, HoldsMessage, Holds, ClaimedRow
  <2>4. ASSUME NEW w \in Workers \ {v}, pc[w] # "idle"
        PROVE  claim[w].message # m /\ OnTime(w)'
    <3>1. claim[w].message # m
      BY <1>a, <2>1, <2>4 DEF MessagesHeld, OnTime, HoldsMessage, Holds, Claimable, Row
    <3>2. outbox'[claim[w].message] = outbox[claim[w].message]
      BY <1>a, <2>1, <2>4, <3>1
    <3> QED
      BY <2>2, <2>4, <3>1, <3>2, OnTimeKept DEF MessagesHeld
  <2>5. MessagesHeld'
    BY <2>2, <2>3, <2>4 DEF MessagesHeld
  <2>6. OneWorkerEach'
    BY <2>2, <2>4 DEF OneWorkerEach
  <2> QED
    BY <2>5, <2>6
<1>2. ASSUME NEW v \in Workers,
             RetryCollection(v) \/ AcknowledgeCollection(v) \/ HandleException(v)
      PROVE  Stays
  <2>1. pc[v] # "idle" /\ claim[v].message \in Messages /\ HoldsMessage(v)
    BY <1>2, <1>a DEF RetryCollection, AcknowledgeCollection, HandleException,
       MessagesHeld, OnTime
  <2>2. /\ \E row : outbox' = [outbox EXCEPT ![claim[v].message] = row]
        /\ Leave(v)
    BY <1>2, <2>1 DEF RetryCollection, AcknowledgeCollection, HandleException,
       RetryMessage, AcknowledgeMessage
  <2>3. /\ pc'[v] = "idle"
        /\ \A w \in Workers \ {v} : pc'[w] = pc[w] /\ claim'[w] = claim[w]
        /\ \A m \in Messages \ {claim[v].message} : outbox'[m] = outbox[m]
    BY <2>2 DEF Leave, TypeOK
  <2> QED
    BY <2>1, <2>3, OthersOnTime
<1>3. ASSUME NEW v \in Workers, Heartbeat(v) PROVE Stays
  <2>1. /\ pc[v] # "idle" /\ OnTime(v) /\ UNCHANGED <<pc, claim>>
        /\ claim[v].message \in Messages /\ outbox[claim[v].message] \in Row
    BY <1>3, <1>a DEF Heartbeat, MessagesHeld
  <2>2. RenewMessage(claim[v].message)
    BY <1>3, <2>1 DEF Heartbeat, OnTime, HoldsMessage, Renewable
  <2>3. /\ outbox'[claim[v].message] =
              [outbox[claim[v].message] EXCEPT !.leaseLeft = LeaseTicks]
        /\ \A m \in Messages \ {claim[v].message} : outbox'[m] = outbox[m]
    BY <2>1, <2>2 DEF RenewMessage, TypeOK
  <2>4. OnTime(v)'
    BY <2>1, <2>3, LeaseAssumption DEF OnTime, HoldsMessage, Holds, Row
  <2> QED
    BY <2>1, <2>3, <2>4, OthersOnTime
<1>4. ASSUME NEW t \in Tasks, DispatchTask(t) PROVE Stays
  <2> DEFINE m == <<t, tasks[t].generation>>
  <2>1. /\ outbox[m].state = "absent" /\ UNCHANGED <<pc, claim>>
        /\ outbox' = [outbox EXCEPT ![m].state = "pending"]
    BY <1>4 DEF DispatchTask, InsertMessage, wvars
  <2>2. ASSUME NEW w \in Workers, pc[w] # "idle"
        PROVE  OnTime(w) /\ outbox'[claim[w].message] = outbox[claim[w].message]
    BY <1>a, <2>1, <2>2 DEF MessagesHeld, OnTime, HoldsMessage, Holds, TypeOK
  <2> QED
    BY <2>1, <2>2, OnTimeKept
<1>5. ASSUME Tick PROVE Stays
  <2>1. ASSUME NEW w \in Workers, pc[w] # "idle" PROVE OnTime(w)'
    <3>1. /\ OnTime(w) /\ claim[w].message \in Messages
          /\ outbox[claim[w].message].leaseLeft \in Nat
          /\ outbox[claim[w].message].leaseLeft # 1
      BY <1>5, <1>a, <2>1, OverrunsCount DEF MessagesHeld, OnTime, Row
    <3>2. outbox'[claim[w].message] = ElapsedRow(outbox[claim[w].message])
      BY <1>5, <3>1 DEF Tick, ElapseOutbox
    <3> QED
      BY <1>5, <3>1, <3>2 DEF Tick, wvars, OnTime, HoldsMessage, Holds, ElapsedRow, Less
  <2> QED
    BY <1>5, <2>1 DEF Tick, wvars
<1>6. ASSUME UNCHANGED outbox,
             \A w \in Workers : pc'[w] # "idle" => pc[w] # "idle" /\ claim'[w] = claim[w]
      PROVE  Stays
  BY <1>6, OnTimeKept DEF MessagesHeld
<1>7. ASSUME NEW v \in Workers, Work(v),
             ~(RetryCollection(v) \/ AcknowledgeCollection(v) \/ HandleException(v))
      PROVE  Stays
  BY <1>6, <1>7 DEF Work, Goto, ReadTask, ClaimTask, CollectorReturns, CollectorRaises,
     MarkSucceeded, MarkFailed, TypeOK
<1>8. ASSUME NEW v \in Workers, Crash(v) PROVE Stays
  BY <1>6, <1>8 DEF Crash, Leave, TypeOK
<1>9. ASSUME UNCHANGED <<outbox, pc, claim>> PROVE Stays
  BY <1>6, <1>9
<1> HIDE DEF Stays
<1> QED
  BY <1>0, <1>1, <1>2, <1>3, <1>4, <1>5, <1>7, <1>8, <1>9
     DEF Next, vars, wvars, NonterminalSnapshot, ReleaseLogsFinalize,
         TerminalSnapshot, ScheduleDrain, DeferLogsFinalize

\* So do the tasks: whoever would end or take a running one holds its message.
LEMMA TasksHeldInductive ==
    ASSUME TypeOK, OneWorkerEach, TasksHeld, [Next]_vars
    PROVE  TasksHeld'
<1> SUFFICES ASSUME NEW w \in Workers, pc'[w] \in Executing
             PROVE  (HoldsTask(w) /\ tasks[Task(w)].generation = Generation(w))'
  BY DEF TasksHeld
<1>0. /\ claim'[w] = claim[w] /\ pc[w] # "idle" /\ Task(w) \in Tasks
      /\ claim[w].message = <<Task(w), Generation(w)>>
  BY ExecutorsClaim, BusyFields
<1>1. CASE ClaimTask(w) /\ ClaimableTask(w)
  <2>1. tasks'[Task(w)] = [state |-> "running",
                 generation |-> tasks[Task(w)].generation,
                 dueIn |-> tasks[Task(w)].dueIn,
                 owner |-> OwnerOf[w], token |-> claim[w].token]
    BY <1>0, <1>1 DEF ClaimTask, TypeOK
  <2> QED
    BY <1>0, <1>1, <2>1 DEF ClaimableTask, HoldsTask, Task, Generation
<1>2. CASE pc[w] \in Executing
  <2>1. HoldsTask(w) /\ tasks[Task(w)].generation = Generation(w)
    BY <1>2 DEF TasksHeld
  <2>2. ASSUME NEW v \in Workers, EndsTask(v, Task(w)) PROVE FALSE
    <3>1. pc[v] \in Executing /\ pc'[v] \notin Executing /\ Task(v) = Task(w)
      BY <2>2 DEF EndsTask, MarkSucceeded, MarkFailed, Goto, Executing, TypeOK
    <3>2. Generation(v) = Generation(w) /\ pc[v] # "idle"
      BY <2>1, <3>1 DEF TasksHeld, Executing
    <3>3. claim[v].message = claim[w].message
      BY <1>0, <3>1, <3>2, BusyFields
    <3> QED
      BY <1>0, <3>1, <3>2, <3>3 DEF OneWorkerEach
  <2>3. ASSUME NEW v \in Workers, TakesTask(v, Task(w)) PROVE FALSE
    <3>1. pc[v] = "claim" /\ Task(v) = Task(w) /\ Generation(v) = Generation(w)
      BY <2>1, <2>3 DEF TakesTask, ClaimTask, ClaimableTask
    <3>2. claim[v].message = claim[w].message
      BY <1>0, <3>1, BusyFields
    <3> QED
      BY <1>0, <1>2, <3>1, <3>2 DEF OneWorkerEach, Executing
  <2>4. RunsOn(Task(w)) /\ tasks'[Task(w)].state = "running"
    BY <1>0, <2>1, <2>2, <2>3, NextRunMoves DEF RunMoves, HoldsTask
  <2> QED
    BY <1>0, <2>1, <2>4 DEF RunsOn, HoldsTask, Task, Generation
<1> QED
  BY <1>1, <1>2, ExecutorsClaim

\* Until a lease runs out under a live worker, two workers never collect one task
\* at a time, messages of two of its generations included: for any workers,
\* shared ids, crashes and takeovers.
THEOREM OneCollectorAtATimeAlways == Spec => [](overruns = 0 => OneCollectorAtATime)
<1>1. Init => OnTimeInv
  BY DEF Init, OnTimeInv, MessagesHeld, OneWorkerEach, TasksHeld, Executing
<1>2. TypeOK /\ OnTimeInv /\ [Next]_vars => OnTimeInv'
  BY OverrunsCount, HoldingInductive, TasksHeldInductive DEF OnTimeInv
<1>3. TypeOK /\ OnTimeInv => (overruns = 0 => OneCollectorAtATime)
  <2> SUFFICES ASSUME TypeOK, OneWorkerEach, TasksHeld,
                      NEW v \in Workers, NEW w \in Workers,
                      pc[v] = "collect", pc[w] = "collect", Task(v) = Task(w)
               PROVE  v = w
    BY DEF OnTimeInv, OneCollectorAtATime
  <2>1. claim[v].message = claim[w].message
    BY BusyFields DEF TasksHeld, Executing
  <2> QED
    BY <2>1 DEF OneWorkerEach
<1> QED
  BY <1>1, <1>2, <1>3, TypeInvariant, PTL DEF Spec

=============================================================================
