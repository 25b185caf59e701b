# 107Pilot: TLA+ specifications, model checking and proofs

107Pilot runs users' computations ("Runs") on a Slurm cluster, watches them,
collects their evidence, and lets agents act on the results. This directory
specifies the parts of it in which several processes share work through the
database: the control outbox, the submission of Runs, the collection of
evidence, the terminal drain of a Run's logs, the seal of the evidence with the
Capsule built from it, the Turns of an agent with the side effects of its tool
calls, its validation tasks, and the edits of its workspace. Paths below are
relative to `src/src/pilot107/`, those of documents to `src/`.

`PROJECT.json` has the machine-readable side: which lines each definition
stands for (`map`), the runs, the hazards with the properties that cover them,
and the theorems.

## 1. The system

| Part | State it keeps | Operations | What makes it hard |
|---|---|---|---|
| control outbox (`core/control_repository.py` and its PostgreSQL twin) | `control_outbox` rows: state, available_at, lease, fencing token, attempts | enqueue, claim, renew, acknowledge, retry | leases that run out under a live worker, crashes, worker ids that are used again, a verdict decided in one transaction and written in another |
| control leases (same file) | one row per resource | acquire, renew, release | an owner that has lost its lease and goes on |
| run submission (`core/run_service.py`) | nothing of its own: the outbox row, the run row, jobs in Slurm | enqueue, dispatch, recover, reconcile, fail, cancel | three stores that are never written together; a call to Slurm whose outcome is unknown |
| run row (`core/run_store.py`) | state, job id, fences of submission, seal and capsule | claim_submission, apply_submit_receipt, fail_submission, apply_snapshot, update_state | some writers are fenced, some are not |
| evidence collection (`core/run_store.py`, `worker/runtime_worker.py`) | `collection_tasks`: state, generation, fence, next_attempt_at | ensure, reactivate, defer, release, claim, succeed, fail | takeover, reactivation under a new message, deferral under an old one |
| runtime watch (`runtime_watch/`) | watch row, two log cursors, segments, alerts | create, claim, renew, commit, release, schedule drain, hand over | polls that outlive their lease, a drain that starts under a poll, a callback that raises |
| evidence seal, capsule (`core/evidence_binding.py`, `core/run_store.py`, `worker/evidence.py`, `worker/capsule.py`) | seal and build fences on the run row, `evidence_objects`, files, `seal.json`, the capsule's directory | begin, renew, complete, invalidate; verify; begin, assert, finish | files and rows that must agree; collectors that write late; invalidation during a build |
| agent sessions and Turns (`agent/store.py`, `services/agent_session_service.py`, `worker/agent_turn_worker.py`, `agent/heartbeat.py`) | `agent_sessions`, `agent_turns`, `agent_turn_events` | create, claim, renew, append, complete, interrupt, cancel, recover | two leases for one piece of work; a stream that breaks and is opened again |
| operation ledger (`agent/operation_ledger.py`, `operation_attempts.py`, `operation_reconciler.py`, `tool_gateway.py`) | operations, attempts, invocations, receipts | reserve, prepare, start, complete, fail, mark unknown or stale, reconcile | a crash between an effect and its record; a Turn that is claimed again and asks again |
| agent tasks (`agent/task_store.py`, `services/agent_task_service.py`) | `agent_tasks`: state, gate, lease, Run, receipt | schedule, dispatch, link, advance the gate, finalize, wake the Session, cancel | Run, evidence and Capsule move under the gate; an outcome that is stored before it is told |
| agent workspace (`agent/postgres_workspace_atomic.py`, `postgres_workspace_durability.py`, `durable_workspace.py`) | head and lease, mutation journal, files, backups | claim, journal, apply, publish, roll back, recover | a database and a file system without a common transaction |
| workflows (`core/workflow_manifest.py`, `run_service.py`) | manifests, retry Runs | activate nodes, schedule retries, cancel | a crash between a snapshot and what it triggers |
| observability (`observability/`) | cycles, samples, alerts | collect under a control lease | a collector without a lease |
| remediation, advice, market, contracts, uploads, API, web, adapters | rows and files of one owner | mostly one transaction each | little interleaving; I/O |

They meet as follows. An API request or the worker's tick enqueues a message;
one worker claims it, does its work against the row it is about (a Run, a
collection task, a Turn, an agent task) and against the outside (Slurm, the file
system, pilot-agentd), and acknowledges it. The tick (`RuntimeWorker.tick`) runs
in this order: the watch service (hand-overs that are owed, then polls that are
due), workflows, the dispatch of agent tasks, due submissions, agent executions
and Turns, the active Runs one by one (`reconcile_once`, which applies a snapshot
and thereby creates or reactivates collection tasks; `ensure_run`; the start of
the terminal drain and the deferral of `logs_finalize`), observability, workflow
retries, the collection tasks, the gates of agent tasks (which seal the
evidence), capsules, the outcomes of agent tasks. When a drain is over, the watch
service calls back into the run store to release `logs_finalize`. A Turn's tool
calls come back through the API: they go through the operation ledger, edit the
workspace, and schedule agent tasks; an agent task that is over creates the next
Turn of its Session.

For each modelled part, what it must guarantee:

* outbox: only the last claim of a message counts; every message is settled in
  the end.
* submission: Slurm is called once for a Run; a Run is bound to one job for
  good, and only to one its own call made; no message is acknowledged before the
  outcome is stored; a failed Run has no job; every submission comes to an end.
* collection: no collection is lost or done again after it was settled; no
  execution writes for another generation; every due task is settled.
* drain: a watch stops only when both logs have been read to the end; it then
  stays stopped; only then is `logs_finalize` let go, and it is let go.
* seal: a receipt stands for evidence that can no longer change; seal and marker
  say the same; a Capsule that is ready holds what was sealed; sealing ends.
* Turns: events are stored in the order of the claims; what is over stays over;
  a message is acknowledged only then; a session has one Turn at a time; every
  Turn that is stored ends.
* operations: an effect takes place at most once, is reported completed only if
  it did, and its outcome is never taken back.
* agent tasks: no job without a linked Run; no success without the gate; what
  the Session is told is what was stored.
* workspace: what lies in the files is always a committed revision or a journal
  entry that can be undone; a revision is published once; a conflict is declared
  only for a cause.

## 2. The modules

```
OutboxTable            the rows of control_outbox, one operator per transaction
  +- OutboxWorkers       workers over it             MCOutboxWorkers
  +- RunSubmission       dispatchers, Runs, Slurm    MCRunSubmission
  |    `- implements AtMostOnceSubmission
  +- CollectionTasks     collectors, tasks           MCCollectionTasks
  +- AgentTurns          agentd's streams, Turns     MCAgentTurns
  +- AgentTasks          a task, its gate, its Run   MCAgentTasks
AgentTurnTable         the rows of agent_turns and agent_sessions
  +- AgentTurns
  +- OperationLedger     calls, operations, effects  MCOperationLedger
TerminalDrain          watch, cursors, hand-over     MCTerminalDrain
EvidenceSeal           seal, gate, Capsule           MCEvidenceSeal
WorkspaceEdits         head, journal, files          MCWorkspaceEdits

OutboxProofs          (OutboxWorkers, AgentTasks)
SubmissionProofs      (RunSubmission, AtMostOnceSubmission)
CollectionProofs      (CollectionTasks)
DrainProofs           (TerminalDrain)
AgentTurnProofs       (AgentTurns)
OperationProofs       (OperationLedger)
EvidenceProofs        (EvidenceSeal)
WorkspaceProofs       (WorkspaceEdits)
```

**OutboxTable** states each SQL transaction as a condition and a new row:
`Claimable`/`ClaimedRow`, `Holds` (the `WHERE` of `_finish`), `Renewable`,
`FinishedRow`, `RetryTarget`. A time is kept as its distance from the
repository's clock, cut off at zero, which is all the comparisons with `now` can
see. Topics are left out: each of the modules has messages of its own topic.

**OutboxWorkers** adds the processes: one message in hand, the heartbeat thread,
a crash at any point, and `retry` in its two transactions. The processes
(`Claimants`) map to worker ids by `OwnerOf`, which need not be injective: a
redeployed process comes back under the same id. The module has names of its own
(`DeliveryInit`, `DeliverySpec`), so that OutboxProofs can extend it together with
AgentTasks, a queue on the same table.

**RunSubmission** follows `_execute_submission_message` statement by statement.
`pc[d]` names the transaction or call that dispatcher `d` does next; between two
of them any other actor may step in. The outbox row, the run row and Slurm
(`inflight`: calls without a final answer; `landed`: jobs that exist) are three
stores. A transport error leaves the call in flight: its job may come to exist
at any later time, or never. The same goes for an error that the backend reports
as a rejection although Slurm has not refused the job; `misreported` has the Runs
this has happened to. A query by marker sees any part of what exists.
`Loopers` are the dispatchers of the worker's loop, which retry on an exception;
the others are API requests, which do not. A cancel is the read and the write
it is in the code.

**AtMostOnceSubmission** is what a caller may rely on, without any of that
machinery: a call goes out once, Slurm answers it, the Run is bound or given up,
and only then is it settled. RunSubmission maps to it by `KeepsPromise`: `call`
is read off `sent`, `inflight` and `landed`, `job` and `decided` off the run row,
`settled` off the outbox row.

**CollectionTasks** follows `_dispatch_collection_tasks` and
`_execute_collection_message`, with the snapshots that create and reactivate
tasks and the deferral of `logs_finalize` around them. A message is
`<<task, generation>>`, as the deterministic id is built.

**TerminalDrain** has one Run, its watch, two cursors, the task `logs_finalize`
and the workers' loop: hand-overs that are owed, one poll, reconciliation, the
start of a drain, collection. The job opens, writes, rotates and empties the logs
while they are polled; a read of a stream is two remote calls, `StatLog` and
`ReadNext`, and its cursor keeps what tells one text at a path from the next: the
file's identity and the fingerprint of its first bytes. Every claim bumps the row's fencing token and
every state change its version; both are only compared for equality with those
of a lease, so `current[w]` keeps that comparison instead of the numbers.

**AgentTurnTable** states the transactions of `SQLiteAgentSessionStore` on one
Turn and its session: create, claim, renew, append (an event already stored must
be the same; a new one needs the lease), complete, interrupt, cancel. An event
keeps, for the properties, the token it was appended under.

**AgentTurns** runs them: the message and the Turn are claimed one after the
other, the heartbeat renews first the Turn, then the message, and the stream of
pilot-agentd is read from the last saved checkpoint. The daemon's map of active
Turns is the variable `active`: a second stream for an active Turn is refused.

**OperationLedger** is `invoke` of the tool gateway, step by step: reserve the
invocation, reserve and classify the operation, reconcile what an earlier attempt
left, prepare and start an attempt under the Turn's fence, run the handler, and
record. `effects` counts how often the side effect really took place; a handler
may fail, and a call die, before or after it. AgentTurns' worker is the
environment here: claims, renewals, ends and cancels of the Turn.

**EvidenceSeal** has the seal columns, the rows of `evidence_objects`, the files
and the marker as four things that are written one after the other. A version
stands for the content of the files, and a collector that is late writes one of
its own. The marker is looked for, replaced and read again in steps of their own,
none of which asks for the claim: only the renewals before and after them do, so
that a process may replace the marker after others have taken over and completed
the seal. A replace may also fail, as it does once the directory is read-only.
Three kinds of work pass through the same gate: sealing, the gate of an agent
task, and a build of the Capsule.

**AgentTasks** has one task, its Run with evidence and Capsule, and its three
messages (execute, the repetition by a second tool call, ready). `_dispatch`,
`reconcile_task`, `_finalize` and the request to cancel are followed transaction
by transaction; the Run, the evidence and the Capsule move by themselves in
between, as the other modules let them.

**WorkspaceEdits** follows `apply_patches`: the lock of the workspace, the
recovery of the journals a dead edit left open, lease, backup, journal, the files
one by one, and the transaction that publishes. A digest is what it digests, so
the comparison of digests is a comparison of trees. The variable `foreign` says
what something else than an edit has changed, so that the properties can say whom
a difference is due to.

What is abstracted everywhere: payloads, error texts, poll intervals, names.
RunSubmission has one state for all a Run goes through after `SUBMITTED`,
TerminalDrain one for all active and one for all final states, and one for the
watch states that differ in the poll interval only. In WorkspaceEdits, a digest
check and the replacement of the file are one step, and so are the removal of a
backup and `mark_rolled_back`; permissions, links, created parent directories
and I/O errors (which take the path of a lost lease) are left out.

## 3. The runs

Each property has a mutant in `PROJECT.json`: a plausible slip in one definition
that TLC must find with the same configuration. The mutated forms stand before
the definitions they replace, marked `(Mutant)`.

| Run | Instance | Shows |
|---|---|---|
| `outbox_messages` | 3 workers, two with one id, 1 message, 3 faults, budgets {1, 3} | `OneClaimPasses`, `PlanStaysTrue`, `EventuallySettled` |
| `submit_safety` | 2 loopers with one id and an API request, 1 Run with an array of 2, 1 crash, 2 overruns, cancels | `AtMostOneSubmit`, `FailedMeansNoJob`, `KeepsPromise` |
| `submit_liveness` | 2 loopers without a reconciliation backend, 1 crash, 1 overrun | `SubmissionSettles` |
| `collection_safety` | a reactivated and a deferrable task, 2 workers with their own ids, 1 crash, 1 overrun | `AckedMeansSettled`, `SettledTaskStays`, `WrittenByItsGeneration` |
| `collection_on_time` | 2 workers with one id, 1 crash, no overrun, no deferral | `OneCollectorAtATime`, `CollectionSettles` |
| `drain_safety` | 2 workers, a log of 2 bytes that is rotated or emptied once and one of 1 byte, a read error, an overrun | `StoppedMeansDrained`, `ReleasedAfterStop` |
| `drain_single` | 1 worker, the same logs, budgets {1, 2}, 2 crashes, 1 failing hand-over, 1 overrun, a cancel | `TypeOK`, `HandedOffMeansReleased`, `JobOverSettles` |
| `agent_turns` | 2 workers with one id, 1 Turn, streams of up to 2 events before the terminal one, 1 fault, cancels | `EventsInFenceOrder`, `AckedMeansOver`, `SessionFollowsTurns`, `OverForGood`, `TurnSettles` |
| `agent_operations` | 2 Turns of a session, one of them claimed twice, 1 operation asked for under 2 keys by 2 calls at a time | `EffectAtMostOnce`, `CompletedMeansEffect`, `AnsweredMeansCompleted`, `OutcomeStays` |
| `evidence_seal` | 2 processes, 1 late collector, 2 faults, 2 builds | `TypeOK`, `ReceiptMatchesEvidence`, `SealMatchesMarker`, `ReadyMeansBuilt`, `SealSettles` |
| `agent_tasks` | 2 workers with one id, 1 API client, 1 request, 1 fault, 1 Capsule build per stamp | `TypeOK`, `SubmittedMeansLinked`, `SucceededMeansGated`, `OutcomeReachesSession` |
| `workspace_edits` | 2 editors, 2 files, 2 contents, 2 edits, 1 change from outside, 2 faults | `TypeOK`, `FilesAccountedFor`, `OpenCanBeUndone`, `RevisionsAreCommits`, `ConflictHasACause` |

`TypeOK` is an invariant of a run where the run is the quicker way to see it
broken; it is a theorem for every module (section 4), and so is every safety
property of this table, four of them under a hypothesis. `submit_safety` is also
where the refinement is checked: TLC compares every step of RunSubmission with
`AtMostOnceSubmission!Spec`.

### Bounds

Every bound is a constant and is named as such where it is declared.
`MaxCrashes`, `MaxOverruns` (leases that run out in use) and `MaxFaults` are
budgets for faults that are not bounded in reality. Two overruns and three
dispatchers are what it takes for a holder to be overtaken by one that is
overtaken itself; safety needs no more, since a fence only ever compares a claim
with the row. `MaxClaims` cuts off the attempts: safety runs cut early, the runs
with liveness have it above what budgets and faults allow, so that it never
disables a claim. One Run, Turn, task or message is enough where the modules
have no interaction between rows. Two generations are the first ones that can be
confused, and two Turns and two keys the fewest that can ask for one operation
from two places. Two bytes and a quantum of one are what it takes for a poll to
leave something behind; a fingerprint of one byte stands for logs longer than
`FINGERPRINT_BYTES`, and one rotation is enough to meet a cursor in the middle of
the log it replaces, between two polls or between a stat and its read. Two files are what it takes to die between them, and two
edits for a backup or a journal of the first to lie in the way of the second.
`LeaseTicks = 1` lets a lease run out in one step; where a lease must be seen
both aging and expired it is 2.

Deadlock is not checked where everything may be done (all messages settled, all
requests used up); it is checked in the runs of TerminalDrain, whose workers loop
for ever.

### Fairness

Safety is checked for any scheduling. Liveness assumes, and the code justifies:

* the clock runs (`WF` of `Tick`);
* a worker that has begun with a message goes on with it: Slurm calls, SSH,
  collectors and streams have timeouts (`WF` of `Work`, `Seal`), and its
  heartbeat thread beats (`WF` of `BeatTurn`, `BeatMessage`);
* a message that stays claimable is claimed by somebody, since `claim_outbox`
  runs in every tick, ordered by `available_at`, with a limit per tick (`WF` per
  message);
* `recover_pending_turns` runs in every tick, so a stored Turn gets its message,
  and pilot-agentd lets go of a Turn whose stream was closed (`WF` of
  `EnqueueTurn`, `AgentdReleases`);
* a watch that keeps coming due is listed (`SF` of `ListDue`): which of two
  outcomes a single poll of the clock has says nothing about the next ones.

No fairness is assumed of users, of jobs, of Slurm's answers, or of crashes,
which are finitely many. `SubmissionSettles` is about the worker's loop only: an
API request does not retry its message, so endless requests could keep claiming.
OperationLedger, AgentTasks and WorkspaceEdits are checked for safety only: the
section below lists the states from which they do not come out.

### Departures seen

Behaviours the models show, or the reading for them did, in which the code does
less than a document or comment says, or leaves somebody waiting. No run is spent
on them; the properties above are stated so that they hold beside them.

*Submission.*
* The lease runs out while Slurm answers: `fail_submission` makes the Run
  `SUBMIT_FAILED`, its job runs on (`core/run_service.py:693`; the comment at
  `:689` wants the Run left in `SUBMITTING`). `FailedMeansNoJob` therefore speaks
  of leases that were kept.
* `SlurmSubmissionRejected` is documented as "cannot be submitted due to validated
  input" (`adapters/slurm.py:55`), but it is also raised when sbatch fails for any
  reason, a time-out of its own included, when it succeeds and its output cannot
  be parsed (`:2385`, `:2068`, `:2200`), and for every answer of REST from 400 up,
  502 and 504 included (`:1973`). `core/run_service.py:678` then makes the Run
  `SUBMIT_FAILED` although its job may exist or come to exist; for outcomes that
  cannot be decided `docs/phase-3/phase3g_submission_outbox_review.md:14` wants
  `SUBMISSION_UNCERTAIN`. `FailedMeansNoJob` leaves these Runs (`misreported`) out.
* A cancel during `backend.submit` leaves a job nobody cancels (`:925`;
  `docs/superpowers/specs/2026-08-25-vm-demo-closure-design.md:133` wants the
  request propagated to the job).
* The last attempt used up by the loop's own retry, or a crash between the retry
  that dead-letters the message and the update of the run row (`:481`,
  `:820-831`), leaves the Run `SUBMITTING`.
* Without a reconciliation backend a transport error fails the Run although its
  job may exist (`:775`, documented as best effort).

*Collection.*
* Under a shared worker id, a superseded process can settle the next
  generation's task (`core/run_store.py:3056`, `:3064`);
  `WrittenByItsGeneration` is checked for ids of their own.
* `logs_finalize` deferred while its message is in hand: the claims of the
  waiting task fail, the message becomes a dead letter, and the task, once
  released, has no message left. `CollectionSettles` is checked without deferral.
* A legacy lease whose token exceeds the message's attempts cannot be taken over
  (`:2836`).

*Terminal drain.*
* The worker that sees the terminal state schedules the drain and defers
  `logs_finalize` in two transactions (`worker/runtime_worker.py:350`): a second
  worker can drain and hand over in between, and the deferral waits for ever.
  `JobOverSettles` is checked with one worker.
* A cancelled Run gets no terminal drain (`core/run_service.py:927`).
* `MaxReadErrors = 1` in `DrainSingle.cfg`: a read error during the drain turns
  `finalizing` into `degraded`; the watch is never drained and `logs_finalize`
  waits for ever (`runtime_watch/service.py:288-298`).
* `Budgets = {1, 2}` in `DrainSafety.cfg`: when the connection's bytes are used
  up after stdout, stderr's old cursor counts as drained (`:210`). With the
  default policy this takes more than 32 watches with full streams.
* A short log (its offset below `FINGERPRINT_BYTES`) that is emptied in place and
  has outgrown its old size by the next poll passes for one that has grown
  (`runtime_watch/reader.py:142`): the start of the new text is never read
  (`tests/runtime_watch/test_reader.py:87` has copytruncate start a new
  generation). `FingerprintBytes = 2` in `DrainSafety.cfg` shows it.
* A log file that becomes visible only after the drain, as a shared file system
  allows, counts as read to the end (`:70`).

*Evidence seal.*
* A collector that writes between the validation of the tree and the fingerprint
  yields a `SEALED` seal whose gate then fails, and one that writes later can make
  a seal `INVALID` for good. Both fail closed.
* The operation key of an explicit Capsule request differs from that of the
  worker's message; whichever begins first locks the other out.

*Turns and operations.*
* While one Turn of a user runs, the claim of a second loses against
  `uq_agent_turns_running_owner` and is retried; after five attempts its message
  is a dead letter, and `recover_pending_turns` cannot insert another
  (`docs/superpowers/plans/2026-08-14-pilot-agent-a1-readonly-turns.md:226` has
  it remain queued).
* A crash before the first saved checkpoint, with a stream that then differs,
  conflicts until the message is a dead letter; a crash after the terminal event
  with a saved checkpoint appends a second stream.
* An operation reserved by a Turn that ended before its start is
  `OPERATION_IN_PROGRESS` for every later Turn; one whose start was fenced off is
  `STALE` until a receipt appears.

*Agent tasks* (the first four found by TLC).
* A cancel during the dispatch before `link_run`, a lost lease and a message
  delivered again give "cancelled before Run creation" for a Run that is linked
  and live (`services/agent_task_service.py:487`).
* The receipt's `terminal_at` is the Run's `updated_at`
  (`core/evidence_binding.py:467`), which every Capsule transition moves: a
  Capsule build between the gate and its revalidation blocks a task that asked
  for no Capsule (`docs/superpowers/plans/2026-08-31-agent-task-evidence-gate.md:24`).
* After a crash once the receipt is stored, the same move makes every later
  `advance_gate` raise: the task never settles (`agent/task_store.py:680-686`).
* A ready message that dead-letters while the Session is busy has already cleared
  `ready_outbox_pending`: the Session is not woken.
* `_finalize_without_gate` is two transactions (`:911`); after a crash between
  them another outcome's gate counts as going back. A Run that was never submitted
  can stay linked when its execute message is used up.

*Workspace.*
* An editor that dies inside `_atomic_write` leaves a temporary file; the restored
  digest then differs, the journal becomes a conflict, and every later edit is
  refused until somebody restores the content
  (`agent/postgres_workspace_atomic.py:208`). `ConflictHasACause` counts it as a
  cause (`stray`).
* A change from outside between the check of the touched paths and their
  restoration, or between a file's digest and its replacement, is overwritten
  and nothing tells (`:588`); the plan says "never guess and overwrite".
* `FILES_APPLIED` is written by nothing: a journal whose files were all applied
  is rolled back, not committed.

## 4. The proofs

All theorems are about the specifications with arbitrary constants: any number of
dispatchers, workers, clients, messages, Turns, calls, editors and files, any lease length,
any fault budget. They use the assumptions the modules declare (finite sets of
processes, owners of the right type, `NoOwner`, `NoRun` and the like outside their
sets). Four say more in their statement, and each time the run of the property has
an instance of it:

| Theorem | Hypothesis | Where the code has it |
|---|---|---|
| `FailedMeansNoJobAlways` | `HasReconcile`: the dispatchers look for a job before they give a Run up | `idempotency_reconcile_enabled`, on by default (`worker/service.py:165`, `api/service.py:185`) |
| `WrittenByItsGenerationAlways` | `DistinctIds`: no two worker processes under one id | one worker process (`scripts/start-competition.sh:55`); under shared ids it is false (section 3) |
| `StoppedMeansDrainedAlways` | `AmpleBudgets`: a poll's bytes do for more than a quantum. `EmptyingShows`: a log is emptied in place only when nothing of it, or a whole fingerprint, has been read | the default policy with few watches; logs longer than `FINGERPRINT_BYTES` (section 3 has the two departures) |
| `HandedOffMeansReleasedAlways` | there is one worker process (`HandedOffUnlessLate` has instead `DeferredInTime`: no deferral after the drain it is for) | as above |

**Outbox.** Every module over OutboxTable has the lemma `RowSteps`: what each row
operator returns is a row. `TypeInvariant` follows. `OneClaimPassesAlways`: "at
most one claim passes" is not inductive, because a stale hand might be revived by
a claim that happens to produce its token. The strengthening adds that a token in
a hand never exceeds that of its row and that two busy workers never hold the
same message and token; a claim raises the row's token above all of them.
`PlanStaysTrueAlways`: `retry` decides on attempts it read in an earlier
transaction. `PlanInv` says that whoever still passes the fence sees the attempts
it decided on, for only a claim changes them (`PlanKept`), and a claim ends every
claim before it.

**Submission.** `TypeInvariant` and `AtMostOneSubmitAlways`. Call a dispatcher
fresh while it may still reach `backend.submit`: it has read the Run as
`VALIDATED` and stands before the intent, the renewal or the call. That Slurm is
called once is not inductive: two fresh dispatchers could both go on to call.
`SubmitInv` adds that two dispatchers never hold one message under one token,
that no token in a hand, or of a call already made, is above that of the outbox
row, that a Run somebody has renewed for or sent is not `VALIDATED` (so whoever
claims later is not fresh), and that once a dispatcher is past its renewal, or
has called, every other fresh one holds a smaller token. Its own renewal will
then fail, and it never calls.

Three theorems about the run row follow from one lemma, `NextMoves`: a step leaves
a run row alone, is a claim of it, or decides it. `JobBoundOnceAlways`: a claim
asks for `job_id IS NULL`, and a decision writes a job only over none.
`RunFenceMonotoneAlways`: a `VALIDATED` row has token 0 (`Unclaimed`, an invariant
of its own), so both disjuncts of `claim_submission` raise it.
`AcknowledgedMeansDecidedAlways`: a dispatcher at an acknowledgement that the
outbox's fence still lets pass has seen, or made, a decided run row, and decided
rows stay so. `Refinement` puts these together with `AtMostOneSubmitAlways`:
RunSubmission implements AtMostOnceSubmission. Its invariant `PromiseInv` adds
what the mapping needs: calls in flight and jobs landed are of a call that was
sent, and a job about to be bound has landed. Each action of the protocol is then
a step of the promise or a stutter.

`FailedMeansNoJobAlways` is about leases that were kept. `FailInv` says, while no
dispatcher has outlived its lease: whoever is at work still holds its message and
is alone with it (`WorkersOnTime`), whoever is about to fail a Run was refused by
Slurm itself, or the Run is one of the `misreported`, which the theorem says
nothing about (`RejectedMeansRefused`), and the same holds of the Run that is
`SUBMIT_FAILED` (`FailedMeansRefused`). A call is answered once (`AnsweredOnce`),
so what was refused can no longer land.

**Collection.** `TypeInvariant`, `AckedMeansSettledAlways` and
`SettledTaskStaysAlways`. `TypeOK` needs one more conjunct to be inductive (each
deferral under way was counted). For the other two, `NextMoves` says what a step
may do to tasks (a generation never goes back, a settled one stays), to messages
and to workers. `CollectionInv` adds that a message exists only for a generation
that has begun, and that a worker at the acknowledgement has a task that is
settled or past. Without the first, the message of a generation to come could be
acknowledged for the one before it. Worker ids may be shared in both theorems.

`WrittenByItsGenerationAlways`: the fence of a task is its owner, not the token,
so what it needs is that a running task under a worker's id is of the generation
that worker executes (`OwnRows`); a reactivation makes the task pending, and only
a claim under another id can make it running again. `OneCollectorAtATimeAlways`
needs no such hypothesis: `OnTimeInv` says, while no lease has run out under a
live worker, that each worker holds its message and is alone with it, and that
one that executes a task holds the task in its own generation.

**Drain.** `DrainTypeOK`, whose invariant adds that a worker at a stream's steps
has a stream and has read no more than the connection has left.
`StoppedForGoodAlways` and `ReleasedAfterStopAlways`, from the invariant
`DrainInv`: one worker's lease at most fits the row of the watch, nobody's fits
that of a stopped one, and a worker at the hand-over has seen it stopped.

`StoppedMeansDrainedAlways` is about what a cursor knows. `ReadInv` says that a
drain begins only after the job is over, so that its logs no longer move; that a
cursor, and what a worker has read and not yet committed, is of nothing, of the
text that is there, or of an earlier one that the next stat will tell from it
(`Tracks`: another file, or a fingerprint of another text); that the budget does
for both streams; and that a poll of a drain whose lease fits the row leaves each
cursor it has passed up to date with its log. `HandedOffUnlessLate`: an
acknowledged hand-over is one of a stopped watch, and who acknowledges has just
released `logs_finalize`; only a late deferral can take that back, and one worker
defers before it drains.

**Turns.** `TypeInvariant` and four properties of AgentTurns. Two lemmas say what
any step may do to a row of a Turn (`TableStep`) and to the outbox (`OutboxStep`);
`OverForGoodAlways` follows from the first alone, since no transition leaves a
terminal state. `AckedMeansOverAlways` needs that a worker at the acknowledgement
has seen its Turn over. `SessionFollowsTurnsAlways` is inductive with types: each
transaction moves both rows. `EventsInFenceOrderAlways` adds that no event was
appended under a token above the Turn's, so a claim, which raises it, cannot be
followed by an older one.

**Agent tasks.** `TaskTypeInvariant`, `SubmittedMeansLinkedAlways`,
`SucceededMeansGatedAlways` and `OutcomeReachesSessionAlways`, from one invariant,
`TaskInv`; TLC has checked it on the instance of `agent_tasks` and on one worker
with two faults. A lease guards every write to the row of a task, but not what the
worker decided before it, on a Run, evidence and a Capsule that move without it:
that a task which has succeeded has what its gate asks for is not inductive, for a
worker may be on its way to store a success that nothing supports. `TaskInv` adds
what each process knows at its place. `KnowsRun`: who submits, cancels or judges
the Run has a linked task, so the link is there before the Run moves.
`KnowsOutcome`: from the gate on, the worker's receipt is there and the Run, its
evidence and its Capsule are what a success needs (`Earned`); on the other ways it
has a failure or a cancel in hand. `KnowsOver`: who announces an outcome, marks it
as announced or acknowledges it has seen the task over, the message stored, the
Session woken. None of this is protected by a lease, and none needs to be:
`StoredForGoodAlways` says that a step takes back no link, cancel, receipt, result
of a collector, seal, ready Capsule, outcome, message or wake, and that a Run that
succeeded stays one unless a cancel was asked for. So a process that is overtaken
still knows what it knew (`StillKnows`), and what is left to prove of a step is what
its own actor learns. The intent and the message need nothing more: the outcome and
`readyPending` are one write, and the intent is dropped only by one who has seen
the message (`RowsAgree`).

**Operations.** `TypeInvariant` and the four properties of the ledger from one
invariant, `OperationInv`. That an effect takes place once is not inductive: two
calls could both stand before the handler. It adds what each call knows where it
stands: one that executes an operation found it started and without effect, one
about to complete it has had the effect, one about to answer found it completed;
that no two calls execute one operation; and that an operation that was never
started has had no effect. A start needs the state `reserved`, no step leads back
there (`OpsKept`), and so the second call never gets to the handler.
`OutcomeStaysAlways` is `OpsKept` for the outcomes: each write of the reconciler
asks for the state it has read before.

**Evidence.** `TypeInvariant` and the three safety properties of EvidenceSeal from
one invariant, `SealInv`. That a receipt stands for evidence that can no longer
change is not inductive: files, rows, marker and seal are written one after the
other, by whoever has the claim at that moment. The invariant has what is true
once the seal is completed (`SealedKept`: the files are read-only, the rows are
frozen, the marker is the seal's and the rows are those it was made of) and once
there is a directory (`DirectoryKept`), and for each process what it may believe
where it stands (`ProcessInv`): what it read is of frozen rows, there is a marker
and it is the one this process would write, a gate that has compared files and
rows stays right. No claim protects the marker, so `SealMatchesMarkerAlways` rests
on what it is made of: the first process that marks the rows as checked freezes
them, and from then on nobody marks them with another digest (`OneDigest`); all
the markers anybody may write are therefore equal, and one that is replaced late
is replaced by itself (`MarkerStays`). The rest is inductive because what is fixed
stays fixed (`Forward`): frozen rows, read-only files, a completed seal.

**Workspace.** Five theorems about WorkspaceEdits from one invariant,
`WorkspaceInv`. The lock lets one editor work at a time, but it may die at any
step, so what the next one relies on is in the tables alone: only the last
mutation can be open, it started from the head as it is, and its backup is there
(`OpenIsLast`); revisions never run ahead of mutations, and a committed one is
below the head's (`JournalUpToHead`); every file that nothing else has changed is
as the head says, or is touched by the open mutation and as that makes it
(`OpenAccounts`). To these come, for the editor at work, that nothing is open
before it writes its journal, that the mutation it works on is open, and what it
has written or restored so far (`InPlace`, `Preparing`, `WorkingOn`, `Written`).
`FilesAccountedForAlways` and `RevisionsAreCommitsAlways` are parts of it,
`OpenCanBeUndoneAlways` is `OpenIsLast`. `ConflictHasACauseAlways`: by
`OpenAccounts` a path that is neither as before nor as after is one that something
else has changed, and an undo that has put everything back, with nothing foreign
and no temporary file, finds the digest it wants. The delicate case is a
transaction that commits while its answer is lost: the editor goes to its rollback
with a mutation that is committed, and reads that before it undoes anything.

| Only model-checked | Why |
|---|---|
| liveness: `EventuallySettled`, `SubmissionSettles`, `CollectionSettles`, `JobOverSettles`, `TurnSettles`, `SealSettles` | fairness and `ENABLED` are out of the prover's reach |
| that the hypotheses above cannot be dropped | TLC's counterexamples are the departures of section 3 |

## 5. What is not modelled

* Slurm and SSH adapters, the routing of the API, the web front end,
  pilot-agentd itself, the simulator and deployment scripts: I/O and
  presentation. What the modelled parts see of them is an environment action.
* Contracts, preflight, resource plans, schemas and migrations: pure validation
  and layout of large records, without steps that could interleave. They make up
  most of the lines of the repository.
* Market, publications, builder workflows, remediation and advice: rows of one
  owner with a compare-and-set on a version.
* The paths that work without a control repository
  (`_submit_prepared_inline`, `_dispatch_legacy_collection_tasks`):
  single-process fallbacks.
* In modelled parts: late visibility of log files and alerts of the runtime
  watch; a file handle a collector opened before the files were made
  read-only; an idempotency key that is used again for other content; the
  triggers that guard sealed rows in the database (`core/run_store.py:3231-3284`)
  as anything more than the guard on the seal.
* Not yet: workflows and workflow retries, control leases.

## 6. Plan

In this order; each with an MC module, its mutants and its hazards.

1. **RunLifecycle**: `apply_snapshot`, `cancel`, orphaning and workflow retries
   on one Run with several reconcilers: a Run that is over stays over; a failed
   Run gets its retry, once. Hazards at `core/run_store.py:1076`,
   `core/run_service.py:912`.
2. **WorkflowManifest**: stages that are submitted before the manifest is saved
   under its version, and recoveries planned from what was read before.
3. **ControlLeases** with the observability collector.

Later runs may take the place of some in section 3; a departure or property whose
run is dropped moves to the lists there.
