---------------------------- MODULE TerminalDrain ----------------------------
(***************************************************************************)
(* The Runtime Watch of one Run and the hand-over to evidence collection:  *)
(* the watch row and its log cursors (runtime_watch/store.py), the tick    *)
(* that polls them (runtime_watch/service.py), and the worker's tick       *)
(* around it (worker/runtime_worker.py), which reconciles the Run, starts  *)
(* the terminal drain and defers logs_finalize until the drain is over.    *)
(*                                                                         *)
(* A worker goes round one loop; pc[w] says which transaction or remote    *)
(* call of it comes next.  Every write to the watch row that matters bumps *)
(* its version, and a claim bumps fencing_token too; both only grow and    *)
(* are only compared for equality with those of a lease, so instead of     *)
(* their values current[w] keeps whether they are still those of w's       *)
(* lease.                                                                  *)
(*                                                                         *)
(* A log file appears when the job starts, and may be rotated away or      *)
(* emptied by the job.  text tells apart what was written to one path      *)
(* between two such events, file the inode it was written to.              *)
(*                                                                         *)
(* Left out: alerts, the numbers of generations, and next_poll_at, which   *)
(* only delays polls.  The states watching, waiting_for_log, active and    *)
(* quiet_backoff differ in that delay only: "watching" stands for them.    *)
(***************************************************************************)
EXTENDS Naturals, FiniteSets

CONSTANTS
    Workers,
    LeaseTicks,         \* lease_seconds of the watch
    Quantum,            \* max_bytes_per_watch_stream
    FingerprintBytes,   \* FINGERPRINT_BYTES of a log that tell its text
    Budgets,            \* what other watches may leave of a connection's bytes
    HasCancel,          \* whether the user may cancel the Run
    MaxBytes,           \* bound: how long each log gets
    MaxRotations,       \* bound: how often each is rotated or emptied
    MaxReadErrors,      \* bound: polls that raise
    MaxHandoffErrors,   \* bound: on_terminal_drained calls that raise
    MaxCrashes,         \* bound: workers that die and start over
    MaxOverruns         \* bound: leases that run out in use

Streams == {"stdout", "stderr"}

ASSUME WorkersAssumption == IsFiniteSet(Workers)
ASSUME PolicyAssumption ==
    /\ LeaseTicks \in Nat \ {0} /\ Quantum \in Nat \ {0} /\ Budgets \subseteq Nat \ {0}
    /\ FingerprintBytes \in Nat \ {0}
ASSUME SwitchAssumption == HasCancel \in BOOLEAN
ASSUME BoundsAssumption ==
    /\ MaxBytes \in [Streams -> Nat] /\ MaxRotations \in [Streams -> Nat]
    /\ MaxReadErrors \in Nat /\ MaxHandoffErrors \in Nat
    /\ MaxCrashes \in Nat /\ MaxOverruns \in Nat

VARIABLES
    jobOver, log,    \* Slurm: the job has ended; the file at each log's path
    run,             \* the run row: "active" or "terminal"
    logs,            \* the state of the task logs_finalize
    watch,           \* the row of runtime_watches
    cursor,          \* the rows of runtime_log_cursors
    pc, seen, current, stream, budget, read,   \* the workers
    readErrors, handoffErrors, crashes, overruns

job == <<jobOver, log>>
locals == <<seen, current, stream, budget, read>>
bounds == <<readErrors, handoffErrors, crashes, overruns>>
vars == <<job, run, logs, watch, cursor, pc, locals, bounds>>

WatchState == {"absent", "watching", "degraded", "finalizing", "stopped"}
LogsState == {"absent", "pending", "waiting_runtime_watch", "collected"}

\* 0 stands for no file and no text; readFrom is the text of the first byte
\* read, which the row does not say and the properties ask about.
Log == [file: Nat, text: Nat, size: Nat]
Prefix == [text: Nat, length: 0..FingerprintBytes]
Cursor == [file: Nat, prefix: Prefix, offset: Nat, sourceSize: Nat, readFrom: Nat]
PC == {"tick", "list", "claim", "renew", "stat", "read", "commit", "release",
       "degrade", "handoff", "acknowledge", "reconcile", "applyActive", "applyOver",
       "ensure", "schedule", "defer", "collect"}

TypeOK ==
    /\ jobOver \in BOOLEAN /\ log \in [Streams -> Log]
    /\ run \in {"active", "terminal"} /\ logs \in LogsState
    /\ watch \in [state: WatchState, leaseLeft: 0..LeaseTicks, handedOff: BOOLEAN]
    /\ cursor \in [Streams -> Cursor]
    /\ pc \in [Workers -> PC] /\ seen \in [Workers -> WatchState]
    /\ current \in [Workers -> BOOLEAN]
    /\ stream \in [Workers -> Streams \cup {"none"}]
    /\ budget \in [Workers -> Nat]
    /\ read \in [Workers -> [from: Cursor, next: Cursor, amount: Nat]]
    /\ readErrors \in 0..MaxReadErrors /\ handoffErrors \in 0..MaxHandoffErrors
    /\ crashes \in 0..MaxCrashes /\ overruns \in 0..MaxOverruns

NoLog == [file |-> 0, text |-> 0, size |-> 0]
Beginning == [file |-> 0, prefix |-> [text |-> 0, length |-> 0], offset |-> 0,
              sourceSize |-> 0, readFrom |-> 0]
NothingRead == [from |-> Beginning, next |-> Beginning, amount |-> 0]

\* The Run has a job; its watch is made by the first reconcile.
Init ==
    /\ jobOver = FALSE /\ log = [s \in Streams |-> NoLog]
    /\ run = "active" /\ logs = "absent"
    /\ watch = [state |-> "absent", leaseLeft |-> 0, handedOff |-> FALSE]
    /\ cursor = [s \in Streams |-> Beginning]
    /\ pc = [w \in Workers |-> "tick"]
    /\ seen = [w \in Workers |-> "absent"]
    /\ current = [w \in Workers |-> FALSE]
    /\ stream = [w \in Workers |-> "none"]
    /\ budget = [w \in Workers |-> 0]
    /\ read = [w \in Workers |-> NothingRead]
    /\ readErrors = 0 /\ handoffErrors = 0 /\ crashes = 0 /\ overruns = 0

Goto(w, place) == pc' = [pc EXCEPT ![w] = place]

\* The local variables of a poll are gone, all but its lease; and the lease.
LeavePoll(w) ==
    /\ seen' = [seen EXCEPT ![w] = "absent"]
    /\ stream' = [stream EXCEPT ![w] = "none"]
    /\ budget' = [budget EXCEPT ![w] = 0]
    /\ read' = [read EXCEPT ![w] = NothingRead]

EndPoll(w) == LeavePoll(w) /\ current' = [current EXCEPT ![w] = FALSE]

Least(a, b) == IF a < b THEN a ELSE b

-----------------------------------------------------------------------------
\* RuntimeWatchService.tick: first the hand-overs that are still owed ...

\* (Mutants) A scan that asks for no state; no scan at all.
HandoffOwedInAnyState == watch.state # "absent" /\ ~watch.handedOff
HandoffOwedNever == FALSE

\* list_stopped_watches
HandoffOwed == watch.state = "stopped" /\ ~watch.handedOff

ListStopped(w) ==
    /\ pc[w] = "tick"
    /\ Goto(w, IF HandoffOwed THEN "handoff" ELSE "list")
    /\ UNCHANGED <<job, run, logs, watch, cursor, locals, bounds>>

\* ... then the watches that are due.  The record it polls by is the one it
\* lists here, before the claim.
ListDue(w) ==
    /\ pc[w] = "list"
    /\ watch.state \notin {"absent", "stopped"} /\ watch.leaseLeft = 0
    /\ seen' = [seen EXCEPT ![w] = watch.state]
    /\ Goto(w, "claim")
    /\ UNCHANGED <<job, run, logs, watch, cursor, current, stream, budget, read,
                   bounds>>

\* A watch is not listed while it is leased or, unless it drains, not yet due.
ListNothing(w) ==
    /\ pc[w] = "list"
    /\ watch.state # "finalizing" \/ watch.leaseLeft > 0
    /\ Goto(w, "reconcile")
    /\ UNCHANGED <<job, run, logs, watch, cursor, locals, bounds>>

ClaimWatch(w) ==
    /\ pc[w] = "claim"
    /\ IF watch.state # "stopped" /\ watch.leaseLeft = 0
       THEN /\ watch' = [watch EXCEPT !.leaseLeft = LeaseTicks]
            /\ current' = [v \in Workers |-> v = w]
            /\ stream' = [stream EXCEPT ![w] = "stdout"]
            /\ \E left \in Budgets : budget' = [budget EXCEPT ![w] = left]
            /\ Goto(w, "renew") /\ UNCHANGED <<seen, read>>
       ELSE Goto(w, "reconcile") /\ EndPoll(w) /\ UNCHANGED watch
    /\ UNCHANGED <<job, run, logs, cursor, bounds>>

\* _assert_lease, and the WHERE of renew_watch and release_watch.
HoldsLease(w) == current[w] /\ watch.leaseLeft > 0

\* The lease is renewed before each stream, unless the bytes are used up.
RenewWatch(w) ==
    /\ pc[w] = "renew"
    /\ IF stream[w] = "none" \/ budget[w] = 0
       THEN Goto(w, "release") /\ UNCHANGED <<watch, locals>>
       ELSE IF HoldsLease(w)
       THEN /\ Goto(w, "stat") /\ UNCHANGED locals
            /\ watch' = [watch EXCEPT !.leaseLeft = LeaseTicks]
       ELSE Goto(w, "reconcile") /\ EndPoll(w) /\ UNCHANGED watch
    /\ UNCHANGED <<job, run, logs, cursor, bounds>>

\* prefix_sha256 of stat.
PrefixOf(l) == [text |-> IF l.size = 0 THEN 0 ELSE l.text,
                length |-> Least(l.size, FingerprintBytes)]

\* (Mutant) A file of the same identity and no shorter is the same.
RotatedByFile(from, l) == from.file # 0 /\ (l.file # from.file \/ l.size < from.offset)

\* _is_rotated: another file, a shorter one, or one that begins otherwise,
\* unless it may only have grown within the fingerprint.
Rotated(from, l) ==
    \/ from.file # 0 /\ l.file # from.file
    \/ l.size < from.offset
    \/ /\ from.file # 0 /\ PrefixOf(l) # from.prefix
       /\ from.offset >= FingerprintBytes \/ l.size <= from.sourceSize

\* The cursor as stat leaves it, before any bytes are read.
CursorAt(from, l) ==
    LET offset == IF Rotated(from, l) THEN 0 ELSE from.offset
    IN  [file |-> l.file, prefix |-> PrefixOf(l), offset |-> offset,
         sourceSize |-> l.size,
         readFrom |-> IF offset = 0 THEN 0 ELSE from.readFrom]

\* read_next from the cursor as it is: a log that is not there leaves it so,
\* one without new bytes is not read.
StatLog(w) ==
    LET s == stream[w]
        from == cursor[s]
        next == IF log[s].file = 0 THEN from ELSE CursorAt(from, log[s])
    IN  /\ pc[w] = "stat"
        /\ read' = [read EXCEPT ![w] = [from |-> from, next |-> next, amount |-> 0]]
        /\ Goto(w, IF next.offset < next.sourceSize THEN "read" ELSE "commit")
        /\ UNCHANGED <<job, run, logs, watch, cursor, seen, current, stream,
                       budget, bounds>>

\* (Mutant) The bytes of the connection are not asked about.
BytesReadByQuantum(w, available) == Least(Quantum, available)

BytesRead(w, available) == Least(Least(budget[w], Quantum), available)

\* read_bytes_range: at most a quantum of what stat showed, from whatever is
\* at the path by now; the cursor's size and prefix remain those of stat.
ReadNext(w) ==
    LET s == stream[w]
        next == read[w].next
        end == Least(log[s].size, next.sourceSize)
        there == IF next.offset < end THEN end - next.offset ELSE 0
        amount == BytesRead(w, there)
    IN  /\ pc[w] = "read"
        /\ read' = [read EXCEPT ![w].amount = amount,
              ![w].next = [next EXCEPT !.offset = @ + amount,
                             !.readFrom = IF next.offset = 0 THEN log[s].text ELSE @]]
        /\ Goto(w, "commit")
        /\ UNCHANGED <<job, run, logs, watch, cursor, seen, current, stream,
                       budget, bounds>>

\* commit_segment, or advance_cursor when there was nothing new.
CommitSegment(w) ==
    LET s == stream[w]
    IN  /\ pc[w] = "commit"
        /\ IF HoldsLease(w) /\ cursor[s] = read[w].from
           THEN /\ cursor' = [cursor EXCEPT ![s] = read[w].next]
                /\ budget' = [budget EXCEPT ![w] = @ - read[w].amount]
                /\ stream' = [stream EXCEPT ![w] = IF s = "stdout" THEN "stderr"
                                                                   ELSE "none"]
                /\ read' = [read EXCEPT ![w] = NothingRead]
                /\ Goto(w, "renew") /\ UNCHANGED <<seen, current>>
           ELSE Goto(w, "reconcile") /\ EndPoll(w) /\ UNCHANGED cursor
        /\ UNCHANGED <<job, run, logs, watch, bounds>>

\* (Mutant) One stream that is drained is enough.
DrainedOneStream(w) ==
    seen[w] = "finalizing"
    /\ \E s \in Streams : cursor[s].offset >= cursor[s].sourceSize

\* Whether the poll has drained the watch, by the cursors it leaves behind.
Drained(w) ==
    seen[w] = "finalizing"
    /\ \A s \in Streams : cursor[s].offset >= cursor[s].sourceSize

StateAfterPoll(w) ==
    IF Drained(w) THEN "stopped"
    ELSE IF seen[w] = "finalizing" THEN "finalizing" ELSE "watching"

NoLease(state) == [state |-> state, leaseLeft |-> 0, handedOff |-> watch.handedOff]

\* The cursors are read and the lease is released; a cursor that changes in
\* between was changed under a later lease, and the release conflicts.
ReleaseWatch(w) ==
    /\ pc[w] = "release"
    /\ IF HoldsLease(w)
       THEN /\ watch' = NoLease(StateAfterPoll(w))
            /\ Goto(w, IF Drained(w) THEN "handoff" ELSE "reconcile")
       ELSE Goto(w, "reconcile") /\ UNCHANGED watch
    /\ EndPoll(w)
    /\ UNCHANGED <<job, run, logs, cursor, bounds>>

\* Anything but a conflict: an unreadable source, a transport that fails, an
\* alert that cannot be saved.
PollRaises(w) ==
    /\ pc[w] \in {"renew", "stat", "read"} /\ readErrors < MaxReadErrors
    /\ readErrors' = readErrors + 1
    /\ Goto(w, "degrade")
    /\ LeavePoll(w)
    /\ UNCHANGED <<job, run, logs, watch, cursor, current, handoffErrors, crashes,
                   overruns>>

\* ... ends in a release as degraded, whose conflict is suppressed.
DegradeWatch(w) ==
    /\ pc[w] = "degrade"
    /\ watch' = IF HoldsLease(w) THEN NoLease("degraded") ELSE watch
    /\ EndPoll(w)
    /\ Goto(w, "reconcile")
    /\ UNCHANGED <<job, run, logs, cursor, bounds>>

\* on_terminal_drained: release_logs_finalize_after_runtime_watch.
ReleaseLogs ==
    logs' = IF logs = "waiting_runtime_watch" THEN "pending" ELSE logs

HandOver(w) ==
    /\ pc[w] = "handoff"
    /\ ReleaseLogs
    /\ Goto(w, "acknowledge")
    /\ UNCHANGED <<job, run, watch, cursor, locals, bounds>>

\* (Mutant) The hand-over is acknowledged although it failed.
AfterHandoffErrorAcknowledged == "acknowledge"

\* The watch is left for the next tick's scan.
AfterHandoffError == "reconcile"

\* The callback raises, before or after logs_finalize is released.
HandOverRaises(w) ==
    /\ pc[w] = "handoff" /\ handoffErrors < MaxHandoffErrors
    /\ handoffErrors' = handoffErrors + 1
    /\ ReleaseLogs \/ UNCHANGED logs
    /\ Goto(w, AfterHandoffError)
    /\ UNCHANGED <<job, run, watch, cursor, locals, readErrors, crashes, overruns>>

\* acknowledge_terminal_handoff
AcknowledgeHandoff(w) ==
    /\ pc[w] = "acknowledge"
    /\ watch' = IF watch.state = "stopped" THEN [watch EXCEPT !.handedOff = TRUE]
                                           ELSE watch
    /\ Goto(w, "reconcile")
    /\ UNCHANGED <<job, run, logs, cursor, locals, bounds>>

-----------------------------------------------------------------------------
\* The rest of the worker's tick.

\* (Mutant) A Run that has its logs_finalize is over.
ListedAsActiveBeforeLogs == run = "active" /\ logs = "absent"

\* list_active_job_runs
ListedAsActive == run = "active"

\* ... and get_job for the Run if it is there; what the snapshot says is
\* applied later.
ReconcileOnce(w) ==
    /\ pc[w] = "reconcile"
    /\ Goto(w, IF ~ListedAsActive THEN "collect"
               ELSE IF jobOver THEN "applyOver" ELSE "applyActive")
    /\ UNCHANGED <<job, run, logs, watch, cursor, locals, bounds>>

\* A terminal snapshot makes logs_finalize.
MakeTerminal ==
    /\ run' = "terminal"
    /\ logs' = IF logs = "absent" THEN "pending" ELSE logs

\* apply_snapshot overwrites the state, whatever it has become meanwhile.
ApplySnapshot(w) ==
    /\ \/ pc[w] = "applyOver" /\ MakeTerminal
       \/ pc[w] = "applyActive" /\ run' = "active" /\ UNCHANGED logs
    /\ Goto(w, "ensure")
    /\ UNCHANGED <<job, watch, cursor, locals, bounds>>

\* create_watch: ON CONFLICT DO NOTHING.
NewWatch ==
    IF watch.state = "absent"
    THEN [state |-> "watching", leaseLeft |-> 0, handedOff |-> FALSE] ELSE watch

\* ensure_run; then the Run as apply_snapshot left it decides.
EnsureRun(w) ==
    /\ pc[w] = "ensure"
    /\ watch' = NewWatch
    /\ Goto(w, IF run = "terminal" THEN "schedule" ELSE "collect")
    /\ UNCHANGED <<job, run, logs, cursor, locals, bounds>>

\* schedule_terminal_drain: the new version fences the lease in use off.
ScheduleTerminalDrain(w) ==
    /\ pc[w] = "schedule"
    /\ IF watch.state # "stopped"
       THEN /\ watch' = [watch EXCEPT !.state = "finalizing", !.handedOff = FALSE]
            /\ current' = [v \in Workers |-> FALSE]
            /\ Goto(w, "defer")
       ELSE Goto(w, "collect") /\ UNCHANGED <<watch, current>>
    /\ UNCHANGED <<job, run, logs, cursor, seen, stream, budget, read, bounds>>

DeferLogsFinalize(w) ==
    /\ pc[w] = "defer"
    /\ logs' = IF logs = "pending" THEN "waiting_runtime_watch" ELSE logs
    /\ Goto(w, "collect")
    /\ UNCHANGED <<job, run, watch, cursor, locals, bounds>>

\* _dispatch_collection_tasks; CollectionTasks has its detail.
CollectLogs(w) ==
    /\ pc[w] = "collect"
    /\ logs' = IF logs = "pending" THEN "collected" ELSE logs
    /\ Goto(w, "tick")
    /\ UNCHANGED <<job, run, watch, cursor, locals, bounds>>

-----------------------------------------------------------------------------
\* The job, the user, failures and the clock.

\* Slurm opens both logs when the job starts to run.
JobOpens ==
    /\ ~jobOver /\ \A s \in Streams : log[s] = NoLog
    /\ log' = [s \in Streams |-> [file |-> 1, text |-> 1, size |-> 0]]
    /\ UNCHANGED <<jobOver, run, logs, watch, cursor, pc, locals, bounds>>

JobWrites(s) ==
    /\ ~jobOver /\ log[s] # NoLog /\ log[s].size < MaxBytes[s]
    /\ log' = [log EXCEPT ![s].size = @ + 1]
    /\ UNCHANGED <<jobOver, run, logs, watch, cursor, pc, locals, bounds>>

\* A log is replaced by a new file, or emptied and written anew.
LogRotates(s) ==
    LET text == log[s].text + 1
    IN  /\ ~jobOver /\ log[s].size > 0 /\ log[s].text <= MaxRotations[s]
        /\ \E file \in {log[s].file, text} :
             log' = [log EXCEPT ![s] = [file |-> file, text |-> text, size |-> 0]]
        /\ UNCHANGED <<jobOver, run, logs, watch, cursor, pc, locals, bounds>>

JobEnds ==
    /\ ~jobOver /\ jobOver' = TRUE
    /\ UNCHANGED <<log, run, logs, watch, cursor, pc, locals, bounds>>

\* RunService.cancel in an API request: Slurm cancels, the snapshot is applied.
CancelRun ==
    /\ HasCancel /\ run = "active"
    /\ jobOver' = TRUE /\ MakeTerminal
    /\ UNCHANGED <<log, watch, cursor, pc, locals, bounds>>

Crash(w) ==
    /\ pc[w] # "tick" /\ crashes < MaxCrashes
    /\ crashes' = crashes + 1
    /\ Goto(w, "tick")
    /\ EndPoll(w)
    /\ UNCHANGED <<job, run, logs, watch, cursor, readErrors, handoffErrors, overruns>>

Overrun == {w \in Workers : current[w] /\ watch.leaseLeft = 1}

Tick ==
    /\ watch.leaseLeft > 0
    /\ overruns + Cardinality(Overrun) <= MaxOverruns
    /\ overruns' = overruns + Cardinality(Overrun)
    /\ watch' = [watch EXCEPT !.leaseLeft = @ - 1]
    /\ UNCHANGED <<job, run, logs, cursor, pc, locals, readErrors, handoffErrors,
                   crashes>>

-----------------------------------------------------------------------------

Work(w) ==
    \/ ListStopped(w) \/ ListDue(w) \/ ListNothing(w)
    \/ ClaimWatch(w) \/ RenewWatch(w)
    \/ StatLog(w) \/ ReadNext(w) \/ CommitSegment(w) \/ ReleaseWatch(w)
    \/ PollRaises(w) \/ DegradeWatch(w)
    \/ HandOver(w) \/ HandOverRaises(w) \/ AcknowledgeHandoff(w)
    \/ ReconcileOnce(w) \/ ApplySnapshot(w) \/ EnsureRun(w)
    \/ ScheduleTerminalDrain(w) \/ DeferLogsFinalize(w) \/ CollectLogs(w)

Next ==
    \/ \E w \in Workers : Work(w) \/ Crash(w)
    \/ \E s \in Streams : JobWrites(s) \/ LogRotates(s)
    \/ JobOpens \/ JobEnds \/ CancelRun \/ Tick

Spec == Init /\ [][Next]_vars

\* The worker's loop never ends, the calls of a tick have timeouts, the clock
\* runs, and a watch that is not leased comes due again and again.  The job need
\* not end, nor the user cancel.
Fairness ==
    /\ WF_vars(Tick)
    /\ \A w \in Workers : WF_vars(Work(w)) /\ SF_vars(ListDue(w))

FairSpec == Spec /\ Fairness

-----------------------------------------------------------------------------
\* Properties.

\* A watch that has stopped stays so: no poll that began before and outlived
\* its lease, no late reconcile and no second drain revives it.
StoppedForGood == [][watch.state = "stopped" => watch'.state = "stopped"]_vars

\* logs_finalize is let go by a drain that is over, never by one in progress.
ReleasedAfterStop ==
    [][logs = "waiting_runtime_watch" /\ logs' # logs
         => watch.state = "stopped"]_vars

\* "The terminal drain does not lose the last segment": when a watch stops,
\* its cursors have reached the end of both logs, and what they count is the
\* log that is there, not one rotated away between a stat and a read.
StoppedMeansDrained ==
    watch.state = "stopped" =>
        \A s \in Streams :
            /\ cursor[s].offset = log[s].size
            /\ log[s].size > 0 => cursor[s].readFrom = log[s].text

\* Once the hand-over is acknowledged nobody will release logs_finalize again,
\* so it must not be waiting, whatever crashed or raised in between.
HandedOffMeansReleased == watch.handedOff => logs # "waiting_runtime_watch"

\* When the job is over, the Run becomes terminal and stays so, although a
\* snapshot taken before a cancel may reopen it for a while, and its logs are
\* collected: the drain ends and logs_finalize does not wait for ever.
JobOverSettles == jobOver ~> [](run = "terminal" /\ logs = "collected")

=============================================================================
