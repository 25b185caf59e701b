---------------------------- MODULE RunSubmission ----------------------------
(***************************************************************************)
(* Submitting Runs to Slurm (src/pilot107/core/run_service.py), over the   *)
(* control outbox and the run row of core/run_store.py.                    *)
(*                                                                         *)
(* A Run has one run.submit message, whose id is made from the run_id, so  *)
(* a Run is named by its message.  A dispatcher is one execution of        *)
(* _execute_submission_message: the worker's loop over claim_outbox, or an *)
(* API request in submit_prepared.  The outbox row, the run row and the    *)
(* Slurm controller are written by separate transactions and calls, and a  *)
(* dispatcher can stop, be overtaken, or die between any two of them: each *)
(* such transaction or call is an action here, and pc[d] says which one d  *)
(* does next.                                                              *)
(*                                                                         *)
(* SUBMITTED stands for every state the job's snapshots give the run       *)
(* afterwards; baseline capture writes evidence only and takes time only.  *)
(***************************************************************************)
EXTENDS OutboxTable, FiniteSets

CONSTANTS
    Dispatchers,      \* executions of _execute_submission_message
    OwnerOf,          \* dispatcher_id of each; ids may be shared
    Loopers,          \* those in the worker's loop, which retries on errors
    MaxAttempts,      \* submission_max_attempts
    HasReconcile,     \* idempotency_reconcile_enabled with a backend for it
    HasCancel,        \* whether users cancel Runs
    Elements,         \* the job ids one accepted submit shows (a job array)
    NoRun, NoJob,     \* nothing claimed; job_id IS NULL
    MaxCrashes,       \* bound: dispatchers that die with a message in hand
    MaxOverruns       \* bound: leases that run out under a live dispatcher

ASSUME DispatchersAssumption == IsFiniteSet(Dispatchers)
ASSUME OwnerOfAssumption == OwnerOf \in [Dispatchers -> Owners]
ASSUME LoopersAssumption == Loopers \subseteq Dispatchers
ASSUME SwitchesAssumption == HasReconcile \in BOOLEAN /\ HasCancel \in BOOLEAN
ASSUME NumbersAssumption ==
    MaxAttempts \in Nat \ {0} /\ MaxCrashes \in Nat
    /\ MaxOverruns \in Nat /\ Elements \in Nat \ {0}
ASSUME NoRunAssumption == NoRun \notin Messages

Runs == Messages

VARIABLES
    runs,        \* the rows of the table runs
    pc,          \* what each dispatcher does next
    claim,       \* the message in its hand: the Run and the fencing token
    lease,       \* what is left of lease_expires_at on its own copy
    reply,       \* the job id it is about to record
    sent,        \* sent[r]: the tokens under which backend.submit was called
    inflight,    \* the calls Slurm has not answered for good
    landed,      \* the calls Slurm accepted: their jobs exist
    misreported, \* Runs called rejected that Slurm has not refused for good
    cancelling,  \* cancel requests that saw no job_id and have not written
    crashes, overruns

dvars == <<pc, claim, lease, reply>>
slurm == <<sent, inflight, landed, misreported>>
faults == <<crashes, overruns>>
vars == <<outbox, runs, pc, claim, lease, reply, sent, inflight, landed,
          misreported, cancelling, crashes, overruns>>

-----------------------------------------------------------------------------

RunState == {"VALIDATED", "SUBMITTING", "SUBMITTED", "SUBMIT_FAILED",
             "SUBMISSION_UNCERTAIN", "CANCELLED"}

\* A job is named by the call that made it and its index in the array.
JobId == Nat \X (1..Elements)

RunRow == [state: RunState, jobId: JobId \cup {NoJob},
           owner: Owners \cup {NoOwner}, token: Nat]

PC == {"idle", "readRun", "intent", "replay", "reread", "renew", "submit",
       "calling", "checkLease", "receipt", "query", "retryRaise",
       "retryUncertain", "failRejected", "failUncertain", "failDeadLetter",
       "ack", "ackRaise", "raised"}

TypeOK ==
    /\ outbox \in [Messages -> Row]
    /\ runs \in [Runs -> RunRow]
    /\ pc \in [Dispatchers -> PC]
    /\ claim \in [Dispatchers -> [run: Runs \cup {NoRun}, token: Nat]]
    /\ lease \in [Dispatchers -> Nat]
    /\ reply \in [Dispatchers -> JobId \cup {NoJob}]
    /\ sent \in [Runs -> SUBSET Nat]
    /\ inflight \in [Runs -> SUBSET Nat]
    /\ landed \in [Runs -> SUBSET Nat]
    /\ misreported \subseteq Runs
    /\ cancelling \subseteq Runs
    /\ crashes \in 0..MaxCrashes /\ overruns \in 0..MaxOverruns
    /\ \A d \in Dispatchers : pc[d] # "idle" <=> claim[d].run # NoRun

NoClaim == [run |-> NoRun, token |-> 0]

\* prepare has stored every Run as VALIDATED; nothing is enqueued yet.
Init ==
    /\ OutboxInit
    /\ runs = [r \in Runs |-> [state |-> "VALIDATED", jobId |-> NoJob,
                               owner |-> NoOwner, token |-> 0]]
    /\ pc = [d \in Dispatchers |-> "idle"]
    /\ claim = [d \in Dispatchers |-> NoClaim]
    /\ lease = [d \in Dispatchers |-> 0]
    /\ reply = [d \in Dispatchers |-> NoJob]
    /\ sent = [r \in Runs |-> {}]
    /\ inflight = [r \in Runs |-> {}]
    /\ landed = [r \in Runs |-> {}]
    /\ misreported = {}
    /\ cancelling = {}
    /\ crashes = 0 /\ overruns = 0

-----------------------------------------------------------------------------
\* The fences.

\* d's claim is still the one the outbox row carries.
HoldsMessage(d) == Holds(claim[d].run, OwnerOf[d], claim[d].token)

\* claim_submission: a fresh Run, or one a smaller token was submitting.
CanClaimRun(d) ==
    LET run == runs[claim[d].run]
    IN  /\ run.jobId = NoJob
        /\ \/ run.state = "VALIDATED"
           \/ run.state = "SUBMITTING" /\ run.token < claim[d].token

\* (Mutant) A fence that does not ask for the state.
HoldsRunAnyState(d) ==
    LET run == runs[claim[d].run]
    IN  run.jobId = NoJob /\ run.owner = OwnerOf[d] /\ run.token = claim[d].token

\* The fence of apply_submit_receipt and of fail_submission.
HoldsRun(d) ==
    LET run == runs[claim[d].run]
    IN  /\ run.state = "SUBMITTING" /\ run.jobId = NoJob
        /\ run.owner = OwnerOf[d] /\ run.token = claim[d].token

-----------------------------------------------------------------------------
\* Moves of a dispatcher.

Goto(d, place) ==
    /\ pc' = [pc EXCEPT ![d] = place]
    /\ UNCHANGED <<claim, lease, reply>>

Leave(d) ==
    /\ pc' = [pc EXCEPT ![d] = "idle"]
    /\ claim' = [claim EXCEPT ![d] = NoClaim]
    /\ lease' = [lease EXCEPT ![d] = 0]
    /\ reply' = [reply EXCEPT ![d] = NoJob]

\* enqueue_submission: the message is inserted once; a Run that is over is
\* refused.  Its preflight may refuse a VALIDATED Run: then nothing happens.
EnqueueSubmission(r) ==
    /\ runs[r].jobId # NoJob \/ runs[r].state \in {"VALIDATED", "SUBMITTING"}
    /\ InsertMessage(r)
    /\ UNCHANGED <<runs, dvars, slurm, cancelling, faults>>

\* claim_outbox in the worker's loop, claim_outbox_message in an API request.
ClaimSubmissionMessage(d, r) ==
    /\ pc[d] = "idle"
    /\ ClaimMessage(r, OwnerOf[d])
    /\ pc' = [pc EXCEPT ![d] = "readRun"]
    /\ claim' = [claim EXCEPT ![d] =
                   [run |-> r, token |-> outbox'[r].fencingToken]]
    /\ lease' = [lease EXCEPT ![d] = LeaseTicks]
    /\ UNCHANGED <<runs, reply, slurm, cancelling, faults>>

\* The run row as the handler first reads it decides where it goes; "replay"
\* is the variable recovering: another dispatcher was submitting before.
AfterRead(run) ==
    CASE run.jobId # NoJob
         \/ run.state \in {"SUBMIT_FAILED", "SUBMISSION_UNCERTAIN"} -> "ack"
      [] run.jobId = NoJob /\ run.state = "VALIDATED"  -> "intent"
      [] run.jobId = NoJob /\ run.state = "SUBMITTING" -> "replay"
      [] OTHER -> "retryRaise"

ReadRun(d) ==
    /\ pc[d] = "readRun"
    /\ Goto(d, AfterRead(runs[claim[d].run]))
    /\ UNCHANGED <<outbox, runs, slurm, cancelling, faults>>

\* _submission_intent raises: retry not due, dependency, or preflight.
IntentRaises(d) ==
    /\ pc[d] \in {"intent", "replay"}
    /\ Goto(d, "raised")
    /\ UNCHANGED <<outbox, runs, slurm, cancelling, faults>>

\* (Mutant) A dispatcher that replays an interrupted submission.
AfterClaimReplay(place) == "renew"

\* Where a dispatcher goes that has claimed the run row.
AfterClaim(place) ==
    CASE place = "intent" -> "renew"
      [] place = "replay" /\ HasReconcile -> "query"
      [] OTHER -> "retryUncertain"

ClaimRun(d) ==
    LET r == claim[d].run
    IN  /\ pc[d] \in {"intent", "replay"}
        /\ IF CanClaimRun(d)
           THEN /\ runs' = [runs EXCEPT ![r] =
                              [state |-> "SUBMITTING", jobId |-> NoJob,
                               owner |-> OwnerOf[d], token |-> claim[d].token]]
                /\ Goto(d, AfterClaim(pc[d]))
           ELSE Goto(d, "reread") /\ UNCHANGED runs
        /\ UNCHANGED <<outbox, slurm, cancelling, faults>>

\* After a lost claim the row is read again: done by someone, or raise.
RereadRun(d) ==
    /\ pc[d] = "reread"
    /\ Goto(d, IF runs[claim[d].run].jobId # NoJob THEN "ack" ELSE "raised")
    /\ UNCHANGED <<outbox, runs, slurm, cancelling, faults>>

\* _renew_lease_for_submit: a conflict fails the submission; a renewed lease
\* below _SUBMIT_LEASE_RESERVE_SECONDS raises with the run left as it is.
RenewForSubmit(d) ==
    LET r == claim[d].run
    IN  /\ pc[d] = "renew"
        /\ IF Renewable(r, OwnerOf[d], claim[d].token)
           THEN /\ RenewMessage(r)
                /\ lease' = [lease EXCEPT ![d] = LeaseTicks]
                /\ \E place \in {"submit", "raised"} :
                      pc' = [pc EXCEPT ![d] = place]
                /\ UNCHANGED <<claim, reply>>
           ELSE Goto(d, "failRejected") /\ UNCHANGED outbox
        /\ UNCHANGED <<runs, slurm, cancelling, faults>>

\* backend.submit goes out.
CallSubmit(d) ==
    LET r == claim[d].run
    IN  /\ pc[d] = "submit"
        /\ sent' = [sent EXCEPT ![r] = @ \cup {claim[d].token}]
        /\ inflight' = [inflight EXCEPT ![r] = @ \cup {claim[d].token}]
        /\ Goto(d, "calling")
        /\ UNCHANGED <<outbox, runs, landed, misreported, cancelling, faults>>

\* The call returns a receipt.
SubmitAccepted(d) ==
    /\ pc[d] = "calling" /\ claim[d].token \in landed[claim[d].run]
    /\ pc' = [pc EXCEPT ![d] = "checkLease"]
    /\ reply' = [reply EXCEPT ![d] = <<claim[d].token, 1>>]
    /\ UNCHANGED <<outbox, runs, claim, lease, slurm, cancelling, faults>>

\* SlurmBackendError.  Slurm has refused the job; or sbatch has failed or its
\* answer cannot be read, or a proxy has answered for slurmrestd, and the job
\* may exist or come to exist.  The code does not tell them apart.
SubmitRejected(d) ==
    LET r == claim[d].run
    IN  /\ pc[d] = "calling"
        /\ \/ /\ claim[d].token \in inflight[r]
              /\ inflight' = [inflight EXCEPT ![r] = @ \ {claim[d].token}]
              /\ UNCHANGED misreported
           \/ /\ misreported' = misreported \cup {r}
              /\ UNCHANGED inflight
        /\ Goto(d, "failRejected")
        /\ UNCHANGED <<outbox, runs, sent, landed, cancelling, faults>>

\* SlurmTransportError: the job may exist, may come to exist, or may not.
SubmitTransportError(d) ==
    /\ pc[d] = "calling"
    /\ Goto(d, IF HasReconcile THEN "query" ELSE "failRejected")
    /\ UNCHANGED <<outbox, runs, slurm, cancelling, faults>>

\* _assert_lease_valid_for_receipt, on the dispatcher's own copy.
CheckLeaseForReceipt(d) ==
    /\ pc[d] = "checkLease"
    /\ Goto(d, IF lease[d] > 0 THEN "receipt" ELSE "failRejected")
    /\ UNCHANGED <<outbox, runs, slurm, cancelling, faults>>

\* apply_submit_receipt; a fence conflict raises.
ApplySubmitReceipt(d) ==
    LET r == claim[d].run
    IN  /\ pc[d] = "receipt"
        /\ IF HoldsRun(d)
           THEN /\ runs' = [runs EXCEPT ![r] =
                              [state |-> "SUBMITTED", jobId |-> reply[d],
                               owner |-> runs[r].owner, token |-> runs[r].token]]
                /\ Goto(d, "ack")
           ELSE Goto(d, "raised") /\ UNCHANGED runs
        /\ UNCHANGED <<outbox, slurm, cancelling, faults>>

\* (Mutant) "Not found" read as "not submitted".
AfterQueryNotFoundFails(found) ==
    CASE found = {} -> "failRejected"
      [] Cardinality(found) = 1 -> "receipt"
      [] OTHER -> "failUncertain"

\* reconcile_submission: the jobs of the Run's marker that Slurm shows now,
\* which may be none or only some of those that exist.
AfterQuery(found) ==
    CASE found = {} -> "retryUncertain"
      [] Cardinality(found) = 1 -> "receipt"
      [] OTHER -> "failUncertain"

QueryMarker(d) ==
    /\ pc[d] = "query"
    /\ \E found \in SUBSET (landed[claim[d].run] \X (1..Elements)) :
          /\ pc' = [pc EXCEPT ![d] = AfterQuery(found)]
          /\ reply' = [reply EXCEPT ![d] =
                         IF \E job \in found : found = {job}
                         THEN CHOOSE job \in found : found = {job} ELSE NoJob]
    /\ UNCHANGED <<outbox, runs, claim, lease, slurm, cancelling, faults>>

\* The query fails, or the call to sbatch raises what is no backend error (a
\* timeout of the subprocess, an OSError, an empty stdout): the exception
\* leaves the handler with the run row as it is.
CallRaises(d) ==
    /\ pc[d] \in {"calling", "query"}
    /\ Goto(d, "raised")
    /\ UNCHANGED <<outbox, runs, slurm, cancelling, faults>>

\* _retry_submission_message: back to pending or, the budget used up, to the
\* dead letters, where a submission of unknown outcome becomes UNCERTAIN.
RetrySubmission(d) ==
    LET r == claim[d].run
        target == RetryTarget(r, MaxAttempts)
    IN  /\ pc[d] \in {"retryRaise", "retryUncertain"}
        /\ IF HoldsMessage(d)
           THEN /\ RetryMessage(r, target)
                /\ Goto(d, IF pc[d] = "retryUncertain" /\ target = "dead_letter"
                           THEN "failDeadLetter" ELSE "raised")
           ELSE Goto(d, "raised") /\ UNCHANGED outbox
        /\ UNCHANGED <<runs, slurm, cancelling, faults>>

\* _fail_fenced_submission; all its callers raise afterwards.
FailSubmission(d) ==
    LET r == claim[d].run
    IN  /\ pc[d] \in {"failRejected", "failUncertain", "failDeadLetter"}
        /\ IF HoldsRun(d)
           THEN /\ runs' = [runs EXCEPT ![r].state =
                              IF pc[d] = "failRejected" THEN "SUBMIT_FAILED"
                                                  ELSE "SUBMISSION_UNCERTAIN"]
                /\ Goto(d, IF pc[d] = "failDeadLetter" THEN "raised"
                                                       ELSE "ackRaise")
           ELSE Goto(d, "raised") /\ UNCHANGED runs
        /\ UNCHANGED <<outbox, slurm, cancelling, faults>>

\* _acknowledge_submission swallows a conflict.
AcknowledgeSubmission(d) ==
    LET r == claim[d].run
    IN  /\ pc[d] \in {"ack", "ackRaise"}
        /\ IF HoldsMessage(d) THEN AcknowledgeMessage(r) ELSE UNCHANGED outbox
        /\ IF pc[d] = "ack" THEN Leave(d) ELSE Goto(d, "raised")
        /\ UNCHANGED <<runs, slurm, cancelling, faults>>

\* The exception reaches the caller: the loop of dispatch_due_submissions
\* retries the message, with a conflict suppressed; an API request does not.
HandleException(d) ==
    LET r == claim[d].run
    IN  /\ pc[d] = "raised"
        /\ IF d \in Loopers /\ HoldsMessage(d)
           THEN RetryMessage(r, RetryTarget(r, MaxAttempts))
           ELSE UNCHANGED outbox
        /\ Leave(d)
        /\ UNCHANGED <<runs, slurm, cancelling, faults>>

-----------------------------------------------------------------------------
\* Users, Slurm, the clock and failures.

\* RunService.cancel of a Run without a job: a read, then an update that asks
\* for no state.
CancelRead(r) ==
    /\ HasCancel /\ runs[r].jobId = NoJob
    /\ cancelling' = cancelling \cup {r}
    /\ UNCHANGED <<outbox, runs, dvars, slurm, faults>>

CancelWrite(r) ==
    /\ r \in cancelling
    /\ cancelling' = cancelling \ {r}
    /\ runs' = [runs EXCEPT ![r].state = "CANCELLED"]
    /\ UNCHANGED <<outbox, dvars, slurm, faults>>

\* RunService.cancel of a Run with a job: Slurm cancels, the snapshot says so.
CancelJob(r) ==
    /\ HasCancel /\ runs[r].jobId # NoJob
    /\ runs' = [runs EXCEPT ![r].state = "CANCELLED"]
    /\ UNCHANGED <<outbox, dvars, slurm, cancelling, faults>>

\* Slurm creates the job, perhaps after the caller has given up on it.
SlurmAccepts(r, t) ==
    /\ t \in inflight[r]
    /\ landed' = [landed EXCEPT ![r] = @ \cup {t}]
    /\ inflight' = [inflight EXCEPT ![r] = @ \ {t}]
    /\ UNCHANGED <<outbox, runs, dvars, sent, misreported, cancelling, faults>>

\* The process dies; its message waits for the lease to run out.
Crash(d) ==
    /\ pc[d] # "idle" /\ crashes < MaxCrashes
    /\ crashes' = crashes + 1
    /\ Leave(d)
    /\ UNCHANGED <<outbox, runs, slurm, cancelling, overruns>>

Overrun == {d \in Dispatchers : lease[d] = 1}

Tick ==
    /\ \E r \in Runs : outbox[r].leaseLeft > 0 \/ outbox[r].dueIn > 0
    /\ overruns + Cardinality(Overrun) <= MaxOverruns
    /\ overruns' = overruns + Cardinality(Overrun)
    /\ ElapseOutbox
    /\ lease' = [d \in Dispatchers |-> Less(lease[d])]
    /\ UNCHANGED <<runs, pc, claim, reply, slurm, cancelling, crashes>>

-----------------------------------------------------------------------------

\* What a dispatcher does once it has a message, up to handing it back.
Work(d) ==
    \/ ReadRun(d) \/ IntentRaises(d) \/ ClaimRun(d) \/ RereadRun(d)
    \/ RenewForSubmit(d) \/ CallSubmit(d)
    \/ SubmitAccepted(d) \/ SubmitRejected(d) \/ SubmitTransportError(d)
    \/ CheckLeaseForReceipt(d) \/ ApplySubmitReceipt(d)
    \/ QueryMarker(d) \/ CallRaises(d)
    \/ RetrySubmission(d) \/ FailSubmission(d) \/ AcknowledgeSubmission(d)
    \/ HandleException(d)

Next ==
    \/ \E d \in Dispatchers :
          \/ \E r \in Runs : ClaimSubmissionMessage(d, r)
          \/ Work(d)
          \/ Crash(d)
    \/ \E r \in Runs :
          \/ EnqueueSubmission(r)
          \/ CancelRead(r) \/ CancelWrite(r) \/ CancelJob(r)
          \/ \E t \in inflight[r] : SlurmAccepts(r, t)
    \/ Tick

Spec == Init /\ [][Next]_vars

\* The loop polls claim_outbox and runs each message it gets to the end (the
\* calls it makes have timeouts), and the clock runs.  Users and Slurm owe
\* nothing.
Fairness ==
    /\ WF_vars(Tick)
    /\ \A d \in Dispatchers : WF_vars(Work(d))
    /\ \A r \in Runs :
          WF_vars(\E d \in Dispatchers : ClaimSubmissionMessage(d, r))

FairSpec == Spec /\ Fairness

-----------------------------------------------------------------------------
\* Properties.

\* backend.submit is called at most once for a Run, whatever dispatchers are
\* overtaken, crash, retry, or are answered by a transport error, and whatever
\* the user cancels: later claims only look for the job of the first call.
AtMostOneSubmit == \A r \in Runs : \A t, u \in sent[r] : t = u

\* The job_id a Run is bound to never changes, though several dispatchers may
\* hold receipts for it: one from the call, others from reconciliation, which
\* may have found another element of the same job array.
JobBoundOnce ==
    [][\A r \in Runs : runs[r].jobId # NoJob => runs'[r].jobId = runs[r].jobId]_vars

\* The submission_fencing_token of a run row never goes back: a dispatcher
\* that read the row before it was overtaken cannot take the Run back.
RunFenceMonotone == [][\A r \in Runs : runs'[r].token >= runs[r].token]_vars

\* A message is acknowledged only after the outcome is in the run row: a crash
\* between the two leaves work for the next claim, never a Run without a
\* message (claim_submission, fail_submission and apply_submit_receipt come
\* before acknowledge in _execute_submission_message).
AcknowledgedMeansDecided ==
    \A r \in Runs : outbox[r].state = "succeeded" =>
        runs[r].state \notin {"VALIDATED", "SUBMITTING"}

\* As long as no dispatcher has outlived its lease, a Run whose submission has
\* failed has no job in Slurm and will get none, unless its call was reported
\* as rejected when it was not: a transport error, a crash, a takeover or a
\* query that finds nothing never leads to SUBMIT_FAILED.
FailedMeansNoJob ==
    overruns = 0 =>
        \A r \in Runs \ misreported : runs[r].state = "SUBMIT_FAILED" =>
            inflight[r] = {} /\ landed[r] = {}

\* What is left of a submission when dispatchers, claims and leases are
\* forgotten, as the variables of AtMostOnceSubmission.
CallOf(r) ==
    IF landed[r] # {}        THEN "accepted"
    ELSE IF inflight[r] # {} THEN "made"
    ELSE IF sent[r] # {}     THEN "refused" ELSE "none"

ElementOf(r) == IF runs[r].jobId = NoJob THEN 0 ELSE runs[r].jobId[2]

Promise == INSTANCE AtMostOnceSubmission WITH
    call    <- [r \in Runs |-> CallOf(r)],
    job     <- [r \in Runs |-> ElementOf(r)],
    decided <- {r \in Runs : runs[r].state \notin {"VALIDATED", "SUBMITTING"}},
    settled <- {r \in Runs : outbox[r].state = "succeeded"}

\* The protocol implements AtMostOnceSubmission: through every crash, takeover,
\* retry, reconciliation and cancel, each Run is called for once, bound at most
\* once and only to a job of that call that exists, its verdict is not taken
\* back, and its message is acknowledged after the verdict
\* (_execute_submission_message and the fences of the run row).
KeepsPromise == Promise!Spec

\* With finitely many crashes and overruns, the message of every Run that was
\* enqueued is acknowledged or dead-lettered by the worker's loop.
SubmissionSettles ==
    \A r \in Runs : outbox[r].state = "pending" ~>
        outbox[r].state \in {"succeeded", "dead_letter"}

=============================================================================
