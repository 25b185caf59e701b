--------------------------- MODULE SubmissionProofs ---------------------------
(***************************************************************************)
(* What RunSubmission promises for any set of Runs and any finite set of   *)
(* dispatchers sharing any ids: one submission (AtMostOneSubmit), what     *)
(* becomes of the run row, the implementation of AtMostOnceSubmission, and *)
(* that a Run that has failed has no job (FailedMeansNoJob).               *)
(*                                                                         *)
(* A dispatcher is fresh while it may still call backend.submit.  To get   *)
(* there it read the Run as VALIDATED, and before the call it renews the   *)
(* outbox lease, which only the claim of the largest token can.  So when   *)
(* one dispatcher is past its renewal, every other fresh one has a smaller *)
(* token and will fail its own; and one that claims later reads SUBMITTING *)
(* and is not fresh.                                                       *)
(*                                                                         *)
(* Of the run row three theorems follow from one fact, RowMoves: a step    *)
(* leaves the row alone, or is a claim of it, or decides it.               *)
(***************************************************************************)
EXTENDS RunSubmission, FiniteSetTheorems, TLAPS

Fresh(d) == pc[d] \in {"intent", "renew", "submit"}

\* Two dispatchers never hold one message under one token.
ClaimsDistinct ==
    \A d, e \in Dispatchers :
        d # e /\ claim[d].run # NoRun /\ claim[d].run = claim[e].run =>
            claim[d].token # claim[e].token

\* No token in a dispatcher's hand, or of a call that was made, is above the
\* one in the outbox row.
TokensIssued ==
    /\ \A d \in Dispatchers : claim[d].run # NoRun =>
          claim[d].token <= outbox[claim[d].run].fencingToken
    /\ \A r \in Runs : \A t \in sent[r] : t <= outbox[r].fencingToken

\* A Run somebody submits, or is about to, is no longer VALIDATED.
NotValidated ==
    /\ \A r \in Runs : sent[r] # {} => runs[r].state # "VALIDATED"
    /\ \A d \in Dispatchers : pc[d] \in {"renew", "submit"} =>
          runs[claim[d].run].state # "VALIDATED"

\* While d is between renewal and call, the other fresh dispatchers of the Run
\* are superseded and have not renewed.
RenewedIsLast ==
    \A d, e \in Dispatchers :
        /\ d # e /\ pc[d] = "submit" /\ Fresh(e)
        /\ claim[d].run = claim[e].run
        => pc[e] # "submit" /\ claim[e].token < claim[d].token

\* Once the call is made, so are all fresh dispatchers of the Run.
SentIsLast ==
    \A e \in Dispatchers : Fresh(e) =>
        \A t \in sent[claim[e].run] :
            pc[e] # "submit" /\ claim[e].token < t

SubmitInv ==
    /\ ClaimsDistinct /\ TokensIssued /\ NotValidated
    /\ RenewedIsLast /\ SentIsLast /\ AtMostOneSubmit

-----------------------------------------------------------------------------
\* Types.

\* Every transaction of the outbox leaves a row of the type of the table behind.
LEMMA RowSteps ==
    ASSUME NEW row \in Row
    PROVE  /\ [row EXCEPT !.state = "pending"] \in Row
           /\ \A owner \in Owners : ClaimedRow(row, owner) \in Row
           /\ \A state \in MessageState, delay \in Nat :
                 FinishedRow(row, state, delay) \in Row
           /\ [row EXCEPT !.leaseLeft = LeaseTicks] \in Row
           /\ ElapsedRow(row) \in Row
<1> USE NoOwnerAssumption, LeaseAssumption DEF Row, MessageState
<1>1. /\ [row EXCEPT !.state = "pending"] \in Row
      /\ [row EXCEPT !.leaseLeft = LeaseTicks] \in Row
      /\ \A owner \in Owners : ClaimedRow(row, owner) \in Row
  BY DEF ClaimedRow
<1>2. /\ \A state \in MessageState, delay \in Nat : FinishedRow(row, state, delay) \in Row
      /\ ElapsedRow(row) \in Row
  BY DEF FinishedRow, ElapsedRow, Less
<1> QED
  BY <1>1, <1>2

\* What a busy dispatcher holds, and the rows it works on.
LEMMA BusyFields ==
    ASSUME TypeOK, NEW d \in Dispatchers, pc[d] # "idle"
    PROVE  /\ claim[d].run \in Runs /\ claim[d].token \in Nat
           /\ claim[d].run \in Messages
           /\ outbox[claim[d].run] \in Row
           /\ runs[claim[d].run] \in RunRow
  BY DEF TypeOK, Runs

\* The initial state is well typed.
LEMMA InitTyped == Init => TypeOK
  BY NoOwnerAssumption, NumbersAssumption, NoRunAssumption
     DEF Init, OutboxInit, TypeOK, NoRow, Row, MessageState, RunRow, RunState,
         PC, NoClaim, Runs

\* Goto and Leave keep the dispatchers' variables typed.
DispatcherTypes ==
    /\ pc \in [Dispatchers -> PC]
    /\ claim \in [Dispatchers -> [run: Runs \cup {NoRun}, token: Nat]]
    /\ lease \in [Dispatchers -> Nat]
    /\ reply \in [Dispatchers -> JobId \cup {NoJob}]
    /\ \A d \in Dispatchers : pc[d] # "idle" <=> claim[d].run # NoRun

\* A dispatcher that goes on in its handler stays well typed.
LEMMA GotoTyped ==
    ASSUME TypeOK, NEW d \in Dispatchers, NEW place \in PC \ {"idle"},
           pc[d] # "idle", Goto(d, place)
    PROVE  DispatcherTypes'
  BY DEF TypeOK, DispatcherTypes, Goto

\* A dispatcher that ends its handler stays well typed.
LEMMA LeaveTyped ==
    ASSUME TypeOK, NEW d \in Dispatchers, Leave(d)
    PROVE  DispatcherTypes'
  BY NoRunAssumption DEF TypeOK, DispatcherTypes, Leave, NoClaim, PC

\* Acknowledging and retrying keep the outbox typed.
LEMMA FinishTyped ==
    ASSUME TypeOK, NEW m \in Messages, NEW target \in {"pending", "dead_letter"},
           AcknowledgeMessage(m) \/ RetryMessage(m, target)
    PROVE  outbox' \in [Messages -> Row]
<1> DEFINE delay == IF target = "pending" THEN RetryTicks ELSE 0
<1>1. /\ FinishedRow(outbox[m], "succeeded", 0) \in Row
      /\ FinishedRow(outbox[m], target, delay) \in Row
  BY RowSteps, RetryAssumption DEF TypeOK, MessageState
<1> QED
  BY <1>1 DEF TypeOK, AcknowledgeMessage, RetryMessage

\* The verdict of retry is a state of the outbox.
LEMMA TargetTyped ==
    ASSUME NEW m \in Messages
    PROVE  RetryTarget(m, MaxAttempts) \in {"pending", "dead_letter"}
  BY DEF RetryTarget

\* Type correctness is inductive.
LEMMA NextTyped == TypeOK /\ [Next]_vars => TypeOK'
<1> SUFFICES ASSUME TypeOK, [Next]_vars PROVE TypeOK'
  OBVIOUS
<1> USE DEF faults, slurm, dvars
<1>1. ASSUME NEW d \in Dispatchers, NEW r \in Runs, ClaimSubmissionMessage(d, r)
      PROVE  TypeOK'
  <2>1. ClaimedRow(outbox[r], OwnerOf[d]) \in Row
    BY OwnerOfAssumption, RowSteps DEF TypeOK, Runs
  <2>2. outbox' \in [Messages -> Row]
    BY <1>1, <2>1 DEF ClaimSubmissionMessage, ClaimMessage, TypeOK, Runs
  <2>3. outbox'[r].fencingToken \in Nat
    BY <2>2 DEF Row, Runs
  <2>4. r # NoRun
    BY NoRunAssumption DEF Runs
  <2> QED
    BY <1>1, <2>2, <2>3, <2>4, LeaseAssumption
       DEF ClaimSubmissionMessage, TypeOK, PC
<1>2. ASSUME NEW d \in Dispatchers, Work(d) PROVE TypeOK'
  <2>0. pc[d] # "idle"
    BY <1>2 DEF Work, ReadRun, IntentRaises, ClaimRun, RereadRun, RenewForSubmit,
       CallSubmit, SubmitAccepted, SubmitRejected, SubmitTransportError,
       CheckLeaseForReceipt, ApplySubmitReceipt, QueryMarker, CallRaises,
       RetrySubmission, FailSubmission, AcknowledgeSubmission, HandleException
  <2>a. /\ claim[d].run \in Runs /\ claim[d].token \in Nat
        /\ claim[d].run \in Messages
        /\ outbox[claim[d].run] \in Row
        /\ runs[claim[d].run] \in RunRow
    BY <2>0, BusyFields
  <2>1. CASE ReadRun(d)
    <3>1. AfterRead(runs[claim[d].run]) \in PC \ {"idle"}
      BY DEF AfterRead, PC
    <3> QED
      BY <2>0, <2>1, <3>1, GotoTyped DEF ReadRun, TypeOK, DispatcherTypes
  <2>2. CASE IntentRaises(d)
    BY <2>0, <2>2, GotoTyped DEF IntentRaises, TypeOK, DispatcherTypes, PC
  <2>3. CASE ClaimRun(d)
    <3>1. AfterClaim(pc[d]) \in PC \ {"idle"}
      BY DEF AfterClaim, PC
    <3>2. DispatcherTypes'
      BY <2>0, <2>3, <3>1, GotoTyped DEF ClaimRun, PC
    <3>3. runs' \in [Runs -> RunRow]
      BY <2>3, <2>a, OwnerOfAssumption DEF ClaimRun, TypeOK, RunRow, RunState
    <3> QED
      BY <2>3, <3>2, <3>3 DEF ClaimRun, TypeOK, DispatcherTypes
  <2>4. CASE RereadRun(d)
    BY <2>0, <2>4, GotoTyped DEF RereadRun, TypeOK, DispatcherTypes, PC
  <2>5. CASE RenewForSubmit(d)
    <3>1. [outbox[claim[d].run] EXCEPT !.leaseLeft = LeaseTicks] \in Row
      BY <2>a, RowSteps
    <3>2. outbox' \in [Messages -> Row]
      BY <2>5, <3>1 DEF RenewForSubmit, RenewMessage, TypeOK
    <3>3. DispatcherTypes'
      <4>1. CASE Goto(d, "failRejected")
        BY <2>0, <4>1, GotoTyped DEF PC
      <4>2. CASE ~Goto(d, "failRejected")
        BY <2>0, <2>5, <4>2, LeaseAssumption
           DEF RenewForSubmit, TypeOK, DispatcherTypes, PC
      <4> QED
        BY <4>1, <4>2
    <3> QED
      BY <2>5, <3>2, <3>3 DEF RenewForSubmit, TypeOK, DispatcherTypes
  <2>6. CASE CallSubmit(d)
    <3>1. DispatcherTypes'
      BY <2>0, <2>6, GotoTyped DEF CallSubmit, PC
    <3>2. sent' \in [Runs -> SUBSET Nat] /\ inflight' \in [Runs -> SUBSET Nat]
      BY <2>6, <2>a DEF CallSubmit, TypeOK
    <3> QED
      BY <2>6, <3>1, <3>2 DEF CallSubmit, TypeOK, DispatcherTypes
  <2>7. CASE SubmitAccepted(d)
    <3>1. <<claim[d].token, 1>> \in JobId
      BY <2>a, NumbersAssumption DEF JobId
    <3> QED
      BY <2>0, <2>7, <3>1 DEF SubmitAccepted, TypeOK, PC
  <2>8. CASE SubmitRejected(d)
    <3>1. DispatcherTypes'
      BY <2>0, <2>8, GotoTyped DEF SubmitRejected, PC
    <3>2. inflight' \in [Runs -> SUBSET Nat] /\ misreported' \subseteq Runs
      BY <2>8, <2>a DEF SubmitRejected, TypeOK
    <3> QED
      BY <2>8, <3>1, <3>2 DEF SubmitRejected, TypeOK, DispatcherTypes
  <2>9. CASE SubmitTransportError(d)
    BY <2>0, <2>9, GotoTyped DEF SubmitTransportError, TypeOK, DispatcherTypes, PC
  <2>10. CASE CheckLeaseForReceipt(d)
    BY <2>0, <2>10, GotoTyped DEF CheckLeaseForReceipt, TypeOK, DispatcherTypes, PC
  <2>11. CASE ApplySubmitReceipt(d)
    <3>1. DispatcherTypes'
      BY <2>0, <2>11, GotoTyped DEF ApplySubmitReceipt, PC
    <3>2. reply[d] \in JobId \cup {NoJob}
      BY DEF TypeOK
    <3>3. [state |-> "SUBMITTED", jobId |-> reply[d],
           owner |-> runs[claim[d].run].owner,
           token |-> runs[claim[d].run].token] \in RunRow
      BY <2>a, <3>2 DEF RunRow, RunState
    <3>4. runs' \in [Runs -> RunRow]
      BY <2>11, <2>a, <3>3 DEF ApplySubmitReceipt, TypeOK
    <3> QED
      BY <2>11, <3>1, <3>4 DEF ApplySubmitReceipt, TypeOK, DispatcherTypes
  <2>12. CASE QueryMarker(d)
    <3>1. PICK found \in SUBSET (landed[claim[d].run] \X (1..Elements)) :
            /\ pc' = [pc EXCEPT ![d] = AfterQuery(found)]
            /\ reply' = [reply EXCEPT ![d] =
                  IF \E job \in found : found = {job}
                  THEN CHOOSE job \in found : found = {job} ELSE NoJob]
      BY <2>12 DEF QueryMarker
    <3>2. AfterQuery(found) \in PC \ {"idle"}
      BY DEF AfterQuery, PC
    <3>3. found \subseteq JobId
      BY <2>a DEF JobId, TypeOK
    <3>4. reply' \in [Dispatchers -> JobId \cup {NoJob}]
      BY <3>1, <3>3 DEF TypeOK
    <3> QED
      BY <2>0, <2>12, <3>1, <3>2, <3>4 DEF QueryMarker, TypeOK
  <2>13. CASE CallRaises(d)
    BY <2>0, <2>13, GotoTyped DEF CallRaises, TypeOK, DispatcherTypes, PC
  <2>14. CASE RetrySubmission(d)
    <3>1. DispatcherTypes'
      BY <2>0, <2>14, GotoTyped DEF RetrySubmission, PC
    <3>2. outbox' \in [Messages -> Row]
      BY <2>14, <2>a, FinishTyped, TargetTyped DEF RetrySubmission, TypeOK
    <3> QED
      BY <2>14, <3>1, <3>2 DEF RetrySubmission, TypeOK, DispatcherTypes
  <2>15. CASE FailSubmission(d)
    <3>1. DispatcherTypes'
      BY <2>0, <2>15, GotoTyped DEF FailSubmission, PC
    <3>2. \A state \in RunState :
             [runs[claim[d].run] EXCEPT !.state = state] \in RunRow
      BY <2>a DEF RunRow
    <3>3. runs' \in [Runs -> RunRow]
      BY <2>15, <2>a, <3>2 DEF FailSubmission, TypeOK, RunState
    <3> QED
      BY <2>15, <3>1, <3>3 DEF FailSubmission, TypeOK, DispatcherTypes
  <2>16. CASE AcknowledgeSubmission(d)
    <3>1. DispatcherTypes'
      BY <2>0, <2>16, GotoTyped, LeaveTyped DEF AcknowledgeSubmission, PC
    <3>2. outbox' \in [Messages -> Row]
      BY <2>16, <2>a, FinishTyped DEF AcknowledgeSubmission, TypeOK
    <3> QED
      BY <2>16, <3>1, <3>2 DEF AcknowledgeSubmission, TypeOK, DispatcherTypes
  <2>17. CASE HandleException(d)
    <3>1. DispatcherTypes'
      BY <2>17, LeaveTyped DEF HandleException
    <3>2. outbox' \in [Messages -> Row]
      BY <2>17, <2>a, FinishTyped, TargetTyped DEF HandleException, TypeOK
    <3> QED
      BY <2>17, <3>1, <3>2 DEF HandleException, TypeOK, DispatcherTypes
  <2> QED
    BY <1>2, <2>1, <2>2, <2>3, <2>4, <2>5, <2>6, <2>7, <2>8, <2>9, <2>10, <2>11,
       <2>12, <2>13, <2>14, <2>15, <2>16, <2>17 DEF Work
<1>3. ASSUME NEW d \in Dispatchers, Crash(d) PROVE TypeOK'
  <2>1. DispatcherTypes'
    BY <1>3, LeaveTyped DEF Crash
  <2> QED
    BY <1>3, <2>1, NumbersAssumption DEF Crash, TypeOK, DispatcherTypes
<1>4. ASSUME NEW r \in Runs, EnqueueSubmission(r) PROVE TypeOK'
  <2>1. [outbox[r] EXCEPT !.state = "pending"] \in Row
    BY RowSteps DEF TypeOK, Runs
  <2> QED
    BY <1>4, <2>1 DEF EnqueueSubmission, InsertMessage, TypeOK
<1>5. ASSUME NEW r \in Runs, CancelRead(r) PROVE TypeOK'
  BY <1>5 DEF CancelRead, TypeOK
<1>6. ASSUME NEW r \in Runs, CancelWrite(r) \/ CancelJob(r) PROVE TypeOK'
  <2>1. runs[r] \in RunRow /\ runs \in [Runs -> RunRow]
    BY DEF TypeOK
  <2>2. [runs[r] EXCEPT !.state = "CANCELLED"] \in RunRow
    BY <2>1 DEF RunRow, RunState
  <2>3. runs' = [runs EXCEPT ![r].state = "CANCELLED"]
    BY <1>6 DEF CancelWrite, CancelJob
  <2>4. runs' \in [Runs -> RunRow]
    BY <2>1, <2>2, <2>3
  <2>5. cancelling' \subseteq Runs
    BY <1>6 DEF CancelWrite, CancelJob, TypeOK
  <2>6. UNCHANGED <<outbox, dvars, slurm, faults>>
    BY <1>6 DEF CancelWrite, CancelJob
  <2> QED
    BY <2>4, <2>5, <2>6 DEF TypeOK
<1>7. ASSUME NEW r \in Runs, NEW t \in inflight[r], SlurmAccepts(r, t) PROVE TypeOK'
  BY <1>7 DEF SlurmAccepts, TypeOK
<1>8. CASE Tick
  <2>1. \A m \in Messages : ElapsedRow(outbox[m]) \in Row
    BY RowSteps DEF TypeOK
  <2>2. Cardinality(Overrun) \in Nat
    <3>1. Overrun \subseteq Dispatchers
      BY DEF Overrun
    <3> QED
      BY <3>1, DispatchersAssumption, FS_Subset, FS_CardinalityType
  <2>3. lease' \in [Dispatchers -> Nat]
    BY <1>8 DEF Tick, TypeOK, Less
  <2> QED
    BY <1>8, <2>1, <2>2, <2>3, NumbersAssumption DEF Tick, ElapseOutbox, TypeOK
<1>9. CASE UNCHANGED vars
  BY <1>9 DEF vars, TypeOK
<1> QED
  BY <1>1, <1>2, <1>3, <1>4, <1>5, <1>6, <1>7, <1>8, <1>9 DEF Next

\* Every variable of the submission keeps its type, and a dispatcher has a
\* message in hand exactly while it is busy.
THEOREM TypeInvariant == Spec => []TypeOK
  BY InitTyped, NextTyped, PTL DEF Spec

-----------------------------------------------------------------------------
\* At most one submit.

\* The steps that bring no dispatcher closer to the call.
Quiet ==
    /\ \A d \in Dispatchers : claim'[d] = claim[d] \/ claim'[d].run = NoRun
    /\ \A d \in Dispatchers : Fresh(d)' => pc'[d] = pc[d] /\ claim'[d] = claim[d]
    /\ sent' = sent
    /\ \A r \in Runs : outbox'[r].fencingToken = outbox[r].fencingToken
    /\ \A r \in Runs : runs'[r].state = "VALIDATED" => runs[r].state = "VALIDATED"

\* A dispatcher whose claim is fresh holds a message and its token.
LEMMA FreshIsBusy ==
    ASSUME TypeOK, NEW d \in Dispatchers, Fresh(d)
    PROVE  /\ claim[d].run \in Runs /\ claim[d].token \in Nat
           /\ claim[d].run # NoRun
  BY BusyFields, NoRunAssumption DEF Fresh, Runs

\* A step that leaves claims and calls alone keeps the invariant.
LEMMA QuietKeeps ==
    ASSUME TypeOK, TypeOK', SubmitInv, Quiet
    PROVE  SubmitInv'
<1> USE DEF SubmitInv, Quiet
<1>1. ClaimsDistinct'
  BY DEF ClaimsDistinct
<1>2. TokensIssued'
  <2>1. ASSUME NEW d \in Dispatchers, claim'[d].run # NoRun
        PROVE  claim'[d].token <= outbox'[claim'[d].run].fencingToken
    <3>1. claim'[d] = claim[d]
      BY <2>1
    <3>2. claim[d].run \in Runs
      BY <2>1, <3>1 DEF TypeOK
    <3>3. claim[d].token <= outbox[claim[d].run].fencingToken
      BY <2>1, <3>1 DEF TokensIssued
    <3> QED
      BY <3>1, <3>2, <3>3
  <2>2. \A r \in Runs : \A t \in sent'[r] : t <= outbox'[r].fencingToken
    BY DEF TokensIssued
  <2> QED
    BY <2>1, <2>2 DEF TokensIssued
<1>3. NotValidated'
  <2>1. ASSUME NEW d \in Dispatchers, pc'[d] \in {"renew", "submit"}
        PROVE  runs'[claim'[d].run].state # "VALIDATED"
    <3>1. Fresh(d)'
      BY <2>1 DEF Fresh
    <3>2. pc'[d] = pc[d] /\ claim'[d] = claim[d]
      BY <3>1
    <3>3. Fresh(d)
      BY <3>1, <3>2 DEF Fresh
    <3> QED
      BY <2>1, <3>2, <3>3, FreshIsBusy DEF NotValidated
  <2> QED
    BY <2>1 DEF NotValidated
<1>4. \A d \in Dispatchers : Fresh(d)' => Fresh(d)
  BY DEF Fresh
<1>5. RenewedIsLast'
  <2>1. SUFFICES ASSUME NEW d \in Dispatchers, NEW e \in Dispatchers, d # e,
                        pc'[d] = "submit", Fresh(e)', claim'[d].run = claim'[e].run
                 PROVE  pc'[e] # "submit" /\ claim'[e].token < claim'[d].token
    BY DEF RenewedIsLast
  <2>2. Fresh(d)'
    BY <2>1 DEF Fresh
  <2> QED
    BY <1>4, <2>1, <2>2 DEF RenewedIsLast
<1>6. SentIsLast'
  BY <1>4 DEF SentIsLast
<1>7. AtMostOneSubmit'
  BY DEF AtMostOneSubmit
<1> QED
  BY <1>1, <1>2, <1>3, <1>5, <1>6, <1>7

\* The four steps that do bring a dispatcher closer.

\* Claiming a message keeps it.
LEMMA ClaimKeeps ==
    ASSUME TypeOK, TypeOK', SubmitInv, NEW d \in Dispatchers, NEW r \in Runs,
           ClaimSubmissionMessage(d, r)
    PROVE  SubmitInv'
<1> DEFINE t == outbox[r].fencingToken + 1
<1>0. r \in Messages /\ outbox[r].fencingToken \in Nat
  BY DEF Runs, TypeOK, Row
<1>1. /\ pc[d] = "idle" /\ pc' = [pc EXCEPT ![d] = "readRun"]
      /\ claim' = [claim EXCEPT ![d] = [run |-> r, token |-> t]]
      /\ outbox'[r].fencingToken = t
      /\ \A q \in Runs \ {r} : outbox'[q] = outbox[q]
      /\ sent' = sent /\ runs' = runs
  BY <1>0 DEF ClaimSubmissionMessage, ClaimMessage, ClaimedRow, TypeOK, Runs, slurm
<1>2. \A e \in Dispatchers \ {d} :
         claim'[e] = claim[e] /\ pc'[e] = pc[e] /\ (Fresh(e)' <=> Fresh(e))
  BY <1>1 DEF TypeOK, Fresh
<1>3. claim'[d] = [run |-> r, token |-> t] /\ pc'[d] = "readRun" /\ ~Fresh(d)'
  BY <1>1 DEF TypeOK, Fresh
<1>4. \A e \in Dispatchers : claim[e].run = r =>
         claim[e].token \in Nat /\ claim[e].token < t
  <2>1. ASSUME NEW e \in Dispatchers, claim[e].run = r
        PROVE  claim[e].token \in Nat /\ claim[e].token < t
    <3>1. claim[e].token \in Nat
      BY DEF TypeOK
    <3>2. claim[e].token <= outbox[r].fencingToken
      BY <1>0, <2>1, NoRunAssumption DEF SubmitInv, TokensIssued
    <3> QED
      BY <1>0, <3>1, <3>2
  <2> QED
    BY <2>1
<1>5. ClaimsDistinct'
  BY <1>2, <1>3, <1>4 DEF SubmitInv, ClaimsDistinct
<1>6. TokensIssued'
  <2>1. ASSUME NEW e \in Dispatchers, claim'[e].run # NoRun
        PROVE  claim'[e].token <= outbox'[claim'[e].run].fencingToken
    <3>1. CASE e = d
      BY <1>0, <1>1, <1>3, <3>1
    <3>2. CASE e # d /\ claim[e].run = r
      BY <1>0, <1>1, <1>2, <1>4, <3>2
    <3>3. CASE e # d /\ claim[e].run # r
      <4>1. claim[e].run \in Runs \ {r}
        BY <1>2, <2>1, <3>3 DEF TypeOK
      <4> QED
        BY <1>1, <1>2, <2>1, <3>3, <4>1 DEF SubmitInv, TokensIssued
    <3> QED
      BY <3>1, <3>2, <3>3
  <2>2. ASSUME NEW q \in Runs, NEW u \in sent'[q]
        PROVE  u <= outbox'[q].fencingToken
    <3>1. u \in sent[q] /\ u \in Nat
      BY <1>1, <2>2 DEF TypeOK
    <3>2. u <= outbox[q].fencingToken
      BY <3>1 DEF SubmitInv, TokensIssued
    <3> QED
      BY <1>0, <1>1, <3>1, <3>2
  <2> QED
    BY <2>1, <2>2 DEF TokensIssued
<1>7. NotValidated'
  BY <1>1, <1>2, <1>3 DEF SubmitInv, NotValidated
<1>8. RenewedIsLast'
  BY <1>2, <1>3 DEF SubmitInv, RenewedIsLast
<1>9. SentIsLast'
  BY <1>1, <1>2, <1>3 DEF SubmitInv, SentIsLast
<1>10. AtMostOneSubmit'
  BY <1>1 DEF SubmitInv, AtMostOneSubmit
<1> QED
  BY <1>5, <1>6, <1>7, <1>8, <1>9, <1>10 DEF SubmitInv

\* Reading the run row keeps it.
LEMMA ReadKeeps ==
    ASSUME TypeOK, TypeOK', SubmitInv, NEW d \in Dispatchers, ReadRun(d)
    PROVE  SubmitInv'
<1> DEFINE r == claim[d].run
<1>0. r \in Runs /\ pc[d] = "readRun"
  BY BusyFields DEF ReadRun
<1>1. /\ pc' = [pc EXCEPT ![d] = AfterRead(runs[r])]
      /\ UNCHANGED <<claim, sent, runs, outbox>>
  BY DEF ReadRun, Goto, slurm
<1>2. CASE runs[r].state = "VALIDATED"
  \* Nobody is past ClaimRun, so there is nobody to be last.
  <2>1. /\ sent[r] = {}
        /\ \A e \in Dispatchers : claim[e].run = r => pc[e] \notin {"renew", "submit"}
    BY <1>0, <1>2 DEF SubmitInv, NotValidated
  <2>2. \A e \in Dispatchers \ {d} : pc'[e] = pc[e] /\ (Fresh(e)' <=> Fresh(e))
    BY <1>1 DEF TypeOK, Fresh
  <2>3. pc'[d] \notin {"renew", "submit"}
    BY <1>1 DEF AfterRead, TypeOK
  <2>4. ClaimsDistinct' /\ TokensIssued' /\ AtMostOneSubmit'
    BY <1>1 DEF SubmitInv, ClaimsDistinct, TokensIssued, AtMostOneSubmit
  <2>5. NotValidated'
    BY <1>1, <2>2, <2>3 DEF SubmitInv, NotValidated
  <2>6. RenewedIsLast'
    BY <1>1, <2>1, <2>2, <2>3 DEF SubmitInv, RenewedIsLast
  <2>7. SentIsLast'
    BY <1>1, <2>1, <2>2, <2>3 DEF SubmitInv, SentIsLast
  <2> QED
    BY <2>4, <2>5, <2>6, <2>7 DEF SubmitInv
<1>3. CASE runs[r].state # "VALIDATED"
  <2>1. AfterRead(runs[r]) \notin {"intent", "renew", "submit"}
    BY <1>3 DEF AfterRead
  <2>2. Quiet
    BY <1>1, <2>1 DEF Quiet, Fresh, TypeOK
  <2> QED
    BY <2>2, QuietKeeps
<1> QED
  BY <1>2, <1>3

\* Claiming the run row for the call keeps it.
LEMMA ClaimRunKeeps ==
    ASSUME TypeOK, TypeOK', SubmitInv, NEW d \in Dispatchers, ClaimRun(d)
    PROVE  SubmitInv'
<1> DEFINE r == claim[d].run
<1>0. r \in Runs /\ pc[d] \in {"intent", "replay"}
  BY BusyFields DEF ClaimRun
<1>1. UNCHANGED <<claim, sent, outbox>>
  BY DEF ClaimRun, Goto, slurm
<1>2. \A q \in Runs : runs'[q].state = "VALIDATED" => runs[q].state = "VALIDATED"
  <2>1. CASE runs' = runs
    BY <2>1
  <2>2. CASE runs' # runs
    <3> DEFINE row == [state |-> "SUBMITTING", jobId |-> NoJob,
                       owner |-> OwnerOf[d], token |-> claim[d].token]
    <3>1. runs' = [runs EXCEPT ![r] = row]
      BY <2>2 DEF ClaimRun
    <3>2. row.state # "VALIDATED"
      OBVIOUS
    <3> HIDE DEF row
    <3> QED
      BY <3>1, <3>2 DEF TypeOK
  <2> QED
    BY <2>1, <2>2
<1>3. CASE pc[d] = "intent" /\ CanClaimRun(d)
  <2>1. /\ pc' = [pc EXCEPT ![d] = "renew"]
        /\ runs'[r].state = "SUBMITTING"
    BY <1>0, <1>3 DEF ClaimRun, Goto, AfterClaim, TypeOK
  <2>2. Fresh(d) /\ pc[d] # "submit"
    BY <1>3 DEF Fresh
  <2>3. \A e \in Dispatchers :
           (Fresh(e)' <=> Fresh(e)) /\ (pc'[e] = "submit" <=> pc[e] = "submit")
    BY <1>3, <2>1 DEF Fresh, TypeOK
  <2>4. ClaimsDistinct' /\ TokensIssued' /\ AtMostOneSubmit'
    BY <1>1 DEF SubmitInv, ClaimsDistinct, TokensIssued, AtMostOneSubmit
  <2>5. NotValidated'
    <3>1. ASSUME NEW e \in Dispatchers, pc'[e] \in {"renew", "submit"}
          PROVE  runs'[claim'[e].run].state # "VALIDATED"
      <4>1. CASE e = d
        BY <1>1, <2>1, <4>1
      <4>2. CASE e # d
        <5>1. pc[e] \in {"renew", "submit"}
          BY <2>1, <3>1, <4>2 DEF TypeOK
        <5>2. claim[e].run \in Runs
          BY <5>1, BusyFields
        <5> QED
          BY <1>1, <1>2, <5>1, <5>2 DEF SubmitInv, NotValidated
      <4> QED
        BY <4>1, <4>2
    <3> QED
      BY <1>1, <1>2, <3>1 DEF SubmitInv, NotValidated
  <2>6. RenewedIsLast'
    BY <1>1, <2>3 DEF SubmitInv, RenewedIsLast
  <2>7. SentIsLast'
    BY <1>1, <2>3 DEF SubmitInv, SentIsLast
  <2> QED
    BY <2>4, <2>5, <2>6, <2>7 DEF SubmitInv
<1>4. CASE ~(pc[d] = "intent" /\ CanClaimRun(d))
  <2>1. PICK place \in {"reread", "query", "retryUncertain"} :
           pc' = [pc EXCEPT ![d] = place]
    BY <1>0, <1>4 DEF ClaimRun, Goto, AfterClaim
  <2>2. Quiet
    BY <1>1, <1>2, <2>1 DEF Quiet, Fresh, TypeOK
  <2> QED
    BY <2>2, QuietKeeps
<1> QED
  BY <1>3, <1>4

\* The heart of the argument: whoever renews holds the largest token, so
\* nobody else has renewed and nobody has called.
LEMMA RenewKeeps ==
    ASSUME TypeOK, TypeOK', SubmitInv, NEW d \in Dispatchers, RenewForSubmit(d)
    PROVE  SubmitInv'
<1> DEFINE r == claim[d].run
           t == claim[d].token
<1>0. /\ pc[d] = "renew" /\ Fresh(d)
      /\ r \in Runs /\ r \in Messages /\ r # NoRun /\ t \in Nat
  BY BusyFields, NoRunAssumption DEF RenewForSubmit, Fresh, Runs
<1>1. /\ UNCHANGED <<claim, sent, runs>>
      /\ \A q \in Runs : outbox'[q].fencingToken = outbox[q].fencingToken
  <2>1. UNCHANGED <<claim, sent, runs>>
    BY DEF RenewForSubmit, Goto, slurm
  <2>2. \A q \in Runs : outbox'[q].fencingToken = outbox[q].fencingToken
    <3>1. CASE outbox' = outbox
      BY <3>1
    <3>2. CASE outbox' # outbox
      <4>1. outbox' = [outbox EXCEPT ![r] = [outbox[r] EXCEPT !.leaseLeft = LeaseTicks]]
        BY <3>2 DEF RenewForSubmit, RenewMessage
      <4>2. [outbox[r] EXCEPT !.leaseLeft = LeaseTicks].fencingToken
              = outbox[r].fencingToken
        BY <1>0 DEF TypeOK, Row
      <4> HIDE DEF r
      <4> QED
        BY <1>0, <4>1, <4>2 DEF TypeOK, Runs
    <3> QED
      BY <3>1, <3>2
  <2> QED
    BY <2>1, <2>2
<1>2. CASE pc' = [pc EXCEPT ![d] = "submit"]
  <2>0. t = outbox[r].fencingToken
    <3>1. Renewable(r, OwnerOf[d], t)
      BY <1>0, <1>2 DEF RenewForSubmit, Goto, TypeOK
    <3> QED
      BY <3>1 DEF Renewable, Holds
  <2>1. \A e \in Dispatchers \ {d} : claim[e].run = r =>
           claim[e].token \in Nat /\ claim[e].token < t
    <3>1. ASSUME NEW e \in Dispatchers \ {d}, claim[e].run = r
          PROVE  claim[e].token \in Nat /\ claim[e].token < t
      <4>1. claim[e].token \in Nat
        BY DEF TypeOK
      <4>2. claim[e].token <= t
        BY <1>0, <2>0, <3>1 DEF SubmitInv, TokensIssued
      <4>3. claim[e].token # t
        BY <1>0, <3>1 DEF SubmitInv, ClaimsDistinct
      <4> QED
        BY <1>0, <4>1, <4>2, <4>3
    <3> QED
      BY <3>1
  <2>2. \A e \in Dispatchers \ {d} : claim[e].run = r => pc[e] # "submit"
    BY <1>0, <2>1 DEF SubmitInv, RenewedIsLast
  <2>3. sent[r] = {}
    <3>1. \A u \in sent[r] : u \in Nat /\ u <= t /\ t < u
      BY <1>0, <2>0 DEF SubmitInv, TokensIssued, SentIsLast, TypeOK
    <3> QED
      BY <1>0, <3>1
  <2>4. \A e \in Dispatchers \ {d} : pc'[e] = pc[e] /\ (Fresh(e)' <=> Fresh(e))
    BY <1>2 DEF TypeOK, Fresh
  <2>5. pc'[d] = "submit"
    BY <1>2 DEF TypeOK
  <2>6. ClaimsDistinct' /\ TokensIssued' /\ AtMostOneSubmit'
    <3>1. ClaimsDistinct' /\ AtMostOneSubmit'
      BY <1>1 DEF SubmitInv, ClaimsDistinct, AtMostOneSubmit
    <3>2. ASSUME NEW e \in Dispatchers, claim[e].run # NoRun
          PROVE  claim[e].token <= outbox'[claim[e].run].fencingToken
      <4>1. claim[e].run \in Runs
        BY <3>2 DEF TypeOK
      <4> QED
        BY <1>1, <3>2, <4>1 DEF SubmitInv, TokensIssued
    <3>3. TokensIssued'
      BY <1>1, <3>2 DEF SubmitInv, TokensIssued
    <3> QED
      BY <3>1, <3>3
  <2>7. NotValidated'
    BY <1>0, <1>1, <2>4 DEF SubmitInv, NotValidated
  <2>8. RenewedIsLast'
    <3>1. SUFFICES ASSUME NEW a \in Dispatchers, NEW e \in Dispatchers, a # e,
                          pc'[a] = "submit", Fresh(e)', claim[a].run = claim[e].run
                   PROVE  pc'[e] # "submit" /\ claim[e].token < claim[a].token
      BY <1>1 DEF RenewedIsLast
    <3>2. CASE a = d
      BY <2>1, <2>2, <2>4, <3>1, <3>2
    <3>3. CASE e = d
      BY <2>2, <2>4, <3>1, <3>3
    <3>4. CASE a # d /\ e # d
      BY <2>4, <3>1, <3>4 DEF SubmitInv, RenewedIsLast
    <3> QED
      BY <3>2, <3>3, <3>4
  <2>9. SentIsLast'
    <3>1. SUFFICES ASSUME NEW e \in Dispatchers, Fresh(e)', NEW u \in sent[claim[e].run]
                   PROVE  pc'[e] # "submit" /\ claim[e].token < u
      BY <1>1 DEF SentIsLast
    <3>2. e # d
      BY <2>3, <3>1
    <3> QED
      BY <2>4, <3>1, <3>2 DEF SubmitInv, SentIsLast
  <2> QED
    BY <2>6, <2>7, <2>8, <2>9 DEF SubmitInv
<1>3. CASE pc' # [pc EXCEPT ![d] = "submit"]
  <2>1. PICK place \in {"failRejected", "raised"} : pc' = [pc EXCEPT ![d] = place]
    BY <1>3 DEF RenewForSubmit, Goto
  <2>2. Quiet
    BY <1>1, <2>1 DEF Quiet, Fresh, TypeOK
  <2> QED
    BY <2>2, QuietKeeps
<1> QED
  BY <1>2, <1>3

\* Calling Slurm keeps it.
LEMMA CallKeeps ==
    ASSUME TypeOK, TypeOK', SubmitInv, NEW d \in Dispatchers, CallSubmit(d)
    PROVE  SubmitInv'
<1> DEFINE r == claim[d].run
           t == claim[d].token
<1>0. /\ pc[d] = "submit" /\ Fresh(d)
      /\ r \in Runs /\ r \in Messages /\ r # NoRun /\ t \in Nat
  BY BusyFields, NoRunAssumption DEF CallSubmit, Fresh, Runs
<1>1. /\ UNCHANGED <<claim, runs, outbox>>
      /\ pc' = [pc EXCEPT ![d] = "calling"]
      /\ sent' = [sent EXCEPT ![r] = sent[r] \cup {t}]
  BY DEF CallSubmit, Goto
<1>2. sent[r] = {}
  BY <1>0 DEF SubmitInv, SentIsLast
<1>3. sent'[r] = {t} /\ \A q \in Runs \ {r} : sent'[q] = sent[q]
  BY <1>0, <1>1, <1>2 DEF TypeOK
<1>4. \A e \in Dispatchers \ {d} : pc'[e] = pc[e] /\ (Fresh(e)' <=> Fresh(e))
  BY <1>1 DEF TypeOK, Fresh
<1>5. pc'[d] = "calling" /\ ~Fresh(d)'
  BY <1>1 DEF TypeOK, Fresh
<1>6. ClaimsDistinct'
  BY <1>1 DEF SubmitInv, ClaimsDistinct
<1>7. TokensIssued'
  BY <1>0, <1>1, <1>3 DEF SubmitInv, TokensIssued
<1>8. NotValidated'
  BY <1>0, <1>1, <1>3, <1>4, <1>5 DEF SubmitInv, NotValidated
<1>9. RenewedIsLast'
  BY <1>1, <1>4, <1>5 DEF SubmitInv, RenewedIsLast
<1>10. SentIsLast'
  <2>1. SUFFICES ASSUME NEW e \in Dispatchers, Fresh(e)', NEW u \in sent'[claim[e].run]
                 PROVE  pc'[e] # "submit" /\ claim[e].token < u
    BY <1>1 DEF SentIsLast
  <2>2. e # d /\ Fresh(e) /\ claim[e].run \in Runs
    BY <1>4, <1>5, <2>1, FreshIsBusy
  <2>3. CASE claim[e].run = r
    BY <1>0, <1>3, <1>4, <2>1, <2>2, <2>3 DEF SubmitInv, RenewedIsLast
  <2>4. CASE claim[e].run # r
    BY <1>3, <1>4, <2>1, <2>2, <2>4 DEF SubmitInv, SentIsLast
  <2> QED
    BY <2>3, <2>4
<1>11. AtMostOneSubmit'
  BY <1>3 DEF SubmitInv, AtMostOneSubmit
<1> QED
  BY <1>6, <1>7, <1>8, <1>9, <1>10, <1>11 DEF SubmitInv

\* A step of Work that moves d to a place that is not fresh, or lets it go.
LEMMA MovesAway ==
    ASSUME TypeOK, NEW d \in Dispatchers,
           \/ \E place \in PC \ {"intent", "renew", "submit"} :
                 pc' = [pc EXCEPT ![d] = place] /\ claim' = claim
           \/ Leave(d)
    PROVE  /\ \A e \in Dispatchers : claim'[e] = claim[e] \/ claim'[e].run = NoRun
           /\ \A e \in Dispatchers :
                 Fresh(e)' => pc'[e] = pc[e] /\ claim'[e] = claim[e]
<1>1. CASE Leave(d)
  <2>1. /\ claim'[d].run = NoRun /\ pc'[d] = "idle"
        /\ \A e \in Dispatchers \ {d} : claim'[e] = claim[e] /\ pc'[e] = pc[e]
    BY <1>1 DEF Leave, NoClaim, TypeOK
  <2> QED
    BY <2>1 DEF Fresh
<1>2. CASE ~Leave(d)
  <2>1. PICK place \in PC \ {"intent", "renew", "submit"} :
           pc' = [pc EXCEPT ![d] = place] /\ claim' = claim
    BY <1>2
  <2>2. /\ pc'[d] = place
        /\ \A e \in Dispatchers \ {d} : pc'[e] = pc[e]
    BY <2>1 DEF TypeOK
  <2> QED
    BY <2>1, <2>2 DEF Fresh
<1> QED
  BY <1>1, <1>2

\* Finishing a message keeps its token, as the run row keeps what it left.
LEMMA FinishKeepsTokens ==
    ASSUME TypeOK, NEW m \in Messages, NEW target,
           \/ AcknowledgeMessage(m) \/ RetryMessage(m, target) \/ outbox' = outbox
    PROVE  \A q \in Runs : outbox'[q].fencingToken = outbox[q].fencingToken
  BY DEF AcknowledgeMessage, RetryMessage, FinishedRow, TypeOK, Runs

\* Writing a state other than VALIDATED makes no Run VALIDATED.
LEMMA StateKeeps ==
    ASSUME TypeOK, NEW r \in Runs, NEW state \in RunState \ {"VALIDATED"},
           runs' = [runs EXCEPT ![r].state = state] \/ runs' = runs
    PROVE  \A q \in Runs : runs'[q].state = "VALIDATED" => runs[q].state = "VALIDATED"
<1>1. CASE runs' = runs
  BY <1>1
<1>2. CASE runs' # runs
  <2>1. runs[r] \in RunRow /\ runs' = [runs EXCEPT ![r].state = state]
    BY <1>2 DEF TypeOK
  <2>2. runs'[r].state = state
    BY <2>1 DEF TypeOK, RunRow
  <2>3. \A q \in Runs \ {r} : runs'[q] = runs[q]
    BY <2>1 DEF TypeOK
  <2> QED
    BY <2>2, <2>3
<1> QED
  BY <1>1, <1>2

\* Every step of a handler keeps it.
LEMMA WorkKeeps ==
    ASSUME TypeOK, TypeOK', SubmitInv, NEW d \in Dispatchers, Work(d)
    PROVE  SubmitInv'
<1> USE DEF slurm, faults
<1>1. CASE ReadRun(d)
  BY <1>1, ReadKeeps
<1>2. CASE ClaimRun(d)
  BY <1>2, ClaimRunKeeps
<1>3. CASE RenewForSubmit(d)
  BY <1>3, RenewKeeps
<1>4. CASE CallSubmit(d)
  BY <1>4, CallKeeps
<1>5. CASE \/ IntentRaises(d) \/ RereadRun(d) \/ SubmitAccepted(d)
           \/ SubmitRejected(d) \/ SubmitTransportError(d)
           \/ CheckLeaseForReceipt(d) \/ CallRaises(d)
  <2>1. /\ UNCHANGED <<outbox, runs, sent>>
        /\ \E place \in PC \ {"intent", "renew", "submit"} :
              pc' = [pc EXCEPT ![d] = place] /\ claim' = claim
    BY <1>5 DEF IntentRaises, RereadRun, SubmitAccepted, SubmitRejected,
       SubmitTransportError, CheckLeaseForReceipt, CallRaises, Goto, PC
  <2>2. Quiet
    BY <2>1, MovesAway DEF Quiet
  <2> QED
    BY <2>2, QuietKeeps
<1>6. CASE QueryMarker(d)
  <2>1. /\ UNCHANGED <<outbox, runs, sent>>
        /\ \E place \in PC \ {"intent", "renew", "submit"} :
              pc' = [pc EXCEPT ![d] = place] /\ claim' = claim
    BY <1>6 DEF QueryMarker, AfterQuery, PC
  <2>2. Quiet
    BY <2>1, MovesAway DEF Quiet
  <2> QED
    BY <2>2, QuietKeeps
<1>7. CASE ApplySubmitReceipt(d)
  <2>0. pc[d] # "idle"
    BY <1>7 DEF ApplySubmitReceipt
  <2>1. /\ UNCHANGED <<outbox, sent>>
        /\ \E place \in PC \ {"intent", "renew", "submit"} :
              pc' = [pc EXCEPT ![d] = place] /\ claim' = claim
    BY <1>7 DEF ApplySubmitReceipt, Goto, PC
  <2>2. \A q \in Runs : runs'[q].state = "VALIDATED" => runs[q].state = "VALIDATED"
    <3>1. CASE runs' = runs
      BY <3>1
    <3>2. CASE runs' # runs
      <4> DEFINE row == [state |-> "SUBMITTED", jobId |-> reply[d],
                         owner |-> runs[claim[d].run].owner,
                         token |-> runs[claim[d].run].token]
      <4>1. runs' = [runs EXCEPT ![claim[d].run] = row]
        BY <1>7, <3>2 DEF ApplySubmitReceipt
      <4>2. row.state # "VALIDATED"
        OBVIOUS
      <4> HIDE DEF row
      <4> QED
        BY <2>0, <4>1, <4>2, BusyFields DEF TypeOK
    <3> QED
      BY <3>1, <3>2
  <2>3. Quiet
    BY <2>1, <2>2, MovesAway DEF Quiet
  <2> QED
    BY <2>3, QuietKeeps
<1>8. CASE FailSubmission(d)
  <2>0. pc[d] # "idle"
    BY <1>8 DEF FailSubmission
  <2>1. /\ UNCHANGED <<outbox, sent>>
        /\ \E place \in PC \ {"intent", "renew", "submit"} :
              pc' = [pc EXCEPT ![d] = place] /\ claim' = claim
    BY <1>8 DEF FailSubmission, Goto, PC
  <2>2. \E state \in RunState \ {"VALIDATED"} :
           runs' = [runs EXCEPT ![claim[d].run].state = state] \/ runs' = runs
    BY <1>8 DEF FailSubmission, RunState
  <2>3. \A q \in Runs : runs'[q].state = "VALIDATED" => runs[q].state = "VALIDATED"
    BY <2>0, <2>2, BusyFields, StateKeeps
  <2>4. Quiet
    BY <2>1, <2>3, MovesAway DEF Quiet
  <2> QED
    BY <2>4, QuietKeeps
<1>9. CASE RetrySubmission(d) \/ AcknowledgeSubmission(d) \/ HandleException(d)
  <2>0. pc[d] # "idle"
    BY <1>9 DEF RetrySubmission, AcknowledgeSubmission, HandleException
  <2>1. \/ Leave(d)
        \/ \E place \in PC \ {"intent", "renew", "submit"} :
              pc' = [pc EXCEPT ![d] = place] /\ claim' = claim
    BY <1>9 DEF RetrySubmission, AcknowledgeSubmission, HandleException, Goto, PC
  <2>2. UNCHANGED <<runs, sent>>
    BY <1>9 DEF RetrySubmission, AcknowledgeSubmission, HandleException
  <2>3. \A q \in Runs : outbox'[q].fencingToken = outbox[q].fencingToken
    BY <1>9, <2>0, BusyFields, FinishKeepsTokens
       DEF RetrySubmission, AcknowledgeSubmission, HandleException
  <2>4. Quiet
    BY <2>1, <2>2, <2>3, MovesAway DEF Quiet
  <2> QED
    BY <2>4, QuietKeeps
<1> QED
  BY <1>1, <1>2, <1>3, <1>4, <1>5, <1>6, <1>7, <1>8, <1>9 DEF Work

\* The invariant behind AtMostOneSubmit is inductive.
LEMMA SubmitInductive == TypeOK /\ TypeOK' /\ SubmitInv /\ [Next]_vars => SubmitInv'
<1> SUFFICES ASSUME TypeOK, TypeOK', SubmitInv, [Next]_vars PROVE SubmitInv'
  OBVIOUS
<1> USE DEF dvars, slurm, faults
<1>1. ASSUME NEW d \in Dispatchers, NEW r \in Runs, ClaimSubmissionMessage(d, r)
      PROVE  SubmitInv'
  BY <1>1, ClaimKeeps
<1>2. ASSUME NEW d \in Dispatchers, Work(d) PROVE SubmitInv'
  BY <1>2, WorkKeeps
<1>3. ASSUME NEW d \in Dispatchers, Crash(d) PROVE SubmitInv'
  <2>1. Quiet
    BY <1>3, MovesAway DEF Crash, Quiet
  <2> QED
    BY <2>1, QuietKeeps
<1>4. ASSUME NEW r \in Runs, EnqueueSubmission(r) PROVE SubmitInv'
  <2>1. \A q \in Runs : outbox'[q].fencingToken = outbox[q].fencingToken
    <3>1. /\ outbox[r] \in Row /\ r \in Messages
          /\ outbox' = [outbox EXCEPT ![r] = [outbox[r] EXCEPT !.state = "pending"]]
      BY <1>4 DEF EnqueueSubmission, InsertMessage, TypeOK, Runs
    <3>2. [outbox[r] EXCEPT !.state = "pending"].fencingToken = outbox[r].fencingToken
      BY <3>1 DEF Row
    <3> QED
      BY <3>1, <3>2 DEF TypeOK, Runs
  <2>2. Quiet
    BY <1>4, <2>1 DEF EnqueueSubmission, Quiet, Fresh
  <2> QED
    BY <2>2, QuietKeeps
<1>5. ASSUME NEW r \in Runs, CancelRead(r) PROVE SubmitInv'
  <2>1. Quiet
    BY <1>5 DEF CancelRead, Quiet, Fresh
  <2> QED
    BY <2>1, QuietKeeps
<1>6. ASSUME NEW r \in Runs, CancelWrite(r) \/ CancelJob(r) PROVE SubmitInv'
  <2>1. \A q \in Runs : runs'[q].state = "VALIDATED" => runs[q].state = "VALIDATED"
    BY <1>6, StateKeeps DEF CancelWrite, CancelJob, RunState
  <2>2. Quiet
    BY <1>6, <2>1 DEF CancelWrite, CancelJob, Quiet, Fresh
  <2> QED
    BY <2>2, QuietKeeps
<1>7. ASSUME NEW r \in Runs, NEW t \in inflight[r], SlurmAccepts(r, t) PROVE SubmitInv'
  <2>1. Quiet
    BY <1>7 DEF SlurmAccepts, Quiet, Fresh
  <2> QED
    BY <2>1, QuietKeeps
<1>8. CASE Tick
  <2>1. \A q \in Runs : outbox'[q].fencingToken = outbox[q].fencingToken
    BY <1>8 DEF Tick, ElapseOutbox, ElapsedRow, TypeOK, Runs
  <2>2. Quiet
    BY <1>8, <2>1 DEF Tick, Quiet, Fresh
  <2> QED
    BY <2>2, QuietKeeps
<1>9. CASE UNCHANGED vars
  <2>1. Quiet
    BY <1>9 DEF vars, Quiet, Fresh
  <2> QED
    BY <2>1, QuietKeeps
<1> QED
  BY <1>1, <1>2, <1>3, <1>4, <1>5, <1>6, <1>7, <1>8, <1>9 DEF Next

\* It holds at the start.
LEMMA SubmitInitially == Init => SubmitInv
  BY NoRunAssumption
     DEF Init, SubmitInv, ClaimsDistinct, TokensIssued, NotValidated,
         RenewedIsLast, SentIsLast, AtMostOneSubmit, Fresh, NoClaim

\* backend.submit is called at most once for a Run, however its dispatchers are
\* overtaken, crash, retry and are answered: for any Runs, any finite set of
\* dispatchers, shared ids included, and any leases and budgets.
THEOREM AtMostOneSubmitAlways == Spec => []AtMostOneSubmit
<1>1. Init => TypeOK /\ SubmitInv
  BY InitTyped, SubmitInitially
<1>2. TypeOK /\ SubmitInv /\ [Next]_vars => (TypeOK /\ SubmitInv)'
  BY NextTyped, SubmitInductive
<1>3. SubmitInv => AtMostOneSubmit
  BY DEF SubmitInv
<1> QED
  BY <1>1, <1>2, <1>3, PTL DEF Spec

-----------------------------------------------------------------------------
\* The run row: the job_id a Run is bound to stays, its fencing token never goes
\* back, and a message is acknowledged only when the row holds the outcome.

Decided == RunState \ {"VALIDATED", "SUBMITTING"}

\* claim_submission by some dispatcher.
ClaimsRow(r) ==
    \E d \in Dispatchers :
        /\ claim[d].run = r /\ CanClaimRun(d)
        /\ runs'[r] = [state |-> "SUBMITTING", jobId |-> NoJob,
                       owner |-> OwnerOf[d], token |-> claim[d].token]

\* The row gets a state past the submission, and a job_id if it had none.
DecidesRow(r) ==
    /\ runs'[r].state \in Decided /\ runs'[r].token = runs[r].token
    /\ runs[r].jobId # NoJob => runs'[r].jobId = runs[r].jobId
    /\ \/ runs'[r].jobId = runs[r].jobId
       \/ runs[r].state = "SUBMITTING"

RowMoves ==
    \A r \in Runs : runs'[r] = runs[r] \/ ClaimsRow(r) \/ DecidesRow(r)

\* Writing a decided state alone is a decision.
LEMMA StateDecides ==
    ASSUME TypeOK, NEW r \in Runs, NEW state \in Decided,
           runs' = [runs EXCEPT ![r].state = state] \/ runs' = runs
    PROVE  \A q \in Runs : runs'[q] = runs[q] \/ DecidesRow(q)
<1>1. CASE runs' = runs
  BY <1>1
<1>2. CASE runs' # runs
  <2>1. runs[r] \in RunRow /\ runs' = [runs EXCEPT ![r].state = state]
    BY <1>2 DEF TypeOK
  <2>2. /\ runs'[r].state = state /\ runs'[r].token = runs[r].token
        /\ runs'[r].jobId = runs[r].jobId
    BY <2>1 DEF TypeOK, RunRow
  <2>3. \A q \in Runs \ {r} : runs'[q] = runs[q]
    BY <2>1 DEF TypeOK
  <2> QED
    BY <2>2, <2>3 DEF DecidesRow
<1> QED
  BY <1>1, <1>2

\* Every step changes a run row by one of its operations, or not at all.
LEMMA NextMoves ==
    ASSUME TypeOK, [Next]_vars
    PROVE  RowMoves
<1> USE DEF RowMoves
<1>1. CASE runs' = runs
  BY <1>1
<1>2. ASSUME NEW d \in Dispatchers, ClaimRun(d) PROVE RowMoves
  <2> DEFINE row == [state |-> "SUBMITTING", jobId |-> NoJob,
                     owner |-> OwnerOf[d], token |-> claim[d].token]
  <2>1. claim[d].run \in Runs
    BY <1>2, BusyFields DEF ClaimRun
  <2>2. CASE runs' = runs
    BY <2>2
  <2>3. CASE runs' # runs
    <3>1. CanClaimRun(d) /\ runs' = [runs EXCEPT ![claim[d].run] = row]
      BY <1>2, <2>3 DEF ClaimRun
    <3>2. runs'[claim[d].run] = row
      BY <2>1, <3>1 DEF TypeOK
    <3>3. \A q \in Runs \ {claim[d].run} : runs'[q] = runs[q]
      BY <3>1 DEF TypeOK
    <3>4. ClaimsRow(claim[d].run)
      BY <3>1, <3>2 DEF ClaimsRow
    <3> QED
      BY <3>3, <3>4
  <2> QED
    BY <2>2, <2>3
<1>3. ASSUME NEW d \in Dispatchers, ApplySubmitReceipt(d) PROVE RowMoves
  <2> DEFINE r == claim[d].run
             row == [state |-> "SUBMITTED", jobId |-> reply[d],
                     owner |-> runs[r].owner, token |-> runs[r].token]
  <2>1. r \in Runs
    BY <1>3, BusyFields DEF ApplySubmitReceipt
  <2>2. CASE runs' = runs
    BY <2>2
  <2>3. CASE runs' # runs
    <3>1. HoldsRun(d) /\ runs' = [runs EXCEPT ![r] = row]
      BY <1>3, <2>3 DEF ApplySubmitReceipt
    <3>2. runs'[r] = row /\ \A q \in Runs \ {r} : runs'[q] = runs[q]
      BY <2>1, <3>1 DEF TypeOK
    <3>3. runs[r].jobId = NoJob /\ runs[r].state = "SUBMITTING"
      BY <3>1 DEF HoldsRun
    <3>4. DecidesRow(r)
      BY <3>2, <3>3 DEF DecidesRow, Decided, RunState
    <3> QED
      BY <3>2, <3>4
  <2> QED
    BY <2>2, <2>3
<1>4. ASSUME NEW d \in Dispatchers, FailSubmission(d) PROVE RowMoves
  <2>1. claim[d].run \in Runs
    BY <1>4, BusyFields DEF FailSubmission
  <2>2. \E state \in Decided :
           runs' = [runs EXCEPT ![claim[d].run].state = state] \/ runs' = runs
    BY <1>4 DEF FailSubmission, Decided, RunState
  <2> QED
    BY <2>1, <2>2, StateDecides
<1>5. ASSUME NEW r \in Runs, CancelWrite(r) \/ CancelJob(r) PROVE RowMoves
  <2>1. /\ runs' = [runs EXCEPT ![r].state = "CANCELLED"]
        /\ "CANCELLED" \in Decided
    BY <1>5 DEF CancelWrite, CancelJob, Decided, RunState
  <2> QED
    BY <2>1, StateDecides
<1>6. \/ runs' = runs
      \/ \E d \in Dispatchers :
            ClaimRun(d) \/ ApplySubmitReceipt(d) \/ FailSubmission(d)
      \/ \E r \in Runs : CancelWrite(r) \/ CancelJob(r)
  <2>1. ASSUME NEW d \in Dispatchers, Work(d)
        PROVE  \/ runs' = runs
               \/ ClaimRun(d) \/ ApplySubmitReceipt(d) \/ FailSubmission(d)
    BY <2>1 DEF Work, ReadRun, IntentRaises, RereadRun, RenewForSubmit,
       CallSubmit, SubmitAccepted, SubmitRejected, SubmitTransportError,
       CheckLeaseForReceipt, QueryMarker, CallRaises, RetrySubmission,
       AcknowledgeSubmission, HandleException
  <2> QED
    BY <2>1 DEF Next, vars, ClaimSubmissionMessage, Crash, EnqueueSubmission,
       CancelRead, SlurmAccepts, Tick
<1> QED
  BY <1>1, <1>2, <1>3, <1>4, <1>5, <1>6

-----------------------------------------------------------------------------

\* The job_id a Run is bound to never changes: only apply_submit_receipt writes
\* it, and its fence asks for a row that has none.
THEOREM JobBoundOnceAlways == Spec => JobBoundOnce
<1>1. ASSUME TypeOK, [Next]_vars, NEW r \in Runs, runs[r].jobId # NoJob
      PROVE  runs'[r].jobId = runs[r].jobId
  BY <1>1, NextMoves DEF RowMoves, ClaimsRow, CanClaimRun, DecidesRow
<1>2. TypeOK /\ [Next]_vars =>
         [\A r \in Runs : runs[r].jobId # NoJob => runs'[r].jobId = runs[r].jobId]_vars
  BY <1>1
<1> QED
  BY <1>2, TypeInvariant, PTL DEF Spec, JobBoundOnce

\* A row nobody has claimed has the token 0, below every claim's.
Unclaimed == \A r \in Runs : runs[r].state = "VALIDATED" => runs[r].token = 0

\* That a row nobody has claimed has the token 0 is inductive.
LEMMA UnclaimedInductive == TypeOK /\ Unclaimed /\ [Next]_vars => Unclaimed'
<1> SUFFICES ASSUME TypeOK, Unclaimed, [Next]_vars, NEW r \in Runs,
                    runs'[r].state = "VALIDATED"
             PROVE  runs'[r].token = 0
  BY DEF Unclaimed
<1>1. ~ClaimsRow(r)
  <2>1. ClaimsRow(r) => runs'[r].state = "SUBMITTING"
    <3>1. ASSUME NEW owner, NEW token,
                 runs'[r] = [state |-> "SUBMITTING", jobId |-> NoJob,
                             owner |-> owner, token |-> token]
          PROVE  runs'[r].state = "SUBMITTING"
      BY <3>1
    <3> QED
      BY <3>1 DEF ClaimsRow
  <2> QED
    BY <2>1
<1>2. ~DecidesRow(r)
  BY DEF DecidesRow, Decided
<1> QED
  BY <1>1, <1>2, NextMoves DEF RowMoves, Unclaimed

\* The submission_fencing_token of a run row never goes back.
THEOREM RunFenceMonotoneAlways == Spec => RunFenceMonotone
<1>1. Init => Unclaimed
  BY DEF Init, Unclaimed
<1>2. ASSUME TypeOK, Unclaimed, [Next]_vars, NEW r \in Runs
      PROVE  runs'[r].token >= runs[r].token
  <2>1. runs[r].token \in Nat
    BY <1>2 DEF TypeOK, RunRow
  <2>2. CASE ClaimsRow(r)
    <3>1. PICK d \in Dispatchers :
             /\ claim[d].run = r /\ CanClaimRun(d)
             /\ runs'[r] = [state |-> "SUBMITTING", jobId |-> NoJob,
                            owner |-> OwnerOf[d], token |-> claim[d].token]
      BY <2>2 DEF ClaimsRow
    <3>2. runs'[r].token = claim[d].token /\ claim[d].token \in Nat
      BY <1>2, <3>1 DEF TypeOK
    <3>3. runs[r].token = 0 \/ runs[r].token < claim[d].token
      BY <1>2, <3>1 DEF CanClaimRun, Unclaimed
    <3> QED
      BY <2>1, <3>2, <3>3
  <2>3. CASE DecidesRow(r) \/ runs'[r] = runs[r]
    BY <2>1, <2>3 DEF DecidesRow
  <2> QED
    BY <1>2, <2>2, <2>3, NextMoves DEF RowMoves
<1>3. TypeOK /\ Unclaimed /\ [Next]_vars =>
         [\A r \in Runs : runs'[r].token >= runs[r].token]_vars
  BY <1>2
<1> QED
  BY <1>1, <1>3, UnclaimedInductive, TypeInvariant, PTL DEF Spec, RunFenceMonotone

-----------------------------------------------------------------------------
\* Acknowledged means decided.

AckPlaces == {"ack", "ackRaise"}

\* A Run with a job is decided, so is one whose dispatcher is to acknowledge.
DecidedInv ==
    /\ AcknowledgedMeansDecided
    /\ \A r \in Runs : runs[r].jobId # NoJob => runs[r].state \in Decided
    /\ \A d \in Dispatchers : pc[d] \in AckPlaces =>
          runs[claim[d].run].state \in Decided

\* What was decided stays decided.
LEMMA DecidedStays ==
    ASSUME TypeOK, RowMoves, NEW r \in Runs, runs[r].state \in Decided
    PROVE  runs'[r].state \in Decided
<1>1. ~ClaimsRow(r)
  BY DEF ClaimsRow, CanClaimRun, Decided
<1> QED
  BY <1>1 DEF RowMoves, DecidesRow

\* Only a dispatcher that is to acknowledge makes a message succeed.
LEMMA SucceedsByAck ==
    ASSUME TypeOK, [Next]_vars, NEW m \in Messages, outbox'[m].state = "succeeded"
    PROVE  \/ outbox[m].state = "succeeded"
           \/ \E d \in Dispatchers : pc[d] \in AckPlaces /\ claim[d].run = m
<1> DEFINE Cause == \/ outbox[m].state = "succeeded"
                    \/ \E d \in Dispatchers : pc[d] \in AckPlaces /\ claim[d].run = m
<1>1. CASE outbox' = outbox
  BY <1>1
<1>2. ASSUME NEW d \in Dispatchers, NEW r \in Runs, ClaimSubmissionMessage(d, r)
      PROVE  Cause
  <2>1. outbox' = [outbox EXCEPT ![r] = ClaimedRow(outbox[r], OwnerOf[d])]
    BY <1>2 DEF ClaimSubmissionMessage, ClaimMessage
  <2>2. ClaimedRow(outbox[r], OwnerOf[d]).state # "succeeded"
    BY DEF ClaimedRow
  <2> QED
    BY <2>1, <2>2 DEF TypeOK
<1>3. ASSUME NEW d \in Dispatchers, RenewForSubmit(d) PROVE Cause
  <2>1. outbox' = outbox \/ RenewMessage(claim[d].run)
    BY <1>3 DEF RenewForSubmit
  <2>2. claim[d].run \in Messages /\ outbox[claim[d].run] \in Row
    BY <1>3, BusyFields DEF RenewForSubmit
  <2>3. [outbox[claim[d].run] EXCEPT !.leaseLeft = LeaseTicks].state
           = outbox[claim[d].run].state
    BY <2>2 DEF Row
  <2> QED
    BY <2>1, <2>2, <2>3 DEF RenewMessage, TypeOK
<1>4. ASSUME NEW r \in Messages, NEW target \in {"pending", "dead_letter"},
             RetryMessage(r, target)
      PROVE  Cause
  <2>1. PICK delay : outbox' = [outbox EXCEPT ![r] =
                                  FinishedRow(outbox[r], target, delay)]
    BY <1>4 DEF RetryMessage
  <2>2. FinishedRow(outbox[r], target, delay).state # "succeeded"
    BY DEF FinishedRow
  <2> QED
    BY <2>1, <2>2 DEF TypeOK
<1>5. ASSUME NEW d \in Dispatchers, RetrySubmission(d) \/ HandleException(d)
      PROVE  Cause
  <2>1. claim[d].run \in Messages
    BY <1>5, BusyFields DEF RetrySubmission, HandleException
  <2>2. \/ outbox' = outbox
        \/ RetryMessage(claim[d].run, RetryTarget(claim[d].run, MaxAttempts))
    BY <1>5 DEF RetrySubmission, HandleException
  <2> QED
    BY <1>1, <1>4, <2>1, <2>2, TargetTyped
<1>6. ASSUME NEW d \in Dispatchers, AcknowledgeSubmission(d) PROVE Cause
  <2>1. pc[d] \in AckPlaces
    BY <1>6 DEF AcknowledgeSubmission, AckPlaces
  <2>2. outbox' = outbox \/ AcknowledgeMessage(claim[d].run)
    BY <1>6 DEF AcknowledgeSubmission
  <2> QED
    BY <2>1, <2>2 DEF AcknowledgeMessage, TypeOK
<1>7. ASSUME NEW r \in Runs, EnqueueSubmission(r) PROVE Cause
  <2>1. /\ outbox[r] \in Row
        /\ outbox' = [outbox EXCEPT ![r] = [outbox[r] EXCEPT !.state = "pending"]]
    BY <1>7 DEF EnqueueSubmission, InsertMessage, TypeOK, Runs
  <2>2. [outbox[r] EXCEPT !.state = "pending"].state # "succeeded"
    BY <2>1 DEF Row
  <2> QED
    BY <2>1, <2>2 DEF TypeOK
<1>8. CASE Tick
  BY <1>8 DEF Tick, ElapseOutbox, ElapsedRow, TypeOK
<1>9. ASSUME NEW d \in Dispatchers, Work(d) PROVE Cause
  <2>1. \/ outbox' = outbox \/ RenewForSubmit(d) \/ AcknowledgeSubmission(d)
        \/ RetrySubmission(d) \/ HandleException(d)
    BY <1>9 DEF Work, ReadRun, IntentRaises, ClaimRun, RereadRun, CallSubmit,
       SubmitAccepted, SubmitRejected, SubmitTransportError, CheckLeaseForReceipt,
       ApplySubmitReceipt, QueryMarker, CallRaises, FailSubmission
  <2> QED
    BY <2>1, <1>1, <1>3, <1>5, <1>6
<1> QED
  BY <1>1, <1>2, <1>7, <1>8, <1>9
     DEF Next, vars, Crash, CancelRead, CancelWrite, CancelJob, SlurmAccepts

\* A dispatcher comes to acknowledge only once the Run is decided.
LEMMA AckWhenDecided ==
    ASSUME TypeOK, DecidedInv, [Next]_vars, NEW e \in Dispatchers,
           pc'[e] \in AckPlaces
    PROVE  \/ pc[e] = pc'[e] /\ claim'[e] = claim[e]
           \/ claim'[e] = claim[e] /\ runs'[claim[e].run].state \in Decided
<1> DEFINE Goal == \/ pc[e] = pc'[e] /\ claim'[e] = claim[e]
                   \/ claim'[e] = claim[e] /\ runs'[claim[e].run].state \in Decided
<1>1. CASE UNCHANGED <<pc, claim>>
  BY <1>1
<1>2. ASSUME NEW d \in Dispatchers, NEW r \in Runs, ClaimSubmissionMessage(d, r)
      PROVE  Goal
  BY <1>2 DEF ClaimSubmissionMessage, TypeOK, AckPlaces
<1>3. ASSUME NEW d \in Dispatchers, Leave(d) PROVE Goal
  BY <1>3 DEF Leave, TypeOK, AckPlaces
<1>4. ASSUME NEW d \in Dispatchers, NEW place \in PC \ AckPlaces,
             pc' = [pc EXCEPT ![d] = place], claim' = claim
      PROVE  Goal
  BY <1>4 DEF TypeOK
<1>5. ASSUME NEW d \in Dispatchers, d # e, NEW place \in PC,
             pc' = [pc EXCEPT ![d] = place], claim' = claim
      PROVE  Goal
  BY <1>5 DEF TypeOK
<1>6. ASSUME NEW d \in Dispatchers, Work(d) PROVE Goal
  <2>0. pc[d] # "idle" /\ claim[d].run \in Runs
    <3>1. pc[d] # "idle"
      BY <1>6 DEF Work, ReadRun, IntentRaises, ClaimRun, RereadRun, RenewForSubmit,
         CallSubmit, SubmitAccepted, SubmitRejected, SubmitTransportError,
         CheckLeaseForReceipt, ApplySubmitReceipt, QueryMarker, CallRaises,
         RetrySubmission, FailSubmission, AcknowledgeSubmission, HandleException
    <3> QED
      BY <3>1, BusyFields
  <2>1. CASE ReadRun(d)
    <3>1. /\ pc' = [pc EXCEPT ![d] = AfterRead(runs[claim[d].run])]
          /\ claim' = claim /\ runs' = runs
      BY <2>1 DEF ReadRun, Goto
    <3>2. AfterRead(runs[claim[d].run]) \in AckPlaces =>
             runs[claim[d].run].state \in Decided
      <4>1. CASE \/ runs[claim[d].run].jobId # NoJob
                 \/ runs[claim[d].run].state \in {"SUBMIT_FAILED", "SUBMISSION_UNCERTAIN"}
        BY <2>0, <4>1 DEF DecidedInv, Decided, RunState
      <4>2. CASE ~(\/ runs[claim[d].run].jobId # NoJob
                   \/ runs[claim[d].run].state \in {"SUBMIT_FAILED", "SUBMISSION_UNCERTAIN"})
        <5>1. AfterRead(runs[claim[d].run]) \in {"intent", "replay", "retryRaise"}
          BY <4>2 DEF AfterRead
        <5> QED
          BY <5>1 DEF AckPlaces
      <4> QED
        BY <4>1, <4>2
    <3>3. CASE d = e
      <4>1. pc'[e] = AfterRead(runs[claim[d].run])
        BY <3>1, <3>3 DEF TypeOK
      <4> QED
        BY <3>1, <3>2, <3>3, <4>1
    <3>4. CASE d # e
      BY <3>1, <3>4 DEF TypeOK
    <3> QED
      BY <3>3, <3>4
  <2>2. CASE RereadRun(d)
    <3>1. /\ claim' = claim /\ runs' = runs
          /\ \E place \in {"ack", "raised"} :
                /\ pc' = [pc EXCEPT ![d] = place]
                /\ place = "ack" => runs[claim[d].run].jobId # NoJob
      BY <2>2 DEF RereadRun, Goto
    <3> QED
      BY <2>0, <3>1 DEF TypeOK, AckPlaces, DecidedInv
  <2>3. CASE ApplySubmitReceipt(d)
    <3>1. CASE runs' = runs
      BY <2>3, <3>1, <1>4, <2>0 DEF ApplySubmitReceipt, Goto, PC, AckPlaces,
         HoldsRun, TypeOK
    <3>2. CASE runs' # runs
      <4>1. /\ claim' = claim /\ pc' = [pc EXCEPT ![d] = "ack"]
            /\ \E row : /\ runs' = [runs EXCEPT ![claim[d].run] = row]
                        /\ row.state \in Decided
        BY <2>3, <3>2 DEF ApplySubmitReceipt, Goto, Decided, RunState
      <4> QED
        BY <2>0, <4>1 DEF TypeOK
    <3> QED
      BY <3>1, <3>2
  <2>4. CASE FailSubmission(d)
    <3>1. CASE HoldsRun(d)
      <4>1. /\ claim' = claim
            /\ \E place \in PC : pc' = [pc EXCEPT ![d] = place]
            /\ \E state \in Decided :
                  runs' = [runs EXCEPT ![claim[d].run].state = state]
        BY <2>4, <3>1 DEF FailSubmission, Goto, PC, Decided, RunState
      <4>2. runs'[claim[d].run].state \in Decided
        <5>1. runs[claim[d].run] \in RunRow
          BY <2>0 DEF TypeOK
        <5> QED
          BY <2>0, <4>1, <5>1 DEF TypeOK, RunRow
      <4> QED
        BY <4>1, <4>2 DEF TypeOK
    <3>2. CASE ~HoldsRun(d)
      BY <2>4, <3>2, <1>4 DEF FailSubmission, Goto, PC, AckPlaces
    <3> QED
      BY <3>1, <3>2
  <2>5. CASE AcknowledgeSubmission(d) \/ HandleException(d)
    BY <2>5, <1>3, <1>4 DEF AcknowledgeSubmission, HandleException, Goto, PC, AckPlaces
  <2>6. CASE \/ IntentRaises(d) \/ ClaimRun(d) \/ RenewForSubmit(d)
             \/ CallSubmit(d) \/ SubmitAccepted(d) \/ SubmitRejected(d)
             \/ SubmitTransportError(d) \/ CheckLeaseForReceipt(d)
             \/ QueryMarker(d) \/ CallRaises(d) \/ RetrySubmission(d)
    <3>1. \E place \in PC \ AckPlaces :
             pc' = [pc EXCEPT ![d] = place] /\ claim' = claim
      BY <2>6 DEF IntentRaises, ClaimRun, RenewForSubmit, CallSubmit,
         SubmitAccepted, SubmitRejected, SubmitTransportError,
         CheckLeaseForReceipt, QueryMarker, AfterQuery, AfterClaim, CallRaises,
         RetrySubmission, Goto, PC, AckPlaces
    <3> QED
      BY <1>4, <3>1
  <2> QED
    BY <1>6, <2>1, <2>2, <2>3, <2>4, <2>5, <2>6 DEF Work
<1>7. ASSUME NEW d \in Dispatchers, Crash(d) PROVE Goal
  BY <1>3, <1>7 DEF Crash
<1> QED
  BY <1>1, <1>2, <1>6, <1>7
     DEF Next, vars, dvars, EnqueueSubmission, CancelRead, CancelWrite, CancelJob,
         SlurmAccepts, Tick

\* The invariant behind AcknowledgedMeansDecided is inductive.
LEMMA DecidedInductive == TypeOK /\ TypeOK' /\ DecidedInv /\ [Next]_vars => DecidedInv'
<1> SUFFICES ASSUME TypeOK, TypeOK', DecidedInv, [Next]_vars PROVE DecidedInv'
  OBVIOUS
<1>0. RowMoves
  BY NextMoves
<1>1. ASSUME NEW r \in Runs, outbox'[r].state = "succeeded"
      PROVE  runs'[r].state \in Decided
  <2>1. runs[r].state \in Decided
    <3>1. CASE outbox[r].state = "succeeded"
      BY <3>1 DEF DecidedInv, AcknowledgedMeansDecided, Decided, TypeOK, RunRow
    <3>2. CASE \E d \in Dispatchers : pc[d] \in AckPlaces /\ claim[d].run = r
      BY <3>2 DEF DecidedInv
    <3> QED
      BY <1>1, <3>1, <3>2, SucceedsByAck DEF Runs
  <2> QED
    BY <1>0, <2>1, DecidedStays
<1>2. ASSUME NEW r \in Runs, runs'[r].jobId # NoJob
      PROVE  runs'[r].state \in Decided
  <2>1. CASE ClaimsRow(r)
    <3>1. \E owner, token :
             runs'[r] = [state |-> "SUBMITTING", jobId |-> NoJob,
                         owner |-> owner, token |-> token]
      BY <2>1 DEF ClaimsRow
    <3> QED
      BY <1>2, <3>1
  <2>2. CASE DecidesRow(r) \/ runs'[r] = runs[r]
    BY <1>2, <2>2 DEF DecidesRow, DecidedInv
  <2> QED
    BY <1>0, <2>1, <2>2 DEF RowMoves
<1>3. ASSUME NEW d \in Dispatchers, pc'[d] \in AckPlaces
      PROVE  runs'[claim'[d].run].state \in Decided
  <2>1. CASE pc[d] = pc'[d] /\ claim'[d] = claim[d]
    <3>1. claim[d].run \in Runs
      BY <1>3, <2>1, BusyFields DEF AckPlaces
    <3>2. runs[claim[d].run].state \in Decided
      BY <1>3, <2>1 DEF DecidedInv
    <3> QED
      BY <1>0, <2>1, <3>1, <3>2, DecidedStays
  <2>2. CASE claim'[d] = claim[d] /\ runs'[claim[d].run].state \in Decided
    BY <2>2
  <2> QED
    BY <1>3, <2>1, <2>2, AckWhenDecided
<1> QED
  BY <1>1, <1>2, <1>3 DEF DecidedInv, AcknowledgedMeansDecided, Decided

\* A message is acknowledged only after the outcome is in the run row.
THEOREM AcknowledgedMeansDecidedAlways == Spec => []AcknowledgedMeansDecided
<1>1. Init => DecidedInv
  BY DEF Init, OutboxInit, NoRow, DecidedInv, AcknowledgedMeansDecided, AckPlaces, Runs
<1>2. DecidedInv => AcknowledgedMeansDecided
  BY DEF DecidedInv
<1> QED
  BY <1>1, <1>2, DecidedInductive, TypeInvariant, PTL DEF Spec

-----------------------------------------------------------------------------
\* RunSubmission implements AtMostOnceSubmission.

CallMap    == [r \in Runs |-> CallOf(r)]
JobMap     == [r \in Runs |-> ElementOf(r)]
DecidedMap == {r \in Runs : runs[r].state \notin {"VALIDATED", "SUBMITTING"}}
SettledMap == {r \in Runs : outbox[r].state = "succeeded"}

\* Slurm answers only calls that were made, and a dispatcher that is about to
\* record a job has been shown one of its Run.
PromiseInv ==
    /\ \A r \in Runs : inflight[r] \subseteq sent[r] /\ landed[r] \subseteq sent[r]
    /\ \A d \in Dispatchers : pc[d] \in {"checkLease", "receipt"} =>
          reply[d] = NoJob \/ landed[claim[d].run] # {}

\* The calls stay what they are when Slurm's state does.
LEMMA CallsKept == UNCHANGED slurm => CallMap' = CallMap
  BY DEF CallMap, CallOf, slurm

\* Job and verdict stay what they are when the rows do.
LEMMA RowsKept == UNCHANGED runs => JobMap' = JobMap /\ DecidedMap' = DecidedMap
  BY DEF JobMap, DecidedMap, ElementOf

\* claim_submission finds no job and no verdict, and leaves none.
LEMMA ClaimRunKept ==
    ASSUME TypeOK, NEW d \in Dispatchers, ClaimRun(d)
    PROVE  JobMap' = JobMap /\ DecidedMap' = DecidedMap
<1>1. claim[d].run \in Runs
  BY BusyFields DEF ClaimRun
<1>2. CASE UNCHANGED runs
  BY <1>2, RowsKept
<1>3. CASE ~UNCHANGED runs
  <2>1. PICK row : /\ runs' = [runs EXCEPT ![claim[d].run] = row]
                   /\ row.state = "SUBMITTING" /\ row.jobId = NoJob
    BY <1>3 DEF ClaimRun
  <2>2. /\ runs[claim[d].run].jobId = NoJob
        /\ runs[claim[d].run].state \in {"VALIDATED", "SUBMITTING"}
    BY <1>3 DEF ClaimRun, CanClaimRun
  <2>3. \A r \in Runs : /\ runs'[r].jobId = runs[r].jobId
                        /\ runs'[r].state \in {"VALIDATED", "SUBMITTING"}
                              <=> runs[r].state \in {"VALIDATED", "SUBMITTING"}
    BY <1>1, <2>1, <2>2 DEF TypeOK
  <2> QED
    BY <2>3 DEF JobMap, DecidedMap, ElementOf
<1> QED
  BY <1>2, <1>3

\* A verdict without a job of its own gives up, or repeats what was decided.
LEMMA VerdictGivesUp ==
    ASSUME TypeOK, NEW r \in Runs, NEW state \in Decided,
           runs' = [runs EXCEPT ![r].state = state]
    PROVE  JobMap' = JobMap /\ DecidedMap' = DecidedMap \cup {r}
<1>1. runs[r] \in RunRow
  BY DEF TypeOK
<1>2. runs'[r].state = state /\ runs'[r].jobId = runs[r].jobId
  BY <1>1 DEF TypeOK, RunRow
<1>3. \A q \in Runs \ {r} : runs'[q] = runs[q]
  BY DEF TypeOK
<1>4. state \notin {"VALIDATED", "SUBMITTING"}
  BY DEF Decided
<1>5. JobMap' = JobMap
  BY <1>2, <1>3 DEF JobMap, ElementOf
<1>6. DecidedMap' = DecidedMap \cup {r}
  BY <1>2, <1>3, <1>4 DEF DecidedMap
<1> QED
  BY <1>5, <1>6

\* Only an acknowledgement makes a message succeed, and nothing undoes it.
LEMMA SettledKept ==
    ASSUME TypeOK,
           \/ outbox' = outbox
           \/ \E m \in Messages : InsertMessage(m) \/ RenewMessage(m)
           \/ \E m \in Messages, owner \in Owners : ClaimMessage(m, owner)
           \/ \E m \in Messages, target \in {"pending", "dead_letter"} :
                 outbox[m].state = "running" /\ RetryMessage(m, target)
           \/ ElapseOutbox
    PROVE  SettledMap' = SettledMap
<1> USE DEF SettledMap
<1>1. \A m \in Messages : outbox[m] \in Row
  BY DEF TypeOK
<1>2. CASE outbox' = outbox
  BY <1>2
<1>3. ASSUME NEW m \in Messages, NEW row \in Row,
             outbox' = [outbox EXCEPT ![m] = row],
             row.state # "succeeded", outbox[m].state # "succeeded"
      PROVE  SettledMap' = SettledMap
  BY <1>3 DEF TypeOK
<1>4. ASSUME NEW m \in Messages, InsertMessage(m) \/ RenewMessage(m)
      PROVE  SettledMap' = SettledMap
  <2>1. CASE InsertMessage(m)
    <3>1. outbox'[m].state = "pending" /\ outbox[m].state = "absent"
      BY <1>1, <2>1 DEF InsertMessage, TypeOK, Row
    <3>2. \A q \in Messages \ {m} : outbox'[q] = outbox[q]
      BY <2>1 DEF InsertMessage, TypeOK
    <3> QED
      BY <3>1, <3>2 DEF Runs
  <2>2. CASE RenewMessage(m)
    <3>1. \A q \in Messages : outbox'[q].state = outbox[q].state
      BY <1>1, <2>2 DEF RenewMessage, TypeOK, Row
    <3> QED
      BY <3>1 DEF Runs
  <2> QED
    BY <1>4, <2>1, <2>2
<1>5. ASSUME NEW m \in Messages, NEW owner \in Owners, ClaimMessage(m, owner)
      PROVE  SettledMap' = SettledMap
  <2>1. /\ outbox' = [outbox EXCEPT ![m] = ClaimedRow(outbox[m], owner)]
        /\ outbox[m].state # "succeeded"
    BY <1>5 DEF ClaimMessage, Claimable
  <2>2. /\ ClaimedRow(outbox[m], owner) \in Row
        /\ ClaimedRow(outbox[m], owner).state # "succeeded"
    BY <1>1, RowSteps DEF ClaimedRow
  <2> QED
    BY <1>3, <2>1, <2>2
<1>6. ASSUME NEW m \in Messages, NEW target \in {"pending", "dead_letter"},
             outbox[m].state = "running", RetryMessage(m, target)
      PROVE  SettledMap' = SettledMap
  <2> DEFINE delay == IF target = "pending" THEN RetryTicks ELSE 0
  <2>1. /\ outbox' = [outbox EXCEPT ![m] = FinishedRow(outbox[m], target, delay)]
        /\ outbox[m].state # "succeeded"
    BY <1>6 DEF RetryMessage
  <2>2. /\ FinishedRow(outbox[m], target, delay) \in Row
        /\ FinishedRow(outbox[m], target, delay).state # "succeeded"
    <3>1. delay \in Nat /\ target \in MessageState
      BY RetryAssumption DEF MessageState
    <3>2. FinishedRow(outbox[m], target, delay) \in Row
      BY <1>1, <3>1, RowSteps
    <3>3. FinishedRow(outbox[m], target, delay).state = target
      BY DEF FinishedRow
    <3> QED
      BY <3>2, <3>3
  <2> QED
    BY <1>3, <2>1, <2>2
<1>7. CASE ElapseOutbox
  <2>1. \A m \in Messages : outbox'[m].state = outbox[m].state
    BY <1>7 DEF ElapseOutbox, ElapsedRow
  <2> QED
    BY <2>1 DEF Runs
<1> QED
  BY <1>2, <1>4, <1>5, <1>6, <1>7

ReceiptPlaces == {"checkLease", "receipt"}

\* Jobs stay, and calls are answered only once made.
LEMMA CallsInductive ==
    ASSUME TypeOK, PromiseInv, [Next]_vars
    PROVE  \A r \in Runs : /\ landed[r] \subseteq landed'[r]
                           /\ inflight'[r] \subseteq sent'[r]
                           /\ landed'[r] \subseteq sent'[r]
<1> DEFINE Goal == \A r \in Runs : /\ landed[r] \subseteq landed'[r]
                                   /\ inflight'[r] \subseteq sent'[r]
                                   /\ landed'[r] \subseteq sent'[r]
<1>1. CASE UNCHANGED slurm
  BY <1>1 DEF slurm, PromiseInv
<1>2. ASSUME NEW d \in Dispatchers, CallSubmit(d) PROVE Goal
  <2>1. claim[d].run \in Runs
    BY <1>2, BusyFields DEF CallSubmit
  <2> QED
    BY <1>2, <2>1 DEF CallSubmit, PromiseInv, TypeOK
<1>3. ASSUME NEW d \in Dispatchers, SubmitRejected(d) PROVE Goal
  BY <1>3 DEF SubmitRejected, PromiseInv, TypeOK
<1>4. ASSUME NEW r \in Runs, NEW t \in inflight[r], SlurmAccepts(r, t) PROVE Goal
  BY <1>4 DEF SlurmAccepts, PromiseInv, TypeOK
<1>5. ASSUME NEW d \in Dispatchers, Work(d) PROVE Goal
  <2>1. UNCHANGED slurm \/ CallSubmit(d) \/ SubmitRejected(d)
    BY <1>5 DEF Work, ReadRun, IntentRaises, ClaimRun, RereadRun, RenewForSubmit,
       SubmitAccepted, SubmitTransportError, CheckLeaseForReceipt,
       ApplySubmitReceipt, QueryMarker, CallRaises, RetrySubmission,
       FailSubmission, AcknowledgeSubmission, HandleException
  <2> QED
    BY <1>1, <1>2, <1>3, <2>1
<1> QED
  BY <1>1, <1>4, <1>5
     DEF Next, vars, slurm, ClaimSubmissionMessage, Crash, EnqueueSubmission,
         CancelRead, CancelWrite, CancelJob, Tick

\* A dispatcher comes by a receipt from Slurm only.
LEMMA ReceiptSteps ==
    ASSUME TypeOK, [Next]_vars, NEW e \in Dispatchers, pc'[e] \in ReceiptPlaces
    PROVE  /\ claim'[e] = claim[e] /\ claim[e].run \in Runs
           /\ \/ pc[e] \in ReceiptPlaces /\ reply'[e] = reply[e]
              \/ reply'[e] = NoJob \/ landed[claim[e].run] # {}
<1> DEFINE Goal == /\ claim'[e] = claim[e] /\ claim[e].run \in Runs
                   /\ \/ pc[e] \in ReceiptPlaces /\ reply'[e] = reply[e]
                      \/ reply'[e] = NoJob \/ landed[claim[e].run] # {}
<1>0. pc[e] # "idle" => claim[e].run \in Runs
  BY BusyFields
<1>1. CASE pc'[e] = pc[e] /\ claim'[e] = claim[e] /\ reply'[e] = reply[e]
  BY <1>0, <1>1 DEF ReceiptPlaces
<1>2. ASSUME NEW d \in Dispatchers, NEW r \in Runs, ClaimSubmissionMessage(d, r)
      PROVE  Goal
  BY <1>1, <1>2 DEF ClaimSubmissionMessage, TypeOK, ReceiptPlaces
<1>3. ASSUME NEW d \in Dispatchers, Leave(d) PROVE Goal
  BY <1>1, <1>3 DEF Leave, TypeOK, ReceiptPlaces
<1>4. ASSUME NEW d \in Dispatchers, NEW place \in PC \ ReceiptPlaces,
             pc' = [pc EXCEPT ![d] = place], claim' = claim, reply' = reply
      PROVE  Goal
  BY <1>1, <1>4 DEF TypeOK
<1>5. ASSUME NEW d \in Dispatchers, Work(d) PROVE Goal
  <2>1. CASE SubmitAccepted(d)
    BY <1>0, <1>1, <2>1 DEF SubmitAccepted, TypeOK
  <2>2. CASE QueryMarker(d)
    <3>1. PICK found \in SUBSET (landed[claim[d].run] \X (1..Elements)) :
             reply' = [reply EXCEPT ![d] =
                         IF \E job \in found : found = {job}
                         THEN CHOOSE job \in found : found = {job} ELSE NoJob]
      BY <2>2 DEF QueryMarker
    <3>2. landed[claim[d].run] = {} => found = {}
      OBVIOUS
    <3>3. landed[claim[d].run] = {} => reply'[d] = NoJob
      BY <3>1, <3>2 DEF TypeOK
    <3>4. \E place \in PC : pc' = [pc EXCEPT ![d] = place]
      BY <2>2 DEF QueryMarker, AfterQuery, PC
    <3>5. pc[d] = "query" /\ claim' = claim
      BY <2>2 DEF QueryMarker
    <3> QED
      BY <1>0, <1>1, <3>1, <3>3, <3>4, <3>5 DEF TypeOK
  <2>3. CASE CheckLeaseForReceipt(d)
    BY <1>0, <1>1, <2>3 DEF CheckLeaseForReceipt, Goto, TypeOK, ReceiptPlaces
  <2>4. CASE ReadRun(d)
    <3>1. AfterRead(runs[claim[d].run]) \in {"ack", "intent", "replay", "retryRaise"}
      BY DEF AfterRead
    <3> QED
      BY <2>4, <3>1, <1>4 DEF ReadRun, Goto, PC, ReceiptPlaces
  <2>5. CASE \/ IntentRaises(d) \/ ClaimRun(d) \/ RereadRun(d) \/ RenewForSubmit(d)
             \/ CallSubmit(d) \/ SubmitRejected(d) \/ SubmitTransportError(d)
             \/ ApplySubmitReceipt(d) \/ CallRaises(d) \/ RetrySubmission(d)
             \/ FailSubmission(d)
    <3>1. /\ claim' = claim /\ reply' = reply
          /\ \E place \in PC \ ReceiptPlaces : pc' = [pc EXCEPT ![d] = place]
      BY <2>5 DEF IntentRaises, ClaimRun, RereadRun, RenewForSubmit, CallSubmit,
         SubmitRejected, SubmitTransportError, ApplySubmitReceipt, CallRaises,
         RetrySubmission, FailSubmission, AfterClaim, Goto, PC, ReceiptPlaces
    <3> QED
      BY <1>4, <3>1
  <2>6. CASE AcknowledgeSubmission(d) \/ HandleException(d)
    BY <2>6, <1>3, <1>4
       DEF AcknowledgeSubmission, HandleException, Goto, PC, ReceiptPlaces
  <2> QED
    BY <1>5, <2>1, <2>2, <2>3, <2>4, <2>5, <2>6 DEF Work
<1>6. ASSUME NEW d \in Dispatchers, Crash(d) PROVE Goal
  BY <1>3, <1>6 DEF Crash
<1> QED
  BY <1>1, <1>2, <1>5, <1>6
     DEF Next, vars, dvars, EnqueueSubmission, CancelRead, CancelWrite, CancelJob,
         SlurmAccepts, Tick

\* The invariant the refinement needs is inductive.
LEMMA PromiseInductive == TypeOK /\ PromiseInv /\ [Next]_vars => PromiseInv'
<1> SUFFICES ASSUME TypeOK, PromiseInv, [Next]_vars PROVE PromiseInv'
  OBVIOUS
<1>1. ASSUME NEW d \in Dispatchers, pc'[d] \in ReceiptPlaces
      PROVE  reply'[d] = NoJob \/ landed'[claim'[d].run] # {}
  BY <1>1, ReceiptSteps, CallsInductive DEF PromiseInv, ReceiptPlaces
<1> QED
  BY <1>1, CallsInductive DEF PromiseInv, ReceiptPlaces

\* A step as the maps show it: a call or its answer, a verdict with or without a
\* job, an acknowledgement, or nothing.
CallMoves(r) ==
    /\ UNCHANGED <<JobMap, DecidedMap, SettledMap>>
    /\ \/ /\ CallMap[r] = "none"
          /\ CallMap' = [CallMap EXCEPT ![r] = "made"]
       \/ /\ CallMap[r] = "made"
          /\ \E answer \in {"accepted", "refused"} :
                CallMap' = [CallMap EXCEPT ![r] = answer]

VerdictMoves(r) ==
    /\ UNCHANGED <<CallMap, SettledMap>>
    /\ DecidedMap' = DecidedMap \cup {r}
    /\ \/ JobMap' = JobMap
       \/ /\ CallMap[r] = "accepted" /\ JobMap[r] = 0 /\ r \notin DecidedMap
          /\ \E element \in 1..Elements :
                JobMap' = [JobMap EXCEPT ![r] = element]

SettleMoves(r) ==
    /\ UNCHANGED <<CallMap, JobMap, DecidedMap>>
    /\ r \in DecidedMap /\ SettledMap' = SettledMap \cup {r}

MapMoves ==
    \/ UNCHANGED <<CallMap, JobMap, DecidedMap, SettledMap>>
    \/ \E r \in Runs : CallMoves(r) \/ VerdictMoves(r) \/ SettleMoves(r)

\* Such a step is one of the abstract specification, or a stutter.
LEMMA MapMovesPromised == MapMoves => [Promise!Next]_Promise!vars
<1> USE DEF CallMap, JobMap, DecidedMap, SettledMap
<1>1. CASE UNCHANGED <<CallMap, JobMap, DecidedMap, SettledMap>>
  BY <1>1 DEF Promise!vars
<1>2. ASSUME NEW r \in Runs, CallMoves(r) PROVE Promise!Next
  BY <1>2 DEF CallMoves, Promise!Next, Promise!Call, Promise!Answer
<1>3. ASSUME NEW r \in Runs,
             UNCHANGED <<CallMap, SettledMap>>,
             DecidedMap' = DecidedMap \cup {r}, JobMap' = JobMap
      PROVE  Promise!Next \/ UNCHANGED <<CallMap, JobMap, DecidedMap, SettledMap>>
  <2>1. CASE r \in DecidedMap
    <3>1. DecidedMap' = DecidedMap
      BY <1>3, <2>1
    <3> QED
      BY <1>3, <3>1
  <2>2. CASE r \notin DecidedMap
    BY <1>3, <2>2 DEF Promise!Next, Promise!GiveUp
  <2> QED
    BY <2>1, <2>2
<1>4. ASSUME NEW r \in Runs, NEW element \in 1..Elements,
             UNCHANGED <<CallMap, SettledMap>>,
             DecidedMap' = DecidedMap \cup {r}, r \notin DecidedMap,
             CallMap[r] = "accepted", JobMap[r] = 0,
             JobMap' = [JobMap EXCEPT ![r] = element]
      PROVE  Promise!Next
  BY <1>4 DEF Promise!Next, Promise!Bind
<1>5. ASSUME NEW r \in Runs, SettleMoves(r) PROVE Promise!Next
  BY <1>5 DEF SettleMoves, Promise!Next, Promise!Settle
<1>6. ASSUME NEW r \in Runs, VerdictMoves(r)
      PROVE  Promise!Next \/ UNCHANGED <<CallMap, JobMap, DecidedMap, SettledMap>>
  <2>1. CASE JobMap' = JobMap
    BY <1>3, <1>6, <2>1 DEF VerdictMoves
  <2>2. CASE JobMap' # JobMap
    BY <1>4, <1>6, <2>2 DEF VerdictMoves
  <2> QED
    BY <2>1, <2>2
<1> QED
  BY <1>1, <1>2, <1>5, <1>6 DEF MapMoves

\* What the map of the calls says, before a step and after it.
LEMMA CallMapIs ==
    ASSUME NEW r \in Runs
    PROVE  /\ landed[r] # {} => CallMap[r] = "accepted"
           /\ landed[r] = {} /\ inflight[r] # {} => CallMap[r] = "made"
           /\ landed'[r] # {} => CallMap'[r] = "accepted"
           /\ landed'[r] = {} /\ inflight'[r] # {} => CallMap'[r] = "made"
<1>1. CallMap[r] = CallOf(r) /\ CallMap'[r] = CallOf(r)'
  BY DEF CallMap
<1>2. landed[r] # {} => CallOf(r) = "accepted"
  BY DEF CallOf
<1>3. landed[r] = {} /\ inflight[r] # {} => CallOf(r) = "made"
  BY DEF CallOf
<1>4. landed'[r] # {} => CallOf(r)' = "accepted"
  BY DEF CallOf
<1>5. landed'[r] = {} /\ inflight'[r] # {} => CallOf(r)' = "made"
  BY DEF CallOf
<1> QED
  BY <1>1, <1>2, <1>3, <1>4, <1>5

\* Every step is, for the mapped variables, a step of AtMostOnceSubmission or a
\* stutter.
LEMMA NextMapped ==
    ASSUME TypeOK, SubmitInv, DecidedInv, PromiseInv, [Next]_vars
    PROVE  MapMoves
<1> USE DEF MapMoves
<1>1. ASSUME UNCHANGED slurm, UNCHANGED <<JobMap, DecidedMap, SettledMap>>
      PROVE  MapMoves
  BY <1>1, CallsKept
<1>2. ASSUME NEW r \in Runs, NEW state \in Decided,
             runs' = [runs EXCEPT ![r].state = state], UNCHANGED <<outbox, slurm>>
      PROVE  MapMoves
  BY <1>2, CallsKept, SettledKept, VerdictGivesUp DEF VerdictMoves
<1>3. ASSUME NEW d \in Dispatchers, CallSubmit(d) PROVE MapMoves
  <2> DEFINE r == claim[d].run
  <2>1. r \in Runs /\ Fresh(d)
    BY <1>3, BusyFields DEF CallSubmit, Fresh
  <2>2. sent[r] = {}
    BY <1>3, <2>1 DEF SubmitInv, SentIsLast, CallSubmit
  <2>3. inflight[r] = {} /\ landed[r] = {}
    BY <2>1, <2>2 DEF PromiseInv
  <2>4. CallMap[r] = "none"
    BY <2>1, <2>2, <2>3 DEF CallMap, CallOf
  <2>5. /\ inflight'[r] # {} /\ landed' = landed
        /\ \A q \in Runs \ {r} : inflight'[q] = inflight[q] /\ sent'[q] = sent[q]
    BY <1>3, <2>1 DEF CallSubmit, TypeOK
  <2>6. CallMap' = [CallMap EXCEPT ![r] = "made"]
    <3>1. \A q \in Runs \ {r} : CallMap'[q] = CallMap[q]
      BY <2>5 DEF CallMap, CallOf
    <3>2. CallMap'[r] = "made"
      BY <2>1, <2>3, <2>5, CallMapIs
    <3> QED
      BY <2>1, <3>1, <3>2 DEF CallMap
  <2>7. UNCHANGED <<JobMap, DecidedMap, SettledMap>>
    BY <1>3, RowsKept, SettledKept DEF CallSubmit
  <2> QED
    BY <2>1, <2>4, <2>6, <2>7 DEF CallMoves
<1>4. ASSUME NEW d \in Dispatchers, SubmitRejected(d) PROVE MapMoves
  <2> DEFINE r == claim[d].run
  <2>1. /\ r \in Runs
        /\ (inflight[r] # {} /\ sent[r] # {}) \/ inflight' = inflight
    BY <1>4, BusyFields DEF SubmitRejected, PromiseInv
  <2>2. /\ sent' = sent /\ landed' = landed
        /\ \A q \in Runs \ {r} : inflight'[q] = inflight[q]
    BY <1>4, <2>1 DEF SubmitRejected, TypeOK
  <2>3. \A q \in Runs \ {r} : CallMap'[q] = CallMap[q]
    BY <2>2 DEF CallMap, CallOf
  <2>4. \/ CallMap'[r] = CallMap[r]
        \/ CallMap[r] = "made" /\ CallMap'[r] = "refused"
    BY <2>1, <2>2 DEF CallMap, CallOf
  <2>5. \/ CallMap' = CallMap
        \/ CallMap[r] = "made" /\ CallMap' = [CallMap EXCEPT ![r] = "refused"]
    BY <2>1, <2>3, <2>4 DEF CallMap
  <2>6. UNCHANGED <<JobMap, DecidedMap, SettledMap>>
    BY <1>4, RowsKept, SettledKept DEF SubmitRejected
  <2> QED
    BY <2>1, <2>5, <2>6 DEF CallMoves
<1>5. ASSUME NEW r \in Runs, NEW t \in inflight[r], SlurmAccepts(r, t)
      PROVE  MapMoves
  <2>1. /\ sent' = sent /\ landed'[r] # {}
        /\ \A q \in Runs \ {r} : inflight'[q] = inflight[q] /\ landed'[q] = landed[q]
    BY <1>5 DEF SlurmAccepts, TypeOK
  <2>2. \A q \in Runs \ {r} : CallMap'[q] = CallMap[q]
    BY <2>1 DEF CallMap, CallOf
  <2>3. CallMap[r] \in {"made", "accepted"} /\ CallMap'[r] = "accepted"
    <3>1. inflight[r] # {}
      OBVIOUS
    <3> QED
      BY <2>1, <3>1, CallMapIs
  <2>4. \/ CallMap' = CallMap
        \/ CallMap[r] = "made" /\ CallMap' = [CallMap EXCEPT ![r] = "accepted"]
    BY <2>2, <2>3 DEF CallMap
  <2>5. UNCHANGED <<JobMap, DecidedMap, SettledMap>>
    BY <1>5, RowsKept, SettledKept DEF SlurmAccepts
  <2> QED
    BY <2>4, <2>5 DEF CallMoves
<1>6. ASSUME NEW d \in Dispatchers, ApplySubmitReceipt(d) PROVE MapMoves
  <2> DEFINE r == claim[d].run
             row == [state |-> "SUBMITTED", jobId |-> reply[d],
                     owner |-> runs[r].owner, token |-> runs[r].token]
  <2>0. UNCHANGED <<outbox, slurm>>
    BY <1>6 DEF ApplySubmitReceipt
  <2>1. r \in Runs
    BY <1>6, BusyFields DEF ApplySubmitReceipt
  <2>2. CASE UNCHANGED runs
    BY <1>1, <2>0, <2>2, RowsKept, SettledKept
  <2>3. CASE ~UNCHANGED runs
    <3>1. HoldsRun(d) /\ runs' = [runs EXCEPT ![r] = row]
      BY <1>6, <2>3 DEF ApplySubmitReceipt
    <3>2. runs'[r] = row /\ \A q \in Runs \ {r} : runs'[q] = runs[q]
      BY <2>1, <3>1 DEF TypeOK
    <3>3. r \notin DecidedMap /\ JobMap[r] = 0
      BY <2>1, <3>1 DEF HoldsRun, DecidedMap, JobMap, ElementOf
    <3>4. DecidedMap' = DecidedMap \cup {r}
      BY <2>1, <3>2 DEF DecidedMap
    <3>5. UNCHANGED <<CallMap, SettledMap>>
      BY <2>0, CallsKept, SettledKept
    <3>6. CASE reply[d] = NoJob
      <4>1. \A q \in Runs : ElementOf(q)' = ElementOf(q)
        BY <3>1, <3>2, <3>6 DEF ElementOf, HoldsRun
      <4>2. JobMap' = JobMap
        BY <4>1 DEF JobMap
      <4> QED
        BY <2>1, <3>4, <3>5, <4>2 DEF VerdictMoves
    <3>7. CASE reply[d] # NoJob
      <4>1. landed[r] # {}
        BY <1>6, <3>7 DEF ApplySubmitReceipt, PromiseInv
      <4>2. CallMap[r] = "accepted"
        BY <2>1, <4>1, CallMapIs
      <4>3. reply[d][2] \in 1..Elements
        BY <3>7 DEF TypeOK, JobId
      <4>4. JobMap' = [JobMap EXCEPT ![r] = reply[d][2]]
        <5>1. \A q \in Runs : q # r => JobMap'[q] = JobMap[q]
          BY <3>2 DEF JobMap, ElementOf
        <5>2. \A q \in Runs : q = r => JobMap'[q] = reply[d][2]
          <6>1. runs'[r].jobId = reply[d]
            BY <3>2
          <6> QED
            BY <3>7, <6>1 DEF JobMap, ElementOf
        <5>3. JobMap' = [q \in Runs |-> IF q = r THEN reply[d][2] ELSE JobMap[q]]
          BY <5>1, <5>2 DEF JobMap
        <5> QED
          BY <5>3 DEF JobMap
      <4> QED
        BY <2>1, <3>3, <3>4, <3>5, <4>2, <4>3, <4>4 DEF VerdictMoves
    <3> QED
      BY <3>6, <3>7
  <2> QED
    BY <2>2, <2>3
<1>7. ASSUME NEW d \in Dispatchers, FailSubmission(d) PROVE MapMoves
  <2>0. UNCHANGED <<outbox, slurm>> /\ claim[d].run \in Runs
    BY <1>7, BusyFields DEF FailSubmission
  <2>1. \/ runs' = runs
        \/ \E state \in Decided : runs' = [runs EXCEPT ![claim[d].run].state = state]
    BY <1>7 DEF FailSubmission, Decided, RunState
  <2> QED
    BY <1>1, <1>2, <2>0, <2>1, RowsKept, SettledKept
<1>8. ASSUME NEW r \in Runs, CancelWrite(r) \/ CancelJob(r) PROVE MapMoves
  <2>1. "CANCELLED" \in Decided
    BY DEF Decided, RunState
  <2> QED
    BY <1>2, <1>8, <2>1 DEF CancelWrite, CancelJob
<1>9. ASSUME NEW d \in Dispatchers, AcknowledgeSubmission(d) PROVE MapMoves
  <2> DEFINE r == claim[d].run
  <2>1. r \in Messages /\ r \in Runs
    BY <1>9, BusyFields DEF AcknowledgeSubmission
  <2>2. UNCHANGED <<runs, slurm>>
    BY <1>9 DEF AcknowledgeSubmission
  <2>3. r \in DecidedMap
    BY <1>9, <2>1 DEF AcknowledgeSubmission, AckPlaces, DecidedInv, DecidedMap, Decided
  <2>4. CASE UNCHANGED outbox
    BY <1>1, <2>2, <2>4, RowsKept, SettledKept
  <2>5. CASE AcknowledgeMessage(r)
    <3>1. /\ outbox'[r].state = "succeeded"
          /\ \A q \in Messages \ {r} : outbox'[q] = outbox[q]
      BY <2>1, <2>5 DEF AcknowledgeMessage, FinishedRow, TypeOK
    <3>2. SettledMap' = SettledMap \cup {r}
      BY <2>1, <3>1 DEF SettledMap, Runs
    <3> QED
      BY <2>1, <2>2, <2>3, <3>2, RowsKept, CallsKept DEF SettleMoves
  <2> QED
    BY <1>9, <2>4, <2>5 DEF AcknowledgeSubmission
<1>10. ASSUME NEW d \in Dispatchers,
              RenewForSubmit(d) \/ RetrySubmission(d) \/ HandleException(d)
       PROVE  MapMoves
  <2>1. UNCHANGED <<runs, slurm>> /\ claim[d].run \in Messages
    BY <1>10, BusyFields DEF RenewForSubmit, RetrySubmission, HandleException
  <2>2. \/ outbox' = outbox
        \/ RenewMessage(claim[d].run)
        \/ /\ outbox[claim[d].run].state = "running"
           /\ RetryMessage(claim[d].run, RetryTarget(claim[d].run, MaxAttempts))
    BY <1>10 DEF RenewForSubmit, RetrySubmission, HandleException, HoldsMessage, Holds
  <2>3. SettledMap' = SettledMap
    BY <2>1, <2>2, TargetTyped, SettledKept
  <2> QED
    BY <1>1, <2>1, <2>3, RowsKept
<1>11. ASSUME NEW d \in Dispatchers, ClaimRun(d) PROVE MapMoves
  <2>1. UNCHANGED <<outbox, slurm>>
    BY <1>11 DEF ClaimRun
  <2> QED
    BY <1>1, <1>11, <2>1, ClaimRunKept, SettledKept
<1>12. ASSUME UNCHANGED <<outbox, runs, slurm>> PROVE MapMoves
  BY <1>1, <1>12, RowsKept, SettledKept
<1>13. ASSUME NEW d \in Dispatchers, Work(d) PROVE MapMoves
  <2>1. \/ UNCHANGED <<outbox, runs, slurm>>
        \/ CallSubmit(d) \/ SubmitRejected(d) \/ ApplySubmitReceipt(d)
        \/ FailSubmission(d) \/ AcknowledgeSubmission(d) \/ ClaimRun(d)
        \/ RenewForSubmit(d) \/ RetrySubmission(d) \/ HandleException(d)
    BY <1>13 DEF Work, ReadRun, IntentRaises, RereadRun, SubmitAccepted,
       SubmitTransportError, CheckLeaseForReceipt, QueryMarker, CallRaises
  <2> QED
    BY <1>3, <1>4, <1>6, <1>7, <1>9, <1>10, <1>11, <1>12, <2>1
<1>14. ASSUME NEW d \in Dispatchers, NEW r \in Runs, ClaimSubmissionMessage(d, r)
       PROVE  MapMoves
  <2>1. UNCHANGED <<runs, slurm>> /\ ClaimMessage(r, OwnerOf[d])
    BY <1>14 DEF ClaimSubmissionMessage
  <2>2. r \in Messages /\ OwnerOf[d] \in Owners
    BY OwnerOfAssumption DEF Runs
  <2> QED
    BY <1>1, <2>1, <2>2, RowsKept, SettledKept
<1>15. ASSUME NEW r \in Runs, EnqueueSubmission(r) PROVE MapMoves
  BY <1>1, <1>15, RowsKept, SettledKept DEF EnqueueSubmission, Runs
<1>16. CASE Tick
  BY <1>1, <1>16, RowsKept, SettledKept DEF Tick
<1> QED
  BY <1>5, <1>8, <1>12, <1>13, <1>14, <1>15, <1>16
     DEF Next, vars, slurm, Crash, CancelRead

\* RunSubmission implements AtMostOnceSubmission: whatever happens to
\* dispatchers, leases and messages, a Run is called for once, bound at most
\* once and to a job of that call, judged once, and acknowledged after that.
THEOREM Refinement == Spec => KeepsPromise
<1>1. Init => Promise!Init
  BY DEF Init, OutboxInit, NoRow, Promise!Init, CallOf, ElementOf, Runs
<1>2. Init => TypeOK /\ SubmitInv /\ DecidedInv /\ PromiseInv
  BY InitTyped, SubmitInitially
     DEF Init, OutboxInit, NoRow, DecidedInv, AcknowledgedMeansDecided, AckPlaces,
         PromiseInv, Runs
<1>3. TypeOK /\ SubmitInv /\ DecidedInv /\ PromiseInv /\ [Next]_vars
         => (TypeOK /\ SubmitInv /\ DecidedInv /\ PromiseInv)'
  BY NextTyped, SubmitInductive, DecidedInductive, PromiseInductive
<1>4. TypeOK /\ SubmitInv /\ DecidedInv /\ PromiseInv /\ [Next]_vars
         => [Promise!Next]_Promise!vars
  BY NextMapped, MapMovesPromised
<1> QED
  BY <1>1, <1>2, <1>3, <1>4, PTL DEF Spec, KeepsPromise, Promise!Spec

-----------------------------------------------------------------------------
\* FailedMeansNoJob: while no lease has run out, a dispatcher at work still holds
\* its message, so it gives a submission up only when told that Slurm refused it.

Working == PC \ {"idle", "raised", "failDeadLetter"}

\* The row carries d's claim, and will at least until d's own copy runs out.
OnTime(d) ==
    /\ HoldsMessage(d) /\ lease[d] > 0
    /\ outbox[claim[d].run].leaseLeft >= lease[d]

\* The one call that was made has been refused, or was reported as refused.
Refused(r) ==
    r \in misreported \/ (sent[r] # {} /\ inflight[r] = {} /\ landed[r] = {})

AnsweredOnce == \A r \in Runs : inflight[r] \cap landed[r] = {}

WorkersOnTime == \A d \in Dispatchers : pc[d] \in Working => OnTime(d)

RejectedMeansRefused ==
    \A d \in Dispatchers : pc[d] = "failRejected" => Refused(claim[d].run)

FailedMeansRefused ==
    \A r \in Runs : runs[r].state = "SUBMIT_FAILED" => Refused(r)

FailInv ==
    /\ AnsweredOnce
    /\ overruns = 0 => WorkersOnTime /\ RejectedMeansRefused /\ FailedMeansRefused

\* One dispatcher at a time holds a message.
LEMMA OneHolder ==
    ASSUME TypeOK, ClaimsDistinct, NEW d \in Dispatchers, NEW e \in Dispatchers,
           pc[d] # "idle", HoldsMessage(d), HoldsMessage(e),
           claim[d].run = claim[e].run
    PROVE  d = e
  BY DEF ClaimsDistinct, HoldsMessage, Holds, TypeOK

\* A dispatcher that a step leaves alone, its row included, stays on time.
LEMMA OnTimeKept ==
    ASSUME NEW e \in Dispatchers, OnTime(e),
           claim'[e] = claim[e], lease'[e] = lease[e],
           outbox'[claim[e].run] = outbox[claim[e].run]
    PROVE  OnTime(e)'
  BY DEF OnTime, HoldsMessage, Holds

\* The leases that run out are counted.
LEMMA OverrunsCount ==
    ASSUME TypeOK, [Next]_vars, overruns' = 0
    PROVE  overruns = 0 /\ (Tick => \A d \in Dispatchers : lease[d] # 1)
<1>1. CASE Tick
  <2>1. IsFiniteSet(Overrun)
    <3>1. Overrun \subseteq Dispatchers
      BY DEF Overrun
    <3> QED
      BY <3>1, DispatchersAssumption, FS_Subset
  <2>2. Cardinality(Overrun) \in Nat
    BY <2>1, FS_CardinalityType
  <2>3. overruns = 0 /\ Cardinality(Overrun) = 0
    BY <1>1, <2>2, NumbersAssumption DEF Tick, TypeOK
  <2>4. Overrun = {}
    BY <2>1, <2>3, FS_EmptySet
  <2> QED
    BY <2>3, <2>4 DEF Overrun
<1>2. CASE ~Tick
  <2>1. ASSUME NEW d \in Dispatchers, Work(d) PROVE overruns' = overruns
    BY <2>1 DEF Work, faults, ReadRun, IntentRaises, ClaimRun, RereadRun,
       RenewForSubmit, CallSubmit, SubmitAccepted, SubmitRejected,
       SubmitTransportError, CheckLeaseForReceipt, ApplySubmitReceipt, QueryMarker,
       CallRaises, RetrySubmission, FailSubmission, AcknowledgeSubmission,
       HandleException
  <2> QED
    BY <1>2, <2>1 DEF Next, vars, faults, ClaimSubmissionMessage, Crash,
       EnqueueSubmission, CancelRead, CancelWrite, CancelJob, SlurmAccepts
<1> QED
  BY <1>1, <1>2

\* What a dispatcher holds when it is at a place of its handler.
LEMMA WorkingIsBusy ==
    ASSUME TypeOK, NEW d \in Dispatchers, pc[d] \in Working
    PROVE  /\ pc[d] # "idle" /\ claim[d].run \in Runs /\ claim[d].run \in Messages
           /\ claim[d].token \in Nat /\ lease[d] \in Nat
           /\ outbox[claim[d].run] \in Row
  BY BusyFields DEF Working, TypeOK

\* What d does to the row it holds leaves the other dispatchers on time.
LEMMA OthersOnTime ==
    ASSUME TypeOK, ClaimsDistinct, WorkersOnTime,
           NEW d \in Dispatchers, pc[d] # "idle",
           \/ outbox' = outbox
           \/ /\ HoldsMessage(d)
              /\ \A m \in Messages \ {claim[d].run} : outbox'[m] = outbox[m],
           NEW e \in Dispatchers, e # d, pc[e] \in Working,
           claim'[e] = claim[e], lease'[e] = lease[e]
    PROVE  OnTime(e)'
<1>1. OnTime(e) /\ claim[e].run \in Messages
  BY WorkingIsBusy DEF WorkersOnTime
<1>2. HoldsMessage(d) => claim[e].run # claim[d].run
  BY <1>1, OneHolder DEF OnTime
<1>3. outbox'[claim[e].run] = outbox[claim[e].run]
  BY <1>1, <1>2
<1> QED
  BY <1>1, <1>3, OnTimeKept

\* Dispatchers at work stay on time for as long as no lease runs out.
LEMMA OnTimeInductive ==
    ASSUME TypeOK, TypeOK', ClaimsDistinct, WorkersOnTime, [Next]_vars, overruns' = 0
    PROVE  WorkersOnTime'
<1> SUFFICES ASSUME NEW e \in Dispatchers, pc'[e] \in Working PROVE OnTime(e)'
  BY DEF WorkersOnTime
<1>1. ASSUME NEW d \in Dispatchers, NEW r \in Runs, ClaimSubmissionMessage(d, r)
      PROVE  OnTime(e)'
  <2>1. /\ r \in Messages /\ outbox' = [outbox EXCEPT ![r] = ClaimedRow(outbox[r], OwnerOf[d])]
        /\ Claimable(r)
    BY <1>1 DEF ClaimSubmissionMessage, ClaimMessage, Runs
  <2>2. CASE e = d
    <3>1. /\ claim'[d] = [run |-> r, token |-> outbox'[r].fencingToken]
          /\ lease'[d] = LeaseTicks
      BY <1>1 DEF ClaimSubmissionMessage, TypeOK
    <3>2. outbox'[r] = ClaimedRow(outbox[r], OwnerOf[d])
      BY <2>1 DEF TypeOK
    <3> QED
      BY <2>2, <3>1, <3>2, LeaseAssumption
         DEF OnTime, HoldsMessage, Holds, ClaimedRow
  <2>3. CASE e # d
    <3>1. /\ pc'[e] = pc[e] /\ claim'[e] = claim[e] /\ lease'[e] = lease[e]
      BY <1>1, <2>3 DEF ClaimSubmissionMessage, TypeOK
    <3>2. /\ OnTime(e) /\ claim[e].run \in Messages
          /\ lease[e] \in Nat /\ outbox[claim[e].run] \in Row
      BY <3>1, WorkingIsBusy DEF WorkersOnTime
    <3>3. claim[e].run # r
      BY <2>1, <3>2 DEF OnTime, HoldsMessage, Holds, Claimable, Row
    <3>4. outbox'[claim[e].run] = outbox[claim[e].run]
      BY <2>1, <3>2, <3>3 DEF TypeOK
    <3> QED
      BY <3>1, <3>2, <3>4, OnTimeKept
  <2> QED
    BY <2>2, <2>3
<1>2. ASSUME NEW d \in Dispatchers, RenewForSubmit(d) PROVE OnTime(e)'
  <2>1. /\ pc[d] = "renew" /\ pc[d] \in Working /\ OnTime(d)
        /\ claim[d].run \in Messages /\ outbox[claim[d].run] \in Row
    BY <1>2, WorkingIsBusy DEF RenewForSubmit, WorkersOnTime, Working, PC
  <2>2. Renewable(claim[d].run, OwnerOf[d], claim[d].token)
    BY <2>1, WorkingIsBusy DEF OnTime, HoldsMessage, Renewable, Row
  <2>3. /\ outbox' = [outbox EXCEPT ![claim[d].run].leaseLeft = LeaseTicks]
        /\ lease' = [lease EXCEPT ![d] = LeaseTicks] /\ claim' = claim
        /\ \E place \in PC : pc' = [pc EXCEPT ![d] = place]
    BY <1>2, <2>2 DEF RenewForSubmit, RenewMessage, PC
  <2>4. CASE e = d
    <3>1. /\ outbox'[claim[d].run] = [outbox[claim[d].run] EXCEPT !.leaseLeft = LeaseTicks]
          /\ lease'[d] = LeaseTicks
      BY <2>1, <2>3 DEF TypeOK
    <3> QED
      BY <2>1, <2>3, <2>4, <3>1, LeaseAssumption DEF OnTime, HoldsMessage, Holds, Row
  <2>5. CASE e # d
    <3>1. /\ pc[e] \in Working /\ claim'[e] = claim[e] /\ lease'[e] = lease[e]
          /\ HoldsMessage(d)
          /\ \A m \in Messages \ {claim[d].run} : outbox'[m] = outbox[m]
      BY <2>1, <2>3, <2>5 DEF OnTime, TypeOK
    <3> QED
      BY <2>1, <2>5, <3>1, OthersOnTime
  <2> QED
    BY <2>4, <2>5
<1>3. ASSUME NEW d \in Dispatchers,
             RetrySubmission(d) \/ AcknowledgeSubmission(d) \/ HandleException(d)
      PROVE  OnTime(e)'
  <2>1. /\ pc[d] # "idle" /\ claim[d].run \in Messages
        /\ pc'[d] \notin Working
        /\ \A v \in Dispatchers \ {d} :
              pc'[v] = pc[v] /\ claim'[v] = claim[v] /\ lease'[v] = lease[v]
    BY <1>3, BusyFields DEF RetrySubmission, AcknowledgeSubmission, HandleException,
       Goto, Leave, Working, TypeOK
  <2>2. \/ outbox' = outbox
        \/ /\ HoldsMessage(d)
           /\ \E row : outbox' = [outbox EXCEPT ![claim[d].run] = row]
    BY <1>3 DEF RetrySubmission, AcknowledgeSubmission, HandleException,
       RetryMessage, AcknowledgeMessage
  <2>3. \/ outbox' = outbox
        \/ /\ HoldsMessage(d)
           /\ \A m \in Messages \ {claim[d].run} : outbox'[m] = outbox[m]
    BY <2>1, <2>2 DEF TypeOK
  <2> QED
    BY <2>1, <2>3, OthersOnTime
<1>4. ASSUME NEW d \in Dispatchers, Work(d),
             ~(\/ RenewForSubmit(d) \/ RetrySubmission(d)
               \/ AcknowledgeSubmission(d) \/ HandleException(d))
      PROVE  OnTime(e)'
  <2>1. /\ UNCHANGED <<outbox, claim, lease>>
        /\ pc'[d] \in Working => pc[d] \in Working
        /\ \A v \in Dispatchers \ {d} : pc'[v] = pc[v]
    BY <1>4 DEF Work, Goto, ReadRun, IntentRaises, ClaimRun, RereadRun, CallSubmit,
       SubmitAccepted, SubmitRejected, SubmitTransportError, CheckLeaseForReceipt,
       ApplySubmitReceipt, QueryMarker, CallRaises, FailSubmission, Working, PC, TypeOK
  <2> QED
    BY <2>1, OnTimeKept DEF WorkersOnTime
<1>5. ASSUME NEW d \in Dispatchers, Crash(d) PROVE OnTime(e)'
  <2>1. e # d /\ pc'[e] = pc[e] /\ claim'[e] = claim[e] /\ lease'[e] = lease[e]
    BY <1>5 DEF Crash, Leave, Working, TypeOK
  <2> QED
    BY <1>5, <2>1, OnTimeKept DEF Crash, WorkersOnTime
<1>6. ASSUME NEW r \in Runs, EnqueueSubmission(r) PROVE OnTime(e)'
  <2>1. /\ pc'[e] = pc[e] /\ claim'[e] = claim[e] /\ lease'[e] = lease[e]
    BY <1>6 DEF EnqueueSubmission, dvars
  <2>2. OnTime(e) /\ claim[e].run \in Messages
    BY <2>1, WorkingIsBusy DEF WorkersOnTime
  <2>3. outbox'[claim[e].run] = outbox[claim[e].run]
    BY <1>6, <2>2 DEF EnqueueSubmission, InsertMessage, OnTime, HoldsMessage, Holds, TypeOK
  <2> QED
    BY <2>1, <2>2, <2>3, OnTimeKept
<1>7. CASE Tick
  <2>1. /\ pc'[e] = pc[e] /\ claim'[e] = claim[e] /\ lease'[e] = Less(lease[e])
        /\ lease[e] # 1
    BY <1>7, OverrunsCount DEF Tick
  <2>2. /\ OnTime(e) /\ claim[e].run \in Messages
        /\ lease[e] \in Nat /\ outbox[claim[e].run] \in Row
    BY <2>1, WorkingIsBusy DEF WorkersOnTime
  <2>3. outbox'[claim[e].run] = ElapsedRow(outbox[claim[e].run])
    BY <1>7, <2>2 DEF Tick, ElapseOutbox
  <2> QED
    BY <2>1, <2>2, <2>3 DEF OnTime, HoldsMessage, Holds, ElapsedRow, Less, Row
<1>8. CASE UNCHANGED <<outbox, pc, claim, lease>>
  BY <1>8, OnTimeKept DEF WorkersOnTime
<1> QED
  BY <1>1, <1>2, <1>3, <1>4, <1>5, <1>6, <1>7, <1>8
     DEF Next, vars, dvars, CancelRead, CancelWrite, CancelJob, SlurmAccepts

\* Slurm answers a call once, and a Run whose only call it refused gets no other.
LEMMA CallsAnswered ==
    ASSUME TypeOK, SubmitInv, PromiseInv, AnsweredOnce, [Next]_vars
    PROVE  AnsweredOnce' /\ \A r \in Runs : Refused(r) => Refused(r)'
<1> DEFINE Goal == AnsweredOnce' /\ \A r \in Runs : Refused(r) => Refused(r)'
<1>1. CASE UNCHANGED slurm
  BY <1>1 DEF slurm, AnsweredOnce, Refused
<1>2. ASSUME NEW d \in Dispatchers, CallSubmit(d) PROVE Goal
  <2>1. claim[d].run \in Runs /\ claim[d].token \in Nat /\ pc[d] = "submit"
    BY <1>2, BusyFields DEF CallSubmit
  <2>2. sent[claim[d].run] = {}
    BY <2>1 DEF SubmitInv, SentIsLast, Fresh, TypeOK
  <2>3. landed[claim[d].run] = {}
    BY <2>1, <2>2 DEF PromiseInv
  <2>4. landed' = landed /\ misreported' = misreported /\ \A r \in Runs \ {claim[d].run} :
           inflight'[r] = inflight[r] /\ sent'[r] = sent[r]
    BY <1>2 DEF CallSubmit, TypeOK
  <2> QED
    BY <2>1, <2>2, <2>3, <2>4 DEF AnsweredOnce, Refused
<1>3. ASSUME NEW d \in Dispatchers, SubmitRejected(d) PROVE Goal
  BY <1>3 DEF SubmitRejected, AnsweredOnce, Refused, TypeOK
<1>4. ASSUME NEW r \in Runs, NEW t \in inflight[r], SlurmAccepts(r, t) PROVE Goal
  BY <1>4 DEF SlurmAccepts, AnsweredOnce, Refused, TypeOK
<1>5. ASSUME NEW d \in Dispatchers, Work(d) PROVE Goal
  <2>1. UNCHANGED slurm \/ CallSubmit(d) \/ SubmitRejected(d)
    BY <1>5 DEF Work, ReadRun, IntentRaises, ClaimRun, RereadRun, RenewForSubmit,
       SubmitAccepted, SubmitTransportError, CheckLeaseForReceipt,
       ApplySubmitReceipt, QueryMarker, CallRaises, RetrySubmission,
       FailSubmission, AcknowledgeSubmission, HandleException
  <2> QED
    BY <1>1, <1>2, <1>3, <2>1
<1> QED
  BY <1>1, <1>4, <1>5
     DEF Next, vars, slurm, ClaimSubmissionMessage, Crash, EnqueueSubmission,
         CancelRead, CancelWrite, CancelJob, Tick

\* With reconciliation, and on time, a dispatcher gives a submission up as rejected
\* only on a SlurmBackendError.
LEMMA RejectedInductive ==
    ASSUME TypeOK, SubmitInv, PromiseInv, AnsweredOnce, WorkersOnTime,
           RejectedMeansRefused, [Next]_vars, HasReconcile
    PROVE  RejectedMeansRefused'
<1> SUFFICES ASSUME NEW e \in Dispatchers, pc'[e] = "failRejected"
             PROVE  Refused(claim[e].run)' /\ claim'[e] = claim[e]
  BY DEF RejectedMeansRefused, Refused
<1>1. CASE pc[e] = "failRejected" /\ claim'[e] = claim[e]
  BY <1>1, CallsAnswered, BusyFields DEF RejectedMeansRefused, Refused
<1>2. CASE SubmitRejected(e)
  <2>0. claim[e].run \in Runs /\ claim' = claim
    BY <1>2, BusyFields DEF SubmitRejected, Goto
  <2> SUFFICES ASSUME claim[e].run \notin misreported'
               PROVE  Refused(claim[e].run)'
    BY <2>0 DEF Refused
  <2>1. /\ claim[e].token \in inflight[claim[e].run]
        /\ inflight'[claim[e].run] = inflight[claim[e].run] \ {claim[e].token}
        /\ landed' = landed /\ sent' = sent
    BY <1>2, <2>0 DEF SubmitRejected, TypeOK
  <2>2. \A t \in sent[claim[e].run] : t = claim[e].token
    BY <2>0, <2>1 DEF PromiseInv, SubmitInv, AtMostOneSubmit
  <2>3. claim[e].token \notin landed[claim[e].run]
    BY <2>0, <2>1 DEF AnsweredOnce
  <2> QED
    BY <2>0, <2>1, <2>2, <2>3 DEF PromiseInv, Refused
<1>3. ASSUME NEW d \in Dispatchers, Work(d),
             ~(pc[e] = "failRejected" /\ claim'[e] = claim[e])
      PROVE  SubmitRejected(e)
  <2>1. d = e
    BY <1>3 DEF Work, Goto, Leave, ReadRun, IntentRaises, ClaimRun, RereadRun,
       RenewForSubmit, CallSubmit, SubmitAccepted, SubmitRejected,
       SubmitTransportError, CheckLeaseForReceipt, ApplySubmitReceipt, QueryMarker,
       CallRaises, RetrySubmission, FailSubmission, AcknowledgeSubmission,
       HandleException, TypeOK
  <2>2. ~RenewForSubmit(e)
    <3>1. ASSUME RenewForSubmit(e) PROVE FALSE
      <4>1. pc[e] = "renew" /\ OnTime(e)
        BY <3>1 DEF RenewForSubmit, WorkersOnTime, Working, PC
      <4>2. Renewable(claim[e].run, OwnerOf[e], claim[e].token)
        BY <4>1, WorkingIsBusy DEF OnTime, HoldsMessage, Renewable, Row, Working, PC
      <4> QED
        BY <3>1, <4>2 DEF RenewForSubmit, TypeOK
    <3> QED
      BY <3>1
  <2>3. ~CheckLeaseForReceipt(e)
    BY DEF CheckLeaseForReceipt, WorkersOnTime, OnTime, Working, PC, Goto, TypeOK
  <2>4. ~(ReadRun(e) \/ ClaimRun(e) \/ QueryMarker(e))
    BY DEF ReadRun, AfterRead, ClaimRun, AfterClaim, QueryMarker, AfterQuery, Goto, TypeOK
  <2> QED
    BY <1>3, <2>1, <2>2, <2>3, <2>4
       DEF Work, Goto, Leave, IntentRaises, RereadRun, CallSubmit, SubmitAccepted,
       SubmitTransportError, ApplySubmitReceipt, CallRaises, RetrySubmission,
       FailSubmission, AcknowledgeSubmission, HandleException, TypeOK
<1>4. ASSUME ~ \E d \in Dispatchers : Work(d)
      PROVE  pc[e] = "failRejected" /\ claim'[e] = claim[e]
  BY <1>4 DEF Next, vars, dvars, ClaimSubmissionMessage, Crash, Leave,
     EnqueueSubmission, CancelRead, CancelWrite, CancelJob, SlurmAccepts, Tick, TypeOK
<1> QED
  BY <1>1, <1>2, <1>3, <1>4

\* A Run is declared failed only by a dispatcher that was told so.
LEMMA FailedInductive ==
    ASSUME TypeOK, SubmitInv, PromiseInv, AnsweredOnce,
           RejectedMeansRefused, FailedMeansRefused, [Next]_vars
    PROVE  FailedMeansRefused'
<1> SUFFICES ASSUME NEW r \in Runs, runs'[r].state = "SUBMIT_FAILED"
             PROVE  Refused(r)
  BY CallsAnswered DEF FailedMeansRefused
<1>1. CASE runs'[r].state = runs[r].state
  BY <1>1 DEF FailedMeansRefused
<1>2. ASSUME NEW d \in Dispatchers, ClaimRun(d) \/ ApplySubmitReceipt(d)
      PROVE  Refused(r)
  <2>1. CASE runs'[r] = runs[r]
    BY <1>1, <2>1
  <2>2. CASE runs'[r] # runs[r]
    <3>1. \E row : /\ runs' = [runs EXCEPT ![claim[d].run] = row]
                   /\ row.state \in {"SUBMITTING", "SUBMITTED"}
      BY <1>2, <2>2 DEF ClaimRun, ApplySubmitReceipt
    <3> QED
      BY <2>2, <3>1 DEF TypeOK
  <2> QED
    BY <2>1, <2>2
<1>3. ASSUME NEW d \in Dispatchers, FailSubmission(d) PROVE Refused(r)
  <2>1. CASE runs'[r].state = runs[r].state
    BY <1>1, <2>1
  <2>2. CASE runs'[r].state # runs[r].state
    <3> DEFINE state == IF pc[d] = "failRejected" THEN "SUBMIT_FAILED"
                                                  ELSE "SUBMISSION_UNCERTAIN"
    <3>1. runs' = [runs EXCEPT ![claim[d].run].state = state]
      BY <1>3, <2>2 DEF FailSubmission
    <3>2. r = claim[d].run /\ runs[r] \in RunRow
      BY <2>2, <3>1 DEF TypeOK
    <3>3. runs'[r].state = state
      BY <3>1, <3>2 DEF TypeOK, RunRow
    <3> QED
      BY <3>2, <3>3 DEF RejectedMeansRefused
  <2> QED
    BY <2>1, <2>2
<1>4. ASSUME NEW q \in Runs, CancelWrite(q) \/ CancelJob(q) PROVE Refused(r)
  <2>1. CASE q = r
    <3>1. runs[r] \in RunRow /\ runs' = [runs EXCEPT ![r].state = "CANCELLED"]
      BY <1>4, <2>1 DEF CancelWrite, CancelJob, TypeOK
    <3> QED
      BY <3>1 DEF TypeOK, RunRow
  <2>2. CASE q # r
    BY <1>1, <1>4, <2>2 DEF CancelWrite, CancelJob, TypeOK
  <2> QED
    BY <2>1, <2>2
<1>5. CASE runs' = runs
  BY <1>1, <1>5
<1>6. ASSUME NEW d \in Dispatchers, Work(d) PROVE Refused(r)
  <2>1. \/ runs' = runs
        \/ ClaimRun(d) \/ ApplySubmitReceipt(d) \/ FailSubmission(d)
    BY <1>6 DEF Work, ReadRun, IntentRaises, RereadRun, RenewForSubmit,
       CallSubmit, SubmitAccepted, SubmitRejected, SubmitTransportError,
       CheckLeaseForReceipt, QueryMarker, CallRaises, RetrySubmission,
       AcknowledgeSubmission, HandleException
  <2> QED
    BY <1>2, <1>3, <1>5, <2>1
<1> QED
  BY <1>4, <1>5, <1>6 DEF Next, vars, ClaimSubmissionMessage, Crash,
     EnqueueSubmission, CancelRead, SlurmAccepts, Tick

\* The invariant behind FailedMeansNoJob is inductive where jobs are looked for.
LEMMA FailInductive ==
    ASSUME HasReconcile
    PROVE  TypeOK /\ TypeOK' /\ SubmitInv /\ PromiseInv /\ FailInv /\ [Next]_vars
              => FailInv'
<1> SUFFICES ASSUME TypeOK, TypeOK', SubmitInv, PromiseInv, FailInv, [Next]_vars
             PROVE  FailInv'
  OBVIOUS
<1>1. AnsweredOnce'
  BY CallsAnswered DEF FailInv
<1>2. ASSUME overruns' = 0
      PROVE  WorkersOnTime' /\ RejectedMeansRefused' /\ FailedMeansRefused'
  <2>1. overruns = 0 /\ ClaimsDistinct
    BY <1>2, OverrunsCount DEF SubmitInv
  <2> QED
    BY <1>2, <2>1, OnTimeInductive, RejectedInductive, FailedInductive DEF FailInv
<1> QED
  BY <1>1, <1>2 DEF FailInv

\* With idempotency_reconcile_enabled, as both services set it by default: as long
\* as no dispatcher outlives its lease, a Run that has failed has no job and gets
\* none, whatever dispatchers crash, retry and are answered by transport errors,
\* unless its one call was reported as rejected and Slurm had not refused it.
THEOREM FailedMeansNoJobAlways ==
    ASSUME HasReconcile
    PROVE  Spec => []FailedMeansNoJob
<1>1. Init => TypeOK /\ SubmitInv /\ PromiseInv /\ FailInv
  BY InitTyped, SubmitInitially
     DEF Init, PromiseInv, FailInv, AnsweredOnce, WorkersOnTime, Working,
         RejectedMeansRefused, FailedMeansRefused
<1>2. TypeOK /\ SubmitInv /\ PromiseInv /\ FailInv /\ [Next]_vars
         => (TypeOK /\ SubmitInv /\ PromiseInv /\ FailInv)'
  BY NextTyped, SubmitInductive, PromiseInductive, FailInductive
<1>3. FailInv => FailedMeansNoJob
  BY DEF FailInv, FailedMeansRefused, Refused, FailedMeansNoJob
<1> QED
  BY <1>1, <1>2, <1>3, PTL DEF Spec

=============================================================================
