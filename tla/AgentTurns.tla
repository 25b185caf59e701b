------------------------------ MODULE AgentTurns ------------------------------
(***************************************************************************)
(* Executing Agent Turns: services/agent_session_service.py creates a Turn *)
(* and enqueues its message, worker/agent_turn_worker.py claims both and   *)
(* relays the event stream of pilot-agentd into the Turn.                  *)
(*                                                                         *)
(* Two leases guard a Turn, of the outbox message and of the Turn itself,  *)
(* renewed by one heartbeat thread, in this order: Turn, message.  Every   *)
(* transaction and every call to agentd is an action; pc[w] says which one *)
(* worker process w does next.  A Turn is named by its message.            *)
(***************************************************************************)
EXTENDS OutboxTable, AgentTurnTable, FiniteSets

CONSTANTS
    Workers,       \* processes with an AgentTurnWorker
    IdOf,          \* worker_id of each
    MaxAttempts,   \* max_attempts
    NoTurnId,      \* nothing claimed
    StreamKinds,   \* bound: the kinds of events agentd's streams show
    MaxEvents,     \* bound: events of a stream before its terminal one
    MaxFaults      \* bound: workers that die or cannot reach agentd to cancel,
                   \* and those whose leases run out

ASSUME NamesAssumption == Turns = Messages /\ WorkerIds = Owners /\ NoTurnId \notin Turns
ASSUME WorkersAssumption == IsFiniteSet(Workers)
ASSUME IdOfAssumption == IdOf \in [Workers -> WorkerIds]
ASSUME BoundsAssumption ==
    StreamKinds \subseteq Kind /\ MaxAttempts \in Nat /\ MaxEvents \in Nat /\ MaxFaults \in Nat

VARIABLES
    pc,        \* what each worker does next
    hand,      \* its message's token, its Turn and that claim's token
    stream,    \* its stream: events before it, events of it, saved checkpoint
    beat,      \* its heartbeat thread: off, what it renews next, or failed
    active,    \* the Turns agentd is executing (its map "active")
    crashes, overruns

mine == <<pc, hand, stream>>
faults == <<crashes, overruns>>
vars == <<outbox, turns, sessions, pc, hand, stream, beat, active, crashes, overruns>>

-----------------------------------------------------------------------------

PC == {"idle", "claimTurn", "turnBusy", "readTurn", "cancelAgentd",
       "cancelAppend", "open", "stream", "check", "finish", "interrupt",
       "retry", "retryBusy", "ack"}

NoHand == [turn |-> NoTurnId, token |-> 0, fence |-> 0]
NoStream == [base |-> 0, count |-> 0, saved |-> FALSE, end |-> "none"]

TypeOK ==
    /\ outbox \in [Messages -> Row]
    /\ turns \in [Turns -> TurnRow]
    /\ sessions \in [Sessions -> SessionState]
    /\ pc \in [Workers -> PC]
    /\ hand \in [Workers -> [turn: Turns \cup {NoTurnId}, token: Nat, fence: Nat]]
    /\ stream \in [Workers -> [base: Nat, count: Nat, saved: BOOLEAN,
                               end: {"none", "completed", "failed", "aborted"}]]
    /\ beat \in [Workers -> {"off", "turn", "message", "failed"}]
    /\ active \subseteq Turns
    /\ crashes \in Nat /\ overruns \in Nat /\ crashes + overruns <= MaxFaults
    /\ \A w \in Workers : pc[w] # "idle" <=> hand[w].turn # NoTurnId

\* The sessions exist; no Turn was submitted.
Init ==
    /\ OutboxInit /\ TablesInit
    /\ pc = [w \in Workers |-> "idle"]
    /\ hand = [w \in Workers |-> NoHand]
    /\ stream = [w \in Workers |-> NoStream]
    /\ beat = [w \in Workers |-> "off"]
    /\ active = {}
    /\ crashes = 0 /\ overruns = 0

HoldsMessage(w) == Holds(hand[w].turn, IdOf[w], hand[w].token)
HoldsMyTurn(w) == HoldsTurn(hand[w].turn, IdOf[w], hand[w].fence)

-----------------------------------------------------------------------------
\* Moves of a worker.

Goto(w, place) ==
    /\ pc' = [pc EXCEPT ![w] = place]
    /\ UNCHANGED <<hand, stream, beat>>

\* _dispatch is over, by return or by an exception that dispatch_due records;
\* the finally clause stops the heartbeat.
Leave(w) ==
    /\ pc' = [pc EXCEPT ![w] = "idle"]
    /\ hand' = [hand EXCEPT ![w] = NoHand]
    /\ stream' = [stream EXCEPT ![w] = NoStream]
    /\ beat' = [beat EXCEPT ![w] = "off"]

\* submit_message: the Turn first, then its message; the API may die between.
SubmitMessage(t) ==
    /\ CreateTurn(t)
    /\ UNCHANGED <<outbox, mine, beat, active, faults>>

\* _enqueue, by submit_message or recover_pending_turns: INSERT OR IGNORE.
EnqueueTurn(t) ==
    /\ Recoverable(t)
    /\ InsertMessage(t)
    /\ UNCHANGED <<tables, mine, beat, active, faults>>

CancelRequest(t) ==
    /\ RequestCancel(t)
    /\ UNCHANGED <<outbox, mine, beat, active, faults>>

\* claim_outbox in dispatch_due.
ClaimTurnMessage(w, t) ==
    /\ pc[w] = "idle"
    /\ ClaimMessage(t, IdOf[w])
    /\ pc' = [pc EXCEPT ![w] = "claimTurn"]
    /\ hand' = [hand EXCEPT ![w] = [turn |-> t, token |-> outbox'[t].fencingToken,
                                    fence |-> 0]]
    /\ UNCHANGED <<tables, stream, beat, active, faults>>

\* claim_turn; a session that is neither queued nor running raises.
ClaimTheTurn(w) ==
    LET t == hand[w].turn
    IN  /\ pc[w] = "claimTurn"
        /\ CASE ~ClaimableTurn(t) -> Goto(w, "turnBusy") /\ UNCHANGED tables
             [] ClaimableTurn(t) /\ sessions[SessionOf[t]] = "idle" ->
                   Leave(w) /\ UNCHANGED tables
             [] OTHER ->
                   /\ ClaimTurn(t, IdOf[w])
                   /\ pc' = [pc EXCEPT ![w] = "readTurn"]
                   /\ hand' = [hand EXCEPT ![w].fence = turns'[t].fence]
                   /\ UNCHANGED <<stream, beat>>
        /\ UNCHANGED <<outbox, active, faults>>

\* (Mutant) "Another worker has it": acknowledged.
AfterBusyAck(state) == "ack"

\* No claim: the Turn is over, or somebody else is at work.
AfterBusy(state) == IF state \in Terminal THEN "ack" ELSE "retryBusy"

TurnBusy(w) ==
    /\ pc[w] = "turnBusy"
    /\ Goto(w, AfterBusy(turns[hand[w].turn].state))
    /\ UNCHANGED <<outbox, tables, active, faults>>

\* The sequence numbers of a stream continue after the stored events only if
\* a checkpoint was saved; without one the Turn is replayed from its start.
ReadTurn(w) ==
    LET turn == turns[hand[w].turn]
        base == IF turn.saved \/ turn.cancel THEN Len(turn.events) ELSE 0
    IN  /\ pc[w] = "readTurn"
        /\ pc' = [pc EXCEPT ![w] = IF turn.cancel THEN "cancelAgentd" ELSE "open"]
        /\ stream' = [stream EXCEPT ![w] = [NoStream EXCEPT !.base = base,
                                                            !.saved = turn.saved]]
        /\ UNCHANGED <<outbox, tables, hand, beat, active, faults>>

\* stream_durable_turn.  agentd refuses a Turn it still runs (409 turn_active);
\* the checkpoint rebuilder, the transport and agentd may fail as well.
OpenStream(w) ==
    LET t == hand[w].turn
    IN  /\ pc[w] = "open"
        /\ \/ /\ t \notin active
              /\ active' = active \cup {t}
              /\ pc' = [pc EXCEPT ![w] = "stream"]
              /\ beat' = [beat EXCEPT ![w] = "turn"]
              /\ UNCHANGED <<hand, stream>>
           \/ Goto(w, "interrupt") /\ UNCHANGED active
        /\ UNCHANGED <<outbox, tables, faults>>

\* An event arrives: raise_if_failed, then append_event.
ReceiveEvent(w, kind) ==
    LET t == hand[w].turn
        sequence == stream[w].base + stream[w].count + 1
        ended == kind \notin {"progress", "checkpoint"}
    IN  /\ pc[w] = "stream"
        /\ ended \/ stream[w].count < MaxEvents
        /\ IF beat[w] # "failed" /\ (IsReplay(t, sequence, kind)
                                     \/ CanAppend(t, IdOf[w], hand[w].fence, sequence))
           THEN /\ IF IsReplay(t, sequence, kind)
                   THEN UNCHANGED tables
                   ELSE AppendEvent(t, kind, hand[w].fence)
                /\ pc' = [pc EXCEPT ![w] = "check"]
                /\ stream' = [stream EXCEPT ![w] =
                     [@ EXCEPT !.count = stream[w].count + 1,
                               !.saved = stream[w].saved \/ kind = "checkpoint",
                               !.end = IF ended THEN kind ELSE "none"]]
                /\ UNCHANGED <<hand, beat>>
           ELSE Goto(w, "interrupt") /\ UNCHANGED tables
        /\ UNCHANGED <<outbox, active, faults>>

\* The stream breaks off, or one of its lines is refused.
StreamBreaks(w) ==
    /\ pc[w] = "stream"
    /\ Goto(w, "interrupt")
    /\ UNCHANGED <<outbox, tables, active, faults>>

\* After each event: a cancel is passed to agentd, which may be out of reach.
\* After the last one a failed heartbeat raises, outside the try block.
CheckCancel(w) ==
    /\ pc[w] = "check"
    /\ \/ /\ turns[hand[w].turn].cancel
          /\ Goto(w, "interrupt")
       \/ IF stream[w].end = "none" THEN Goto(w, "stream")
          ELSE IF beat[w] = "failed" THEN Leave(w) ELSE Goto(w, "finish")
    /\ UNCHANGED <<outbox, tables, active, faults>>

\* (Mutant) A Turn whose stream was aborted is taken up again.
OutcomeOfInterrupted(end, cancel) == IF end = "completed" THEN end ELSE "queued"

\* The state _finish_terminal and _cancel_and_complete give the Turn.
OutcomeOf(end, cancel) ==
    CASE end = "completed" -> "completed"
      [] end = "aborted" \/ (end = "failed" /\ cancel) -> "cancelled"
      [] OTHER -> "failed"

\* complete_turn; a conflict raises.
FinishTurn(w) ==
    LET t == hand[w].turn
    IN  /\ pc[w] = "finish"
        /\ IF HoldsMyTurn(w)
           THEN /\ CompleteTurn(t, OutcomeOf(stream[w].end, turns[t].cancel),
                                stream[w].saved)
                /\ Goto(w, "ack")
           ELSE Leave(w) /\ UNCHANGED tables
        /\ UNCHANGED <<outbox, active, faults>>

\* _cancel_and_complete first calls agentd; an error leaves both leases to run
\* out, and counts as a fault.
CancelAtAgentd(w) ==
    /\ pc[w] = "cancelAgentd"
    /\ \/ Goto(w, "cancelAppend") /\ UNCHANGED crashes
       \/ crashes + overruns < MaxFaults /\ crashes' = crashes + 1 /\ Leave(w)
    /\ UNCHANGED <<outbox, tables, active, overruns>>

\* The event that tells the reader of the abort; a conflict raises.
CancelAppend(w) ==
    LET t == hand[w].turn
        sequence == stream[w].base + 1
    IN  /\ pc[w] = "cancelAppend"
        /\ IF CanAppend(t, IdOf[w], hand[w].fence, sequence)
           THEN /\ AppendEvent(t, "aborted", hand[w].fence)
                /\ pc' = [pc EXCEPT ![w] = "finish"]
                /\ stream' = [stream EXCEPT ![w].end = "aborted"]
                /\ UNCHANGED <<hand, beat>>
           ELSE IF IsReplay(t, sequence, "aborted")
                THEN /\ pc' = [pc EXCEPT ![w] = "finish"]
                     /\ stream' = [stream EXCEPT ![w].end = "aborted"]
                     /\ UNCHANGED <<tables, hand, beat>>
                ELSE Leave(w) /\ UNCHANGED tables
        /\ UNCHANGED <<outbox, active, faults>>

\* interrupt_turn keeps the last checkpoint; a conflict raises.
InterruptMyTurn(w) ==
    /\ pc[w] = "interrupt"
    /\ IF HoldsMyTurn(w)
       THEN InterruptTurn(hand[w].turn, stream[w].saved) /\ Goto(w, "retry")
       ELSE Leave(w) /\ UNCHANGED tables
    /\ UNCHANGED <<outbox, active, faults>>

\* _retry: at once after an interruption, later when the Turn was busy.
RetryTurn(w) ==
    LET t == hand[w].turn
        target == RetryTarget(t, MaxAttempts)
    IN  /\ pc[w] \in {"retry", "retryBusy"}
        /\ IF ~HoldsMessage(w) THEN UNCHANGED outbox
           ELSE IF pc[w] = "retryBusy" THEN RetryMessage(t, target)
           ELSE outbox' = [outbox EXCEPT ![t] = FinishedRow(@, target, 0)]
        /\ Leave(w)
        /\ UNCHANGED <<tables, active, faults>>

AcknowledgeTurn(w) ==
    /\ pc[w] = "ack"
    /\ IF HoldsMessage(w) THEN AcknowledgeMessage(hand[w].turn) ELSE UNCHANGED outbox
    /\ Leave(w)
    /\ UNCHANGED <<tables, active, faults>>

-----------------------------------------------------------------------------
\* The heartbeat thread: _renew_dispatch_leases, Turn first, then message.

BeatTurn(w) ==
    LET t == hand[w].turn
    IN  /\ beat[w] = "turn"
        /\ IF LiveTurn(t, IdOf[w], hand[w].fence)
           THEN RenewTurn(t) /\ beat' = [beat EXCEPT ![w] = "message"]
           ELSE UNCHANGED tables /\ beat' = [beat EXCEPT ![w] = "failed"]
        /\ UNCHANGED <<outbox, mine, active, faults>>

BeatMessage(w) ==
    LET t == hand[w].turn
    IN  /\ beat[w] = "message"
        /\ IF Renewable(t, IdOf[w], hand[w].token)
           THEN RenewMessage(t) /\ beat' = [beat EXCEPT ![w] = "turn"]
           ELSE UNCHANGED outbox /\ beat' = [beat EXCEPT ![w] = "failed"]
        /\ UNCHANGED <<tables, mine, active, faults>>

\* agentd is done with a Turn: its last event is written, the abort of a client
\* that has gone came through, or agentd stopped.  The worker may still have
\* events of that stream to read.
AgentdReleases(t) ==
    /\ t \in active
    /\ active' = active \ {t}
    /\ UNCHANGED <<outbox, tables, mine, beat, faults>>

Crash(w) ==
    /\ pc[w] # "idle" /\ crashes + overruns < MaxFaults
    /\ crashes' = crashes + 1
    /\ Leave(w)
    /\ UNCHANGED <<outbox, tables, active, overruns>>

\* Workers that lose a lease by the next unit of time.
Overrun ==
    {w \in Workers : pc[w] # "idle" /\
        \/ HoldsMessage(w) /\ outbox[hand[w].turn].leaseLeft = 1
        \/ HoldsMyTurn(w) /\ turns[hand[w].turn].leaseLeft = 1}

Tick ==
    /\ \E t \in Turns : \/ outbox[t].leaseLeft > 0 \/ outbox[t].dueIn > 0
                        \/ turns[t].leaseLeft > 0
    /\ crashes + overruns + Cardinality(Overrun) <= MaxFaults
    /\ overruns' = overruns + Cardinality(Overrun)
    /\ ElapseOutbox /\ ElapseTurns
    /\ UNCHANGED <<mine, beat, active, crashes>>

-----------------------------------------------------------------------------

Work(w) ==
    \/ ClaimTheTurn(w) \/ TurnBusy(w) \/ ReadTurn(w) \/ OpenStream(w)
    \/ \E kind \in StreamKinds : ReceiveEvent(w, kind)
    \/ StreamBreaks(w) \/ CheckCancel(w) \/ FinishTurn(w)
    \/ CancelAtAgentd(w) \/ CancelAppend(w)
    \/ InterruptMyTurn(w) \/ RetryTurn(w) \/ AcknowledgeTurn(w)

Next ==
    \/ \E w \in Workers :
          \/ \E t \in Turns : ClaimTurnMessage(w, t)
          \/ Work(w) \/ BeatTurn(w) \/ BeatMessage(w) \/ Crash(w)
    \/ \E t \in Turns :
          SubmitMessage(t) \/ EnqueueTurn(t) \/ CancelRequest(t) \/ AgentdReleases(t)
    \/ Tick

Spec == Init /\ [][Next]_vars

\* The worker loop recovers, polls and works what it gets to the end, streams
\* have timeouts, heartbeats and the clock run, and agentd ends what it began.
\* Users owe nothing.
Fairness ==
    /\ WF_vars(Tick)
    /\ \A w \in Workers :
          WF_vars(Work(w)) /\ WF_vars(BeatTurn(w)) /\ WF_vars(BeatMessage(w))
    /\ \A t \in Turns :
          /\ WF_vars(EnqueueTurn(t)) /\ WF_vars(AgentdReleases(t))
          /\ WF_vars(\E w \in Workers : ClaimTurnMessage(w, t))

FairSpec == Spec /\ Fairness

-----------------------------------------------------------------------------
\* Properties.

\* The fencing tokens a Turn's events were appended under never go back,
\* although a worker that lost its claim may still be reading its stream
\* (append_event).
EventsInFenceOrder ==
    \A t \in Turns : \A i, j \in DOMAIN turns[t].events :
        i < j => turns[t].events[i].by <= turns[t].events[j].by

\* A message is acknowledged only for a Turn that is over: by then the terminal
\* state is stored, or another worker stored it (_dispatch).
AckedMeansOver ==
    \A t \in Turns : outbox[t].state = "succeeded" => turns[t].state \in Terminal

\* A Turn that is over gets no other outcome and no more events, though a
\* worker that was overtaken may still complete, interrupt or append.
OverForGood ==
    [][\A t \in Turns : turns[t].state \in Terminal =>
          turns'[t].state = turns[t].state /\ turns'[t].events = turns[t].events]_vars

\* The session is idle exactly when it has no Turn that waits or runs, and
\* never has two: create_turn, claim_turn, complete_turn and interrupt_turn
\* move both rows.
SessionFollowsTurns ==
    \A s \in Sessions :
        LET open == {t \in Turns : SessionOf[t] = s
                                   /\ turns[t].state \in Waiting \cup {"running"}}
        IN  /\ sessions[s] = "idle" <=> open = {}
            /\ \A t, u \in open : t = u
            /\ \A t \in open : sessions[s] = "running" <=> turns[t].state = "running"

\* A Turn that was stored is executed or its message given up, although the
\* API may die before the message is stored and workers may die or be
\* overtaken (recover_pending_turns, dispatch_due).
TurnSettles ==
    \A t \in Turns : turns[t].state = "queued" ~>
        outbox[t].state \in {"succeeded", "dead_letter"}

=============================================================================
