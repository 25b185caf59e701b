---------------------------- MODULE AgentTurnTable ----------------------------
(***************************************************************************)
(* The tables agent_sessions, agent_turns and agent_turn_events of         *)
(* src/pilot107/agent/store.py.  Each operator is one transaction of       *)
(* SQLiteAgentSessionStore, stated on the rows of one Turn; the modules    *)
(* that EXTEND this one say who runs it and what becomes of the answer.    *)
(*                                                                         *)
(* leaseLeft is lease_expires_at - now, cut off at zero.  event_sequence   *)
(* is the length of events, written in the same transaction.  The          *)
(* state_version of a Turn is left out: it moves with a claim, which moves *)
(* the fencing token too, with a cancel, which sets the flag, and with the *)
(* end of the claim, which changes the state; so wherever the code asks    *)
(* for a claim's state_version next to running, fencing token and no       *)
(* cancel, the version adds nothing.                                       *)
(***************************************************************************)
EXTENDS Naturals, Sequences

CONSTANTS
    Turns,           \* the turn_ids
    Sessions,        \* the session_ids
    SessionOf,       \* the session of a Turn
    UserOf,          \* the owner of a Turn
    WorkerIds,       \* the values of lease_owner
    NoWorkerId,      \* its NULL
    TurnLeaseTicks   \* lease_seconds

ASSUME SessionOfAssumption == SessionOf \in [Turns -> Sessions]
ASSUME NoWorkerIdAssumption == NoWorkerId \notin WorkerIds
ASSUME TurnLeaseAssumption == TurnLeaseTicks \in Nat \ {0}

VARIABLES
    turns,     \* the rows of agent_turns, each with its events
    sessions   \* the state of each row of agent_sessions

tables == <<turns, sessions>>

Waiting  == {"queued", "interrupted"}
Terminal == {"completed", "cancelled", "failed"}
TurnState == {"absent", "running"} \cup Waiting \cup Terminal
SessionState == {"idle", "queued", "running"}

\* What tells two events apart; "by" is the token they were appended under,
\* which the table does not store and the model keeps for its properties.
Kind == {"progress", "checkpoint", "completed", "failed", "aborted"}
Event == [kind: Kind, by: Nat]

TurnRow == [state: TurnState, worker: WorkerIds \cup {NoWorkerId}, fence: Nat,
            leaseLeft: Nat, cancel: BOOLEAN, saved: BOOLEAN, events: Seq(Event)]

NoTurn == [state |-> "absent", worker |-> NoWorkerId, fence |-> 0,
           leaseLeft |-> 0, cancel |-> FALSE, saved |-> FALSE, events |-> <<>>]

TablesInit ==
    /\ turns = [t \in Turns |-> NoTurn]
    /\ sessions = [s \in Sessions |-> "idle"]

MoveSession(t, state) == sessions' = [sessions EXCEPT ![SessionOf[t]] = state]

\* create_turn, for a session that is idle.
CreateTurn(t) ==
    /\ turns[t].state = "absent" /\ sessions[SessionOf[t]] = "idle"
    /\ turns' = [turns EXCEPT ![t].state = "queued"]
    /\ MoveSession(t, "queued")

\* (Mutant) A list of interrupted Turns only.
RecoverableInterrupted(t) == turns[t].state = "interrupted"

\* list_recoverable_turns; also what claim_turn selects.
Recoverable(t) ==
    \/ turns[t].state \in Waiting
    \/ turns[t].state = "running" /\ turns[t].leaseLeft = 0

\* uq_agent_turns_running_owner: one running Turn per owner.
ClaimableTurn(t) ==
    /\ Recoverable(t)
    /\ \A u \in Turns \ {t} :
          UserOf[u] = UserOf[t] => turns[u].state # "running"

ClaimTurn(t, id) ==
    /\ turns' = [turns EXCEPT ![t] =
                   [@ EXCEPT !.state = "running", !.worker = id,
                             !.fence = turns[t].fence + 1,
                             !.leaseLeft = TurnLeaseTicks]]
    /\ MoveSession(t, "running")

\* (Mutants) A fence without the token, and UPDATE ... WHERE turn_id = ? alone.
HoldsTurnById(t, id, fence) ==
    turns[t].state = "running" /\ turns[t].worker = id
HoldsTurnByName(t, id, fence) == TRUE

\* The fence of complete_turn and interrupt_turn: not a word of the expiry.
HoldsTurn(t, id, fence) ==
    turns[t].state = "running" /\ turns[t].worker = id /\ turns[t].fence = fence

\* The fence of renew_turn and append_event.
LiveTurn(t, id, fence) == HoldsTurn(t, id, fence) /\ turns[t].leaseLeft > 0

RenewTurn(t) ==
    /\ turns' = [turns EXCEPT ![t].leaseLeft = TurnLeaseTicks]
    /\ UNCHANGED sessions

\* append_event: an event that is there already, with the same content, is
\* answered without asking for the fence.
IsReplay(t, sequence, kind) ==
    sequence <= Len(turns[t].events) /\ turns[t].events[sequence].kind = kind

CanAppend(t, id, fence, sequence) ==
    LiveTurn(t, id, fence) /\ sequence = Len(turns[t].events) + 1

AppendEvent(t, kind, fence) ==
    /\ turns' = [turns EXCEPT ![t].events = Append(@, [kind |-> kind, by |-> fence])]
    /\ UNCHANGED sessions

\* request_cancel: a flag on a Turn that is not over.
RequestCancel(t) ==
    /\ turns[t].state \in Waiting \cup {"running"} /\ ~turns[t].cancel
    /\ turns' = [turns EXCEPT ![t].cancel = TRUE]
    /\ UNCHANGED sessions

\* complete_turn and interrupt_turn give the lease back and move the session.
EndTurn(t, state, saved) ==
    turns' = [turns EXCEPT ![t] =
                [@ EXCEPT !.state = state, !.worker = NoWorkerId,
                          !.leaseLeft = 0, !.saved = saved]]

CompleteTurn(t, state, saved) == EndTurn(t, state, saved) /\ MoveSession(t, "idle")
InterruptTurn(t, saved) == EndTurn(t, "interrupted", saved) /\ MoveSession(t, "queued")

\* The clock moves on by one unit.
ElapseTurns ==
    /\ turns' = [t \in Turns |->
                   [turns[t] EXCEPT !.leaseLeft = IF @ > 0 THEN @ - 1 ELSE 0]]
    /\ UNCHANGED sessions

=============================================================================
