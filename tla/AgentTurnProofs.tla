---------------------------- MODULE AgentTurnProofs ----------------------------
(***************************************************************************)
(* The safety of AgentTurns for any Turns, sessions and users, and any     *)
(* finite set of worker processes, whatever ids they share.                *)
(*                                                                         *)
(* Every step does to the tables one of the few things TableStep lists, so *)
(* what is true of Turns, events and sessions is proved of those.          *)
(***************************************************************************)
EXTENDS AgentTurns, FiniteSetTheorems, SequenceTheorems, TLAPS

TablesTyped == turns \in [Turns -> TurnRow] /\ sessions \in [Sessions -> SessionState]

Hand == [turn: Turns \cup {NoTurnId}, token: Nat, fence: Nat]
Stream == [base: Nat, count: Nat, saved: BOOLEAN,
           end: {"none", "completed", "failed", "aborted"}]
Beats == {"off", "turn", "message", "failed"}

WorkersTyped ==
    /\ pc \in [Workers -> PC]
    /\ hand \in [Workers -> Hand]
    /\ stream \in [Workers -> Stream]
    /\ beat \in [Workers -> Beats]
    /\ \A w \in Workers : pc[w] # "idle" <=> hand[w].turn # NoTurnId

BoundsTyped ==
    /\ active \subseteq Turns
    /\ crashes \in Nat /\ overruns \in Nat /\ crashes + overruns <= MaxFaults

\* The type invariant, by groups of variables.
LEMMA TypeGroups ==
    TypeOK <=> outbox \in [Messages -> Row] /\ TablesTyped /\ WorkersTyped /\ BoundsTyped
  BY DEF TypeOK, TablesTyped, WorkersTyped, BoundsTyped, Hand, Stream, Beats

\* What a busy worker holds.
LEMMA HandFields ==
    ASSUME WorkersTyped, NEW w \in Workers, pc[w] # "idle"
    PROVE  /\ hand[w].turn \in Turns /\ hand[w].turn \in Messages
           /\ hand[w].token \in Nat /\ hand[w].fence \in Nat
  BY NamesAssumption DEF WorkersTyped, Hand

-----------------------------------------------------------------------------

\* Every transaction of the outbox leaves a row of the type of the table behind.
LEMMA RowSteps ==
    ASSUME NEW row \in Row
    PROVE  /\ [row EXCEPT !.state = "pending"] \in Row
           /\ \A owner \in Owners : ClaimedRow(row, owner) \in Row
           /\ \A state \in MessageState, delay \in Nat :
                 FinishedRow(row, state, delay) \in Row
           /\ [row EXCEPT !.leaseLeft = LeaseTicks] \in Row
           /\ ElapsedRow(row) \in Row
<1> USE NoOwnerAssumption, LeaseAssumption DEF Row, MessageState
<1>1. /\ [row EXCEPT !.state = "pending"] \in Row
      /\ [row EXCEPT !.leaseLeft = LeaseTicks] \in Row
      /\ \A owner \in Owners : ClaimedRow(row, owner) \in Row
  BY DEF ClaimedRow
<1>2. /\ \A state \in MessageState, delay \in Nat : FinishedRow(row, state, delay) \in Row
      /\ ElapsedRow(row) \in Row
  BY DEF FinishedRow, ElapsedRow, Less
<1> QED
  BY <1>1, <1>2

-----------------------------------------------------------------------------
\* The steps of the tables.

\* What a step does to the rows of the Turns and their sessions.
TableStep ==
    \/ UNCHANGED tables
    \/ ElapseTurns
    \/ \E t \in Turns :
          \/ CreateTurn(t) \/ RenewTurn(t) \/ RequestCancel(t)
          \/ /\ ClaimableTurn(t) /\ sessions[SessionOf[t]] # "idle"
             /\ \E id \in WorkerIds : ClaimTurn(t, id)
          \/ /\ turns[t].state = "running"
             /\ \E kind \in Kind : AppendEvent(t, kind, turns[t].fence)
          \/ /\ turns[t].state = "running"
             /\ \E saved \in BOOLEAN :
                   \/ \E state \in Terminal : CompleteTurn(t, state, saved)
                   \/ InterruptTurn(t, saved)

\* Every step changes the rows of sessions, Turns and events by one of the
\* operations of the store, or not at all.
LEMMA NextTables == ASSUME TypeOK, Next PROVE TableStep
<1>0. TablesTyped /\ WorkersTyped
  BY TypeGroups
<1>1. ASSUME NEW w \in Workers, NEW t \in Turns, ClaimTurnMessage(w, t) PROVE TableStep
  BY <1>1 DEF ClaimTurnMessage, TableStep
<1>2. ASSUME NEW w \in Workers, ClaimTheTurn(w) PROVE TableStep
  <2>1. hand[w].turn \in Turns /\ IdOf[w] \in WorkerIds
    BY <1>0, <1>2, HandFields, IdOfAssumption DEF ClaimTheTurn
  <2> QED
    BY <1>2, <2>1 DEF ClaimTheTurn, TableStep
<1>3. ASSUME NEW w \in Workers, NEW kind \in StreamKinds, ReceiveEvent(w, kind)
      PROVE  TableStep
  <2>1. hand[w].turn \in Turns /\ kind \in Kind
    BY <1>0, <1>3, HandFields, BoundsAssumption DEF ReceiveEvent
  <2> QED
    BY <1>3, <2>1 DEF ReceiveEvent, CanAppend, LiveTurn, HoldsTurn, TableStep
<1>4. ASSUME NEW w \in Workers, CancelAppend(w) PROVE TableStep
  <2>1. hand[w].turn \in Turns /\ "aborted" \in Kind
    BY <1>0, <1>4, HandFields DEF CancelAppend, Kind
  <2> QED
    BY <1>4, <2>1 DEF CancelAppend, CanAppend, LiveTurn, HoldsTurn, TableStep
<1>5. ASSUME NEW w \in Workers, FinishTurn(w) PROVE TableStep
  <2> DEFINE t == hand[w].turn
  <2>1. t \in Turns /\ stream[w].saved \in BOOLEAN
        /\ OutcomeOf(stream[w].end, turns[t].cancel) \in Terminal
    BY <1>0, <1>5, HandFields DEF FinishTurn, OutcomeOf, Terminal, WorkersTyped, Stream
  <2> QED
    BY <1>5, <2>1 DEF FinishTurn, HoldsMyTurn, HoldsTurn, TableStep
<1>6. ASSUME NEW w \in Workers, InterruptMyTurn(w) PROVE TableStep
  <2>1. hand[w].turn \in Turns /\ stream[w].saved \in BOOLEAN
    BY <1>0, <1>6, HandFields DEF InterruptMyTurn, WorkersTyped, Stream
  <2> QED
    BY <1>6, <2>1 DEF InterruptMyTurn, HoldsMyTurn, HoldsTurn, TableStep
<1>7. ASSUME NEW w \in Workers,
             \/ TurnBusy(w) \/ ReadTurn(w) \/ OpenStream(w) \/ StreamBreaks(w)
             \/ CheckCancel(w) \/ CancelAtAgentd(w) \/ RetryTurn(w)
             \/ AcknowledgeTurn(w) \/ BeatMessage(w) \/ Crash(w)
      PROVE  TableStep
  BY <1>7 DEF TurnBusy, ReadTurn, OpenStream, StreamBreaks, CheckCancel, CancelAtAgentd,
     RetryTurn, AcknowledgeTurn, BeatMessage, Crash, TableStep
<1>8. ASSUME NEW w \in Workers, BeatTurn(w) PROVE TableStep
  <2>1. CASE pc[w] = "idle"
    <3>1. hand[w].turn \notin Turns \/ hand[w].turn \in Turns
      OBVIOUS
    <3>2. UNCHANGED tables \/ RenewTurn(hand[w].turn)
      BY <1>8 DEF BeatTurn
    <3>3. hand[w].turn = NoTurnId
      BY <1>0, <2>1 DEF WorkersTyped
    <3>4. RenewTurn(NoTurnId) => UNCHANGED tables
      BY <1>0, NamesAssumption DEF RenewTurn, TablesTyped, tables
    <3> QED
      BY <3>2, <3>3, <3>4 DEF TableStep
  <2>2. CASE pc[w] # "idle"
    BY <1>0, <1>8, <2>2, HandFields DEF BeatTurn, TableStep
  <2> QED
    BY <2>1, <2>2
<1>9. ASSUME NEW t \in Turns,
             SubmitMessage(t) \/ EnqueueTurn(t) \/ CancelRequest(t) \/ AgentdReleases(t)
      PROVE  TableStep
  BY <1>9 DEF SubmitMessage, EnqueueTurn, CancelRequest, AgentdReleases, TableStep
<1>10. CASE Tick
  BY <1>10 DEF Tick, TableStep
<1> QED
  BY <1>1, <1>2, <1>3, <1>4, <1>5, <1>6, <1>7, <1>8, <1>9, <1>10 DEF Next, Work

\* The rows the transactions write.
LEMMA TurnRows ==
    ASSUME NEW row \in TurnRow
    PROVE  /\ \A state \in TurnState : [row EXCEPT !.state = state] \in TurnRow
           /\ \A id \in WorkerIds, left \in Nat :
                 [row EXCEPT !.state = "running", !.worker = id,
                             !.fence = @ + 1, !.leaseLeft = left] \in TurnRow
           /\ \A left \in Nat : [row EXCEPT !.leaseLeft = left] \in TurnRow
           /\ [row EXCEPT !.cancel = TRUE] \in TurnRow
           /\ \A state \in TurnState, saved \in BOOLEAN :
                 [row EXCEPT !.state = state, !.worker = NoWorkerId,
                             !.leaseLeft = 0, !.saved = saved] \in TurnRow
           /\ \A kind \in Kind : [row EXCEPT !.events =
                 Append(@, [kind |-> kind, by |-> row.fence])] \in TurnRow
<1> USE DEF TurnRow
<1>1. \A state \in TurnState : [row EXCEPT !.state = state] \in TurnRow
  OBVIOUS
<1>2. \A id \in WorkerIds, left \in Nat :
         [row EXCEPT !.state = "running", !.worker = id,
                     !.fence = @ + 1, !.leaseLeft = left] \in TurnRow
  <2>1. row.fence + 1 \in Nat
    OBVIOUS
  <2>2. "running" \in TurnState
    BY DEF TurnState
  <2>3. \A fence, left \in Nat, id \in WorkerIds :
           [row EXCEPT !.state = "running", !.worker = id,
                       !.fence = fence, !.leaseLeft = left] \in TurnRow
    BY <2>2
  <2> QED
    BY <2>1, <2>3
<1>3. \A left \in Nat : [row EXCEPT !.leaseLeft = left] \in TurnRow
  OBVIOUS
<1>4. [row EXCEPT !.cancel = TRUE] \in TurnRow
  OBVIOUS
<1>5. \A state \in TurnState, saved \in BOOLEAN :
         [row EXCEPT !.state = state, !.worker = NoWorkerId,
                     !.leaseLeft = 0, !.saved = saved] \in TurnRow
  OBVIOUS
<1>6. \A kind \in Kind : [row EXCEPT !.events =
         Append(@, [kind |-> kind, by |-> row.fence])] \in TurnRow
  <2>1. \A kind \in Kind : Append(row.events, [kind |-> kind, by |-> row.fence]) \in Seq(Event)
    BY AppendProperties DEF Event
  <2>2. \A events \in Seq(Event) : [row EXCEPT !.events = events] \in TurnRow
    OBVIOUS
  <2> QED
    BY <2>1, <2>2
<1> QED
  BY <1>1, <1>2, <1>3, <1>4, <1>5, <1>6

\* Those operations keep the rows well typed.
LEMMA TableStepTyped == ASSUME TablesTyped, TableStep PROVE TablesTyped'
<1> USE DEF TablesTyped
<1>1. {"queued", "running", "interrupted"} \cup Terminal \subseteq TurnState
      /\ {"idle", "queued", "running"} = SessionState
  BY DEF TurnState, SessionState, Waiting
<1>2. CASE ElapseTurns
  <2>1. ASSUME NEW u \in Turns
        PROVE  [turns[u] EXCEPT !.leaseLeft = IF @ > 0 THEN @ - 1 ELSE 0] \in TurnRow
    <3>1. turns[u].leaseLeft \in Nat
      BY DEF TurnRow
    <3>2. (IF turns[u].leaseLeft > 0 THEN turns[u].leaseLeft - 1 ELSE 0) \in Nat
      BY <3>1
    <3> QED
      BY <3>2, TurnRows
  <2> QED
    BY <1>2, <2>1 DEF ElapseTurns
<1>3. ASSUME NEW t \in Turns,
             \/ CreateTurn(t) \/ RenewTurn(t) \/ RequestCancel(t)
             \/ \E id \in WorkerIds : ClaimTurn(t, id)
             \/ \E kind \in Kind : AppendEvent(t, kind, turns[t].fence)
             \/ \E saved \in BOOLEAN :
                   \/ \E state \in Terminal : CompleteTurn(t, state, saved)
                   \/ InterruptTurn(t, saved)
      PROVE  TablesTyped'
  <2>0. SessionOf[t] \in Sessions /\ turns[t] \in TurnRow
    BY SessionOfAssumption
  <2>1. \A state \in SessionState : MoveSession(t, state) =>
           sessions' \in [Sessions -> SessionState]
    BY <2>0 DEF MoveSession
  <2>2. ASSUME NEW row \in TurnRow, turns' = [turns EXCEPT ![t] = row]
        PROVE  turns' \in [Turns -> TurnRow]
    BY <2>2
  <2>3. CASE CreateTurn(t)
    <3>1. [turns[t] EXCEPT !.state = "queued"] \in TurnRow
      BY <1>1, <2>0, TurnRows
    <3> QED
      BY <1>1, <2>1, <2>2, <2>3, <3>1 DEF CreateTurn
  <2>4. CASE RenewTurn(t)
    <3>1. [turns[t] EXCEPT !.leaseLeft = TurnLeaseTicks] \in TurnRow
      BY <2>0, TurnRows, TurnLeaseAssumption
    <3> QED
      BY <2>2, <2>4, <3>1 DEF RenewTurn
  <2>5. CASE RequestCancel(t)
    <3>1. [turns[t] EXCEPT !.cancel = TRUE] \in TurnRow
      BY <2>0, TurnRows
    <3> QED
      BY <2>2, <2>5, <3>1 DEF RequestCancel
  <2>6. ASSUME NEW id \in WorkerIds, ClaimTurn(t, id) PROVE TablesTyped'
    <3>1. [turns[t] EXCEPT !.state = "running", !.worker = id,
                           !.fence = @ + 1, !.leaseLeft = TurnLeaseTicks] \in TurnRow
      BY <2>0, TurnRows, TurnLeaseAssumption
    <3> QED
      BY <1>1, <2>1, <2>2, <2>6, <3>1 DEF ClaimTurn
  <2>7. ASSUME NEW kind \in Kind, AppendEvent(t, kind, turns[t].fence) PROVE TablesTyped'
    <3>1. [turns[t] EXCEPT !.events =
             Append(@, [kind |-> kind, by |-> turns[t].fence])] \in TurnRow
      BY <2>0, TurnRows
    <3> QED
      BY <2>2, <2>7, <3>1 DEF AppendEvent
  <2>8. ASSUME NEW saved \in BOOLEAN,
               NEW state \in Terminal \cup {"interrupted"},
               NEW session \in SessionState,
               EndTurn(t, state, saved), MoveSession(t, session)
        PROVE  TablesTyped'
    <3>1. [turns[t] EXCEPT !.state = state, !.worker = NoWorkerId,
                           !.leaseLeft = 0, !.saved = saved] \in TurnRow
      BY <1>1, <2>0, TurnRows
    <3> QED
      BY <2>1, <2>2, <2>8, <3>1 DEF EndTurn
  <2>9. ASSUME NEW saved \in BOOLEAN,
               \/ \E state \in Terminal : CompleteTurn(t, state, saved)
               \/ InterruptTurn(t, saved)
        PROVE  TablesTyped'
    BY <1>1, <2>8, <2>9 DEF CompleteTurn, InterruptTurn
  <2> QED
    BY <1>3, <2>3, <2>4, <2>5, <2>6, <2>7, <2>9
<1>4. CASE UNCHANGED tables
  BY <1>4 DEF tables
<1> QED
  BY <1>2, <1>3, <1>4 DEF TableStep

-----------------------------------------------------------------------------
\* The steps of the outbox, and of the workers.

\* What a step does to the messages; only one acknowledges.
OutboxStep ==
    \/ UNCHANGED outbox
    \/ ElapseOutbox
    \/ \E m \in Messages :
          \/ InsertMessage(m) \/ RenewMessage(m)
          \/ \E owner \in Owners : ClaimMessage(m, owner)
          \/ \E state \in {"pending", "dead_letter"}, delay \in Nat :
                outbox' = [outbox EXCEPT ![m] = FinishedRow(@, state, delay)]

AckStep ==
    \E w \in Workers : pc[w] = "ack" /\ AcknowledgeMessage(hand[w].turn)

\* Every step changes the outbox by one of its operations; an acknowledgement
\* is told apart.
LEMMA NextOutbox == ASSUME TypeOK, Next PROVE OutboxStep \/ AckStep
<1>0. WorkersTyped
  BY TypeGroups
<1>1. ASSUME NEW w \in Workers, NEW t \in Turns, ClaimTurnMessage(w, t) PROVE OutboxStep
  BY <1>1, IdOfAssumption, NamesAssumption DEF ClaimTurnMessage, OutboxStep
<1>2. ASSUME NEW w \in Workers, RetryTurn(w) PROVE OutboxStep
  <2>1. /\ hand[w].turn \in Messages
        /\ RetryTarget(hand[w].turn, MaxAttempts) \in {"pending", "dead_letter"}
        /\ \A target : (IF target = "pending" THEN RetryTicks ELSE 0) \in Nat
    BY <1>0, <1>2, HandFields, RetryAssumption DEF RetryTurn, RetryTarget
  <2> QED
    BY <1>2, <2>1 DEF RetryTurn, RetryMessage, OutboxStep
<1>3. ASSUME NEW w \in Workers, AcknowledgeTurn(w) PROVE OutboxStep \/ AckStep
  BY <1>3 DEF AcknowledgeTurn, OutboxStep, AckStep
<1>4. ASSUME NEW w \in Workers, BeatMessage(w) PROVE OutboxStep
  <2>1. CASE pc[w] = "idle"
    <3>1. hand[w].turn = NoTurnId
      BY <1>0, <2>1 DEF WorkersTyped
    <3>2. outbox \in [Messages -> Row]
      BY TypeGroups
    <3>3. RenewMessage(NoTurnId) => UNCHANGED outbox
      BY <3>2, NamesAssumption DEF RenewMessage
    <3> QED
      BY <1>4, <3>1, <3>3 DEF BeatMessage, OutboxStep
  <2> QED
    BY <1>0, <1>4, <2>1, HandFields DEF BeatMessage, OutboxStep
<1>5. ASSUME NEW t \in Turns, EnqueueTurn(t) PROVE OutboxStep
  BY <1>5, NamesAssumption DEF EnqueueTurn, OutboxStep
<1>6. CASE Tick
  BY <1>6 DEF Tick, OutboxStep
<1>7. ASSUME NEW w \in Workers,
             \/ ClaimTheTurn(w) \/ TurnBusy(w) \/ ReadTurn(w) \/ OpenStream(w)
             \/ (\E kind \in StreamKinds : ReceiveEvent(w, kind)) \/ StreamBreaks(w)
             \/ CheckCancel(w) \/ FinishTurn(w) \/ CancelAtAgentd(w) \/ CancelAppend(w)
             \/ InterruptMyTurn(w) \/ BeatTurn(w) \/ Crash(w)
      PROVE  OutboxStep
  BY <1>7 DEF ClaimTheTurn, TurnBusy, ReadTurn, OpenStream, ReceiveEvent, StreamBreaks,
     CheckCancel, FinishTurn, CancelAtAgentd, CancelAppend, InterruptMyTurn, BeatTurn,
     Crash, OutboxStep
<1>8. ASSUME NEW t \in Turns, SubmitMessage(t) \/ CancelRequest(t) \/ AgentdReleases(t)
      PROVE  OutboxStep
  BY <1>8 DEF SubmitMessage, CancelRequest, AgentdReleases, OutboxStep
<1> QED
  BY <1>1, <1>2, <1>3, <1>4, <1>5, <1>6, <1>7, <1>8 DEF Next, Work

\* The operations of the outbox keep its rows well typed.
LEMMA OutboxTypedStep ==
    ASSUME outbox \in [Messages -> Row], WorkersTyped, OutboxStep \/ AckStep
    PROVE  (outbox \in [Messages -> Row])'
<1>1. ASSUME NEW m \in Messages, NEW row \in Row, outbox' = [outbox EXCEPT ![m] = row]
      PROVE  outbox' \in [Messages -> Row]
  BY <1>1
<1>2. ASSUME NEW m \in Messages,
             \/ InsertMessage(m) \/ RenewMessage(m)
             \/ \E owner \in Owners : ClaimMessage(m, owner)
      PROVE  outbox' \in [Messages -> Row]
  <2>1. outbox[m] \in Row
    OBVIOUS
  <2>2. /\ [outbox[m] EXCEPT !.state = "pending"] \in Row
        /\ [outbox[m] EXCEPT !.leaseLeft = LeaseTicks] \in Row
        /\ \A owner \in Owners : ClaimedRow(outbox[m], owner) \in Row
    BY <2>1, RowSteps
  <2> QED
    BY <1>1, <1>2, <2>2 DEF InsertMessage, RenewMessage, ClaimMessage
<1>3. ASSUME NEW m \in Messages, NEW state \in {"pending", "dead_letter", "succeeded"},
             NEW delay \in Nat, outbox' = [outbox EXCEPT ![m] = FinishedRow(@, state, delay)]
      PROVE  outbox' \in [Messages -> Row]
  <2>1. FinishedRow(outbox[m], state, delay) \in Row
    BY RowSteps DEF MessageState
  <2> QED
    BY <1>1, <1>3, <2>1
<1>4. CASE AckStep
  BY <1>3, <1>4, HandFields DEF AckStep, AcknowledgeMessage
<1>5. CASE ElapseOutbox
  <2>1. \A m \in Messages : ElapsedRow(outbox[m]) \in Row
    BY RowSteps
  <2> QED
    BY <1>5, <2>1 DEF ElapseOutbox
<1> QED
  BY <1>2, <1>3, <1>4, <1>5 DEF OutboxStep

\* A worker that goes on, or gives up, with its message.
LEMMA Moves ==
    ASSUME WorkersTyped, NEW w \in Workers, pc[w] # "idle",
           Leave(w) \/ \E place \in PC \ {"idle"} : Goto(w, place)
    PROVE  WorkersTyped'
<1> USE DEF WorkersTyped
<1>1. NoHand \in Hand /\ NoHand.turn = NoTurnId /\ NoStream \in Stream
      /\ "off" \in Beats /\ "idle" \in PC
  BY DEF NoHand, Hand, NoStream, Stream, Beats, PC
<1>2. CASE Leave(w)
  BY <1>1, <1>2 DEF Leave
<1>3. ASSUME NEW place \in PC \ {"idle"}, Goto(w, place) PROVE WorkersTyped'
  BY <1>3 DEF Goto
<1> QED
  BY <1>2, <1>3

\* A step of a worker on its message keeps what the worker holds well typed.
LEMMA WorkTyped ==
    ASSUME WorkersTyped, TablesTyped, TablesTyped', NEW w \in Workers, Work(w)
    PROVE  WorkersTyped'
<1>0. pc[w] # "idle"
  BY DEF Work, ClaimTheTurn, TurnBusy, ReadTurn, OpenStream, ReceiveEvent, StreamBreaks,
         CheckCancel, FinishTurn, CancelAtAgentd, CancelAppend, InterruptMyTurn,
         RetryTurn, AcknowledgeTurn
<1>1. hand[w].turn \in Turns /\ hand[w] \in Hand /\ stream[w] \in Stream
  BY <1>0, HandFields DEF WorkersTyped
<1>2. ASSUME NEW place \in PC \ {"idle"}, NEW s \in Stream, NEW b \in Beats,
             pc' = [pc EXCEPT ![w] = place],
             hand' = hand, stream' \in {stream, [stream EXCEPT ![w] = s]},
             beat' \in {beat, [beat EXCEPT ![w] = b]}
      PROVE  WorkersTyped'
  BY <1>0, <1>2 DEF WorkersTyped
<1>3. CASE ClaimTheTurn(w)
  <2>1. CASE pc' = [pc EXCEPT ![w] = "readTurn"]
             /\ hand' = [hand EXCEPT ![w].fence = turns'[hand[w].turn].fence]
             /\ UNCHANGED <<stream, beat>>
    <3>1. turns'[hand[w].turn].fence \in Nat
      BY <1>1 DEF TablesTyped, TurnRow
    <3>2. \A n \in Nat : [hand[w] EXCEPT !.fence = n] \in Hand
                        /\ [hand[w] EXCEPT !.fence = n].turn = hand[w].turn
      BY <1>1 DEF Hand
    <3> QED
      BY <1>0, <2>1, <3>1, <3>2 DEF WorkersTyped, PC
  <2>2. CASE Leave(w) \/ Goto(w, "turnBusy")
    BY <1>0, <2>2, Moves DEF PC
  <2> QED
    BY <1>3, <2>1, <2>2 DEF ClaimTheTurn
<1>4. CASE ReadTurn(w)
  <2> DEFINE turn == turns[hand[w].turn]
             base == IF turn.saved \/ turn.cancel THEN Len(turn.events) ELSE 0
  <2>1. Len(turn.events) \in Nat /\ turn.saved \in BOOLEAN
    <3>1. turn.events \in Seq(Event) /\ turn.saved \in BOOLEAN
      BY <1>1 DEF TablesTyped, TurnRow
    <3> QED
      BY <3>1, LenProperties
  <2>2. base \in Nat
    BY <2>1
  <2>3. [NoStream EXCEPT !.base = base, !.saved = turn.saved] \in Stream
    BY <2>1, <2>2 DEF NoStream, Stream
  <2> QED
    BY <1>2, <1>4, <2>3 DEF ReadTurn, PC, WorkersTyped, Beats
<1>5. CASE OpenStream(w)
  <2>1. CASE Goto(w, "interrupt")
    BY <1>0, <2>1, Moves DEF PC
  <2> QED
    BY <1>1, <1>2, <1>5, <2>1 DEF OpenStream, PC, Beats
<1>6. ASSUME NEW kind \in StreamKinds, ReceiveEvent(w, kind) PROVE WorkersTyped'
  <2> DEFINE ended == kind \notin {"progress", "checkpoint"}
             next == [stream[w] EXCEPT !.count = stream[w].count + 1,
                                       !.saved = stream[w].saved \/ kind = "checkpoint",
                                       !.end = IF ended THEN kind ELSE "none"]
  <2>1. (IF ended THEN kind ELSE "none") \in {"none", "completed", "failed", "aborted"}
    BY BoundsAssumption DEF Kind
  <2>2. stream[w].count + 1 \in Nat
    BY <1>1 DEF Stream
  <2>3. next \in Stream
    <3>1. \A n \in Nat, b \in BOOLEAN, e \in {"none", "completed", "failed", "aborted"} :
             [stream[w] EXCEPT !.count = n, !.saved = b, !.end = e] \in Stream
      BY <1>1 DEF Stream
    <3> QED
      BY <2>1, <2>2, <3>1
  <2>4. CASE Goto(w, "interrupt")
    BY <1>0, <2>4, Moves DEF PC
  <2> HIDE DEF next
  <2>5. CASE pc' = [pc EXCEPT ![w] = "check"]
             /\ stream' = [stream EXCEPT ![w] = next] /\ UNCHANGED <<hand, beat>>
    BY <1>2, <2>3, <2>5 DEF PC, Beats
  <2> USE DEF next
  <2> QED
    BY <1>6, <2>4, <2>5 DEF ReceiveEvent
<1>7. CASE CancelAppend(w)
  <2>1. [stream[w] EXCEPT !.end = "aborted"] \in Stream
    BY <1>1 DEF Stream
  <2>2. CASE Leave(w)
    BY <1>0, <2>2, Moves
  <2> QED
    BY <1>2, <1>7, <2>1, <2>2 DEF CancelAppend, PC, Beats
<1>8. CASE TurnBusy(w)
  BY <1>0, <1>8, Moves DEF TurnBusy, AfterBusy, PC
<1>9. CASE StreamBreaks(w) \/ CheckCancel(w)
  BY <1>0, <1>9, Moves DEF StreamBreaks, CheckCancel, PC
<1>10. CASE FinishTurn(w) \/ CancelAtAgentd(w) \/ InterruptMyTurn(w)
  BY <1>0, <1>10, Moves DEF FinishTurn, CancelAtAgentd, InterruptMyTurn, PC
<1>11. CASE RetryTurn(w) \/ AcknowledgeTurn(w)
  BY <1>0, <1>11, Moves DEF RetryTurn, AcknowledgeTurn
<1> QED
  BY <1>3, <1>4, <1>5, <1>6, <1>7, <1>8, <1>9, <1>10, <1>11 DEF Work

-----------------------------------------------------------------------------
\* Types.

\* The initial state is well typed.
LEMMA InitTyped == Init => TypeOK
<1> SUFFICES ASSUME Init PROVE TypeOK
  OBVIOUS
<1>1. outbox \in [Messages -> Row]
  BY DEF Init, OutboxInit, NoRow, Row, MessageState
<1>2. TablesTyped
  <2>1. NoTurn \in TurnRow
    BY DEF NoTurn, TurnRow, TurnState, Waiting, Terminal
  <2> QED
    BY <2>1 DEF Init, TablesInit, TablesTyped, SessionState
<1>3. WorkersTyped
  BY DEF Init, WorkersTyped, PC, NoHand, Hand, NoStream, Stream, Beats
<1>4. BoundsTyped
  BY BoundsAssumption DEF Init, BoundsTyped
<1> QED
  BY <1>1, <1>2, <1>3, <1>4, TypeGroups

\* Every step keeps the counters within their bounds.
LEMMA NextBounds == ASSUME TypeOK, Next PROVE BoundsTyped'
<1> USE BoundsAssumption DEF BoundsTyped
<1>0. BoundsTyped /\ WorkersTyped
  BY TypeGroups
<1>1. CASE UNCHANGED <<active, crashes, overruns>>
  BY <1>0, <1>1
<1>2. ASSUME NEW w \in Workers, OpenStream(w) PROVE BoundsTyped'
  BY <1>0, <1>2, HandFields DEF OpenStream, faults
<1>3. ASSUME NEW w \in Workers, CancelAtAgentd(w) \/ Crash(w) PROVE BoundsTyped'
  BY <1>0, <1>3 DEF CancelAtAgentd, Crash
<1>4. ASSUME NEW t \in Turns, AgentdReleases(t) PROVE BoundsTyped'
  BY <1>0, <1>4 DEF AgentdReleases, faults
<1>5. CASE Tick
  <2>1. Cardinality(Overrun) \in Nat
    <3>1. Overrun \subseteq Workers
      BY DEF Overrun
    <3> QED
      BY <3>1, WorkersAssumption, FS_Subset, FS_CardinalityType
  <2> QED
    BY <1>0, <1>5, <2>1 DEF Tick
<1>6. ASSUME NEW w \in Workers,
             \/ ClaimTheTurn(w) \/ TurnBusy(w) \/ ReadTurn(w)
             \/ (\E kind \in StreamKinds : ReceiveEvent(w, kind)) \/ StreamBreaks(w)
             \/ CheckCancel(w) \/ FinishTurn(w) \/ CancelAppend(w)
             \/ InterruptMyTurn(w) \/ RetryTurn(w) \/ AcknowledgeTurn(w)
             \/ BeatTurn(w) \/ BeatMessage(w) \/ (\E t \in Turns : ClaimTurnMessage(w, t))
      PROVE  UNCHANGED <<active, crashes, overruns>>
  BY <1>6 DEF ClaimTheTurn, TurnBusy, ReadTurn, ReceiveEvent, StreamBreaks, CheckCancel,
     FinishTurn, CancelAppend, InterruptMyTurn, RetryTurn, AcknowledgeTurn, BeatTurn,
     BeatMessage, ClaimTurnMessage, faults
<1>7. ASSUME NEW t \in Turns, SubmitMessage(t) \/ EnqueueTurn(t) \/ CancelRequest(t)
      PROVE  UNCHANGED <<active, crashes, overruns>>
  BY <1>7 DEF SubmitMessage, EnqueueTurn, CancelRequest, faults
<1> QED
  BY <1>1, <1>2, <1>3, <1>4, <1>5, <1>6, <1>7 DEF Next, Work

\* Every step keeps what the workers hold well typed.
LEMMA NextWorkers == ASSUME TypeOK, TablesTyped', outbox' \in [Messages -> Row], Next
                     PROVE  WorkersTyped'
<1>0. TablesTyped /\ WorkersTyped
  BY TypeGroups
<1>1. ASSUME NEW w \in Workers, NEW t \in Turns, ClaimTurnMessage(w, t)
      PROVE  WorkersTyped'
  <2>1. outbox'[t].fencingToken \in Nat /\ t # NoTurnId
    BY NamesAssumption DEF Row
  <2>2. [turn |-> t, token |-> outbox'[t].fencingToken, fence |-> 0] \in Hand
    BY <2>1 DEF Hand
  <2> QED
    BY <1>0, <1>1, <2>1, <2>2 DEF ClaimTurnMessage, WorkersTyped, PC
<1>2. ASSUME NEW w \in Workers, Work(w) PROVE WorkersTyped'
  BY <1>0, <1>2, WorkTyped
<1>3. ASSUME NEW w \in Workers, BeatTurn(w) \/ BeatMessage(w) PROVE WorkersTyped'
  BY <1>0, <1>3 DEF BeatTurn, BeatMessage, mine, WorkersTyped, Beats
<1>4. ASSUME NEW w \in Workers, Crash(w) PROVE WorkersTyped'
  BY <1>0, <1>4, Moves DEF Crash
<1>5. CASE UNCHANGED <<pc, hand, stream, beat>>
  BY <1>0, <1>5 DEF WorkersTyped
<1>6. ASSUME NEW t \in Turns,
             SubmitMessage(t) \/ EnqueueTurn(t) \/ CancelRequest(t) \/ AgentdReleases(t)
      PROVE  UNCHANGED <<pc, hand, stream, beat>>
  BY <1>6 DEF SubmitMessage, EnqueueTurn, CancelRequest, AgentdReleases, mine
<1> QED
  BY <1>1, <1>2, <1>3, <1>4, <1>5, <1>6 DEF Next, Tick, mine

\* Type correctness is inductive.
LEMMA NextTyped == TypeOK /\ [Next]_vars => TypeOK'
<1> SUFFICES ASSUME TypeOK, [Next]_vars PROVE TypeOK'
  OBVIOUS
<1>1. CASE Next
  <2>1. TablesTyped'
    BY <1>1, NextTables, TableStepTyped, TypeGroups
  <2>2. (outbox \in [Messages -> Row])'
    BY <1>1, NextOutbox, OutboxTypedStep, TypeGroups
  <2>3. WorkersTyped' /\ BoundsTyped'
    BY <1>1, <2>1, <2>2, NextWorkers, NextBounds
  <2> QED
    BY <2>1, <2>2, <2>3 DEF TypeOK, TablesTyped, WorkersTyped, BoundsTyped, Hand, Stream, Beats
<1>2. CASE UNCHANGED vars
  BY <1>2 DEF vars, TypeOK
<1> QED
  BY <1>1, <1>2

\* Every row, claim and stream is of its kind, and a worker is busy exactly
\* when it has a message.
THEOREM TypeInvariant == Spec => []TypeOK
  BY InitTyped, NextTyped, PTL DEF Spec

-----------------------------------------------------------------------------
\* Safety.

\* A Turn that is over is not written any more.
LEMMA TablesOverForGood ==
    ASSUME TypeOK, Next, NEW t \in Turns, turns[t].state \in Terminal
    PROVE  turns'[t].state = turns[t].state /\ turns'[t].events = turns[t].events
<1>0. TableStep /\ TablesTyped /\ turns[t] \in TurnRow
  BY NextTables, TypeGroups DEF TablesTyped
<1>1. CASE UNCHANGED tables
  BY <1>1 DEF tables
<1>2. CASE ElapseTurns
  BY <1>0, <1>2 DEF ElapseTurns, TurnRow
<1>3. ASSUME NEW u \in Turns, CreateTurn(u) \/ RenewTurn(u) \/ RequestCancel(u)
      PROVE  turns'[t].state = turns[t].state /\ turns'[t].events = turns[t].events
  <2>1. \/ turns'[t] = turns[t]
        \/ turns'[t] = [turns[t] EXCEPT !.leaseLeft = TurnLeaseTicks]
        \/ turns'[t] = [turns[t] EXCEPT !.cancel = TRUE]
    <3>1. CASE CreateTurn(u)
      BY <1>0, <3>1 DEF CreateTurn, TablesTyped, Terminal
    <3>2. CASE RenewTurn(u)
      BY <1>0, <3>2 DEF RenewTurn, TablesTyped
    <3>3. CASE RequestCancel(u)
      BY <1>0, <3>3 DEF RequestCancel, TablesTyped
    <3> QED
      BY <1>3, <3>1, <3>2, <3>3
  <2> QED
    BY <1>0, <2>1 DEF TurnRow
<1>4. ASSUME NEW u \in Turns, NEW row, u # t, turns' = [turns EXCEPT ![u] = row]
      PROVE  turns'[t] = turns[t]
  BY <1>0, <1>4 DEF TablesTyped
<1>5. ASSUME NEW u \in Turns, ClaimableTurn(u) \/ turns[u].state = "running"
      PROVE  u # t
  BY <1>5 DEF ClaimableTurn, Recoverable, Waiting, Terminal
<1>6. ASSUME NEW u \in Turns, u # t,
             \/ \E id \in WorkerIds : ClaimTurn(u, id)
             \/ \E kind \in Kind : AppendEvent(u, kind, turns[u].fence)
             \/ \E saved \in BOOLEAN :
                   \/ \E state \in Terminal : CompleteTurn(u, state, saved)
                   \/ InterruptTurn(u, saved)
      PROVE  turns'[t] = turns[t]
  BY <1>0, <1>6 DEF ClaimTurn, AppendEvent, CompleteTurn, InterruptTurn, EndTurn, TablesTyped
<1> QED
  BY <1>0, <1>1, <1>2, <1>3, <1>5, <1>6 DEF TableStep

\* A Turn that is over keeps its outcome and its events, whichever worker
\* that lost its claim comes late.
THEOREM OverForGoodAlways == Spec => OverForGood
<1> DEFINE Over == \A t \in Turns : turns[t].state \in Terminal =>
               turns'[t].state = turns[t].state /\ turns'[t].events = turns[t].events
<1>1. TypeOK /\ [Next]_vars => [Over]_vars
  BY TablesOverForGood
<1> QED
  BY <1>1, TypeInvariant, PTL DEF Spec, OverForGood

\* A worker about to acknowledge knows that its Turn is over.
AckKnows ==
    \A w \in Workers : pc[w] = "ack" => turns[hand[w].turn].state \in Terminal

AckInv == TypeOK /\ AckKnows /\ AckedMeansOver

\* A worker that is about to acknowledge knows that the Turn is over, and no
\* step makes that untrue.
LEMMA NextAckKnows == ASSUME TypeOK, AckKnows, Next PROVE AckKnows'
<1>0. WorkersTyped /\ TablesTyped
  BY TypeGroups
<1>1. ASSUME NEW w \in Workers, pc[w] = "ack", pc'[w] = "ack", hand'[w] = hand[w]
      PROVE  turns'[hand'[w].turn].state \in Terminal
  <2>1. hand[w].turn \in Turns /\ turns[hand[w].turn].state \in Terminal
    BY <1>0, <1>1, HandFields DEF AckKnows
  <2> QED
    BY <1>1, <2>1, TablesOverForGood
<1>2. ASSUME NEW w \in Workers, FinishTurn(w), pc'[w] = "ack"
      PROVE  turns'[hand'[w].turn].state \in Terminal
  <2> DEFINE t == hand[w].turn
             state == OutcomeOf(stream[w].end, turns[t].cancel)
  <2>1. t \in Turns /\ state \in Terminal
    BY <1>0, <1>2, HandFields DEF FinishTurn, OutcomeOf, Terminal, WorkersTyped, Stream
  <2>2. CompleteTurn(t, state, stream[w].saved) /\ hand' = hand
    BY <1>0, <1>2 DEF FinishTurn, Leave, Goto, WorkersTyped
  <2> QED
    BY <1>0, <2>1, <2>2 DEF CompleteTurn, EndTurn, TablesTyped
<1>3. ASSUME NEW w \in Workers, TurnBusy(w), pc'[w] = "ack"
      PROVE  turns'[hand'[w].turn].state \in Terminal
  BY <1>0, <1>3 DEF TurnBusy, AfterBusy, Goto, WorkersTyped, tables
<1>4. ASSUME NEW v \in Workers, Work(v), ~FinishTurn(v), ~TurnBusy(v)
      PROVE  pc'[v] # "ack"
  BY <1>0, <1>4 DEF Work, ClaimTheTurn, ReadTurn, OpenStream, ReceiveEvent, StreamBreaks,
     CheckCancel, CancelAtAgentd, CancelAppend, InterruptMyTurn, RetryTurn,
     AcknowledgeTurn, Goto, Leave, WorkersTyped
<1>5. ASSUME NEW v \in Workers, Work(v) \/ Crash(v)
             \/ \E t \in Turns : ClaimTurnMessage(v, t)
      PROVE  \A w \in Workers \ {v} : pc'[w] = pc[w] /\ hand'[w] = hand[w]
  BY <1>0, <1>5 DEF Work, ClaimTheTurn, TurnBusy, ReadTurn, OpenStream, ReceiveEvent,
     StreamBreaks, CheckCancel, FinishTurn, CancelAtAgentd, CancelAppend, InterruptMyTurn,
     RetryTurn, AcknowledgeTurn, ClaimTurnMessage, Crash, Goto, Leave, WorkersTyped
<1>6. ASSUME NEW v \in Workers, Crash(v) \/ \E t \in Turns : ClaimTurnMessage(v, t)
      PROVE  pc'[v] # "ack"
  BY <1>0, <1>6 DEF ClaimTurnMessage, Crash, Leave, WorkersTyped
<1>7. CASE UNCHANGED <<pc, hand>>
  BY <1>1, <1>7 DEF AckKnows
<1>8. ASSUME NEW v \in Workers, Work(v) \/ Crash(v)
             \/ \E t \in Turns : ClaimTurnMessage(v, t)
      PROVE  AckKnows'
  BY <1>1, <1>2, <1>3, <1>4, <1>5, <1>6, <1>8 DEF AckKnows
<1>9. ASSUME NEW v \in Workers, BeatTurn(v) \/ BeatMessage(v) PROVE UNCHANGED <<pc, hand>>
  BY <1>9 DEF BeatTurn, BeatMessage, mine
<1>10. ASSUME NEW t \in Turns,
              SubmitMessage(t) \/ EnqueueTurn(t) \/ CancelRequest(t) \/ AgentdReleases(t)
       PROVE  UNCHANGED <<pc, hand>>
  BY <1>10 DEF SubmitMessage, EnqueueTurn, CancelRequest, AgentdReleases, mine
<1> QED
  BY <1>7, <1>8, <1>9, <1>10 DEF Next, Tick, mine

\* The invariant behind AckedMeansOver is inductive.
LEMMA NextAckInv == AckInv /\ [Next]_vars => AckInv'
<1> SUFFICES ASSUME AckInv, [Next]_vars PROVE AckInv'
  OBVIOUS
<1>0. TypeOK' /\ outbox \in [Messages -> Row] /\ WorkersTyped
  BY NextTyped, TypeGroups DEF AckInv
<1>1. CASE Next
  <2>1. AckKnows'
    BY <1>1, NextAckKnows DEF AckInv
  <2>2. ASSUME NEW t \in Turns, outbox'[t].state = "succeeded"
        PROVE  turns[t].state \in Terminal
    <3>1. CASE OutboxStep
      <4>1. outbox[t].state = "succeeded"
        <5>1. t \in Messages /\ outbox[t] \in Row
          BY <1>0, NamesAssumption
        <5>2. CASE ElapseOutbox
          BY <2>2, <5>1, <5>2 DEF ElapseOutbox, ElapsedRow
        <5>3. ASSUME NEW m \in Messages, InsertMessage(m) \/ RenewMessage(m)
              PROVE  outbox[t].state = "succeeded"
          BY <1>0, <2>2, <5>1, <5>3 DEF InsertMessage, RenewMessage, Row
        <5>4. ASSUME NEW m \in Messages, NEW owner \in Owners, ClaimMessage(m, owner)
              PROVE  outbox[t].state = "succeeded"
          BY <1>0, <2>2, <5>1, <5>4 DEF ClaimMessage, ClaimedRow
        <5>5. ASSUME NEW m \in Messages, NEW state \in {"pending", "dead_letter"}, NEW delay \in Nat,
                     outbox' = [outbox EXCEPT ![m] = FinishedRow(@, state, delay)]
              PROVE  outbox[t].state = "succeeded"
          BY <1>0, <2>2, <5>1, <5>5 DEF FinishedRow
        <5> QED
          BY <2>2, <3>1, <5>2, <5>3, <5>4, <5>5 DEF OutboxStep
      <4> QED
        BY <4>1 DEF AckInv, AckedMeansOver
    <3>2. CASE AckStep
      <4>1. PICK w \in Workers : pc[w] = "ack" /\ AcknowledgeMessage(hand[w].turn)
        BY <3>2 DEF AckStep
      <4>2. t = hand[w].turn \/ outbox'[t] = outbox[t]
        BY <1>0, <4>1, NamesAssumption DEF AcknowledgeMessage
      <4> QED
        BY <2>2, <4>1, <4>2 DEF AckInv, AckKnows, AckedMeansOver
    <3> QED
      BY <1>1, <3>1, <3>2, NextOutbox DEF AckInv
  <2>3. AckedMeansOver'
    BY <1>1, <2>2, TablesOverForGood DEF AckInv, AckedMeansOver
  <2> QED
    BY <1>0, <2>1, <2>3 DEF AckInv
<1>2. CASE UNCHANGED vars
  BY <1>0, <1>2 DEF vars, AckInv, AckKnows, AckedMeansOver
<1> QED
  BY <1>1, <1>2

\* A message is acknowledged only when its Turn is over.
THEOREM AckedMeansOverAlways == Spec => []AckedMeansOver
<1>1. Init => AckInv
  BY InitTyped, NamesAssumption DEF AckInv, AckKnows, AckedMeansOver, Init, OutboxInit, NoRow
<1>2. AckInv => AckedMeansOver
  BY DEF AckInv
<1> QED
  BY <1>1, <1>2, NextAckInv, PTL DEF Spec

-----------------------------------------------------------------------------

IsOpen(t) == turns[t].state \in Waiting \cup {"running"}

\* SessionFollowsTurns, Turn by Turn.
SessionInv ==
    /\ \A t \in Turns : IsOpen(t) =>
          /\ sessions[SessionOf[t]] = IF turns[t].state = "running" THEN "running" ELSE "queued"
          /\ \A u \in Turns \ {t} : SessionOf[u] = SessionOf[t] => ~IsOpen(u)
    /\ \A s \in Sessions : sessions[s] # "idle" => \E t \in Turns : SessionOf[t] = s /\ IsOpen(t)

\* The inductive form of SessionFollowsTurns says the same as the property.
LEMMA SessionByTurn == ASSUME TablesTyped PROVE SessionInv <=> SessionFollowsTurns
<1> USE SessionOfAssumption DEF SessionInv, SessionFollowsTurns, IsOpen
<1>1. \A s \in Sessions : sessions[s] \in {"idle", "queued", "running"}
  BY DEF TablesTyped, SessionState
<1>2. ASSUME SessionInv PROVE SessionFollowsTurns
  BY <1>1, <1>2
<1>3. ASSUME SessionFollowsTurns PROVE SessionInv
  BY <1>1, <1>3
<1> QED
  BY <1>2, <1>3

\* A step that changes one Turn, and its session to what the Turn now is.
LEMMA OneTurnMoves ==
    ASSUME TablesTyped, SessionInv, NEW t \in Turns, NEW state \in SessionState,
           MoveSession(t, state), \A u \in Turns \ {t} : turns'[u].state = turns[u].state,
           IsOpen(t) \/ sessions[SessionOf[t]] = "idle",
           CASE state = "idle" -> ~IsOpen(t)'
             [] state = "queued" -> turns'[t].state \in Waiting
             [] OTHER -> turns'[t].state = "running"
    PROVE  SessionInv'
<1>0. /\ SessionOf \in [Turns -> Sessions]
      /\ sessions'[SessionOf[t]] = state
      /\ \A s \in Sessions \ {SessionOf[t]} : sessions'[s] = sessions[s]
  BY SessionOfAssumption DEF MoveSession, TablesTyped
<1>1. \A u \in Turns \ {t} : IsOpen(u)' <=> IsOpen(u)
  BY DEF IsOpen
<1>2. \A u \in Turns \ {t} : SessionOf[u] = SessionOf[t] => ~IsOpen(u)
  BY DEF SessionInv, IsOpen, Waiting
<1>3. IsOpen(t)' <=> state # "idle"
  BY DEF IsOpen, SessionState, Waiting
<1>4. IsOpen(t)' => state = IF turns'[t].state = "running" THEN "running" ELSE "queued"
  BY <1>3 DEF SessionState, Waiting
<1>5. ASSUME NEW u \in Turns, IsOpen(u)'
      PROVE  /\ sessions'[SessionOf[u]] = IF turns'[u].state = "running" THEN "running" ELSE "queued"
             /\ \A v \in Turns \ {u} : SessionOf[v] = SessionOf[u] => ~IsOpen(v)'
  BY <1>0, <1>1, <1>2, <1>4, <1>5 DEF SessionInv
<1>6. ASSUME NEW s \in Sessions, sessions'[s] # "idle"
      PROVE  \E u \in Turns : SessionOf[u] = s /\ IsOpen(u)'
  BY <1>0, <1>1, <1>3, <1>6 DEF SessionInv
<1> QED
  BY <1>5, <1>6 DEF SessionInv

\* Every operation of the store keeps session and Turns in step.
LEMMA TableSessions ==
    ASSUME TablesTyped, SessionInv, TableStep
    PROVE  SessionInv'
<1> USE DEF TablesTyped
<1>1. CASE UNCHANGED sessions /\ \A t \in Turns : turns'[t].state = turns[t].state
  BY <1>1 DEF SessionInv, IsOpen
<1>2. ASSUME NEW t \in Turns, NEW row, turns' = [turns EXCEPT ![t] = row]
      PROVE  turns'[t] = row /\ \A u \in Turns \ {t} : turns'[u].state = turns[u].state
  BY <1>2
<1>3. \A t \in Turns : turns[t] \in TurnRow
  OBVIOUS
<1>4. ASSUME NEW t \in Turns, CreateTurn(t) PROVE SessionInv'
  <2>1. /\ turns'[t].state = "queued" /\ MoveSession(t, "queued")
        /\ \A u \in Turns \ {t} : turns'[u].state = turns[u].state
    BY <1>2, <1>3, <1>4 DEF CreateTurn, TurnRow
  <2> QED
    BY <1>4, <2>1, OneTurnMoves DEF CreateTurn, SessionState, Waiting
<1>5. ASSUME NEW t \in Turns, NEW id \in WorkerIds, ClaimableTurn(t),
             sessions[SessionOf[t]] # "idle", ClaimTurn(t, id)
      PROVE  SessionInv'
  <2>1. /\ turns'[t].state = "running" /\ MoveSession(t, "running")
        /\ \A u \in Turns \ {t} : turns'[u].state = turns[u].state
    BY <1>2, <1>3, <1>5 DEF ClaimTurn, TurnRow
  <2>2. IsOpen(t)
    BY <1>5 DEF IsOpen, ClaimableTurn, Recoverable
  <2> QED
    BY <2>1, <2>2, OneTurnMoves DEF SessionState
<1>6. ASSUME NEW t \in Turns, turns[t].state = "running", NEW saved \in BOOLEAN,
             \/ \E state \in Terminal : CompleteTurn(t, state, saved)
             \/ InterruptTurn(t, saved)
      PROVE  SessionInv'
  <2>0. IsOpen(t)
    BY <1>6 DEF IsOpen
  <2>1. ASSUME NEW state, EndTurn(t, state, saved)
        PROVE  turns'[t].state = state
               /\ \A u \in Turns \ {t} : turns'[u].state = turns[u].state
    BY <1>2, <1>3, <2>1 DEF EndTurn, TurnRow
  <2>2. ASSUME NEW state \in Terminal, CompleteTurn(t, state, saved) PROVE SessionInv'
    <3>1. MoveSession(t, "idle") /\ ~IsOpen(t)'
      BY <2>1, <2>2 DEF CompleteTurn, IsOpen, Terminal, Waiting
    <3> QED
      BY <2>0, <2>1, <2>2, <3>1, OneTurnMoves DEF CompleteTurn, SessionState
  <2>3. ASSUME InterruptTurn(t, saved) PROVE SessionInv'
    BY <2>0, <2>1, <2>3, OneTurnMoves DEF InterruptTurn, SessionState, Waiting
  <2> QED
    BY <1>6, <2>2, <2>3
<1>7. ASSUME NEW t \in Turns,
             \/ RenewTurn(t) \/ RequestCancel(t)
             \/ \E kind \in Kind : AppendEvent(t, kind, turns[t].fence)
      PROVE  UNCHANGED sessions /\ \A u \in Turns : turns'[u].state = turns[u].state
  <2>1. CASE RenewTurn(t)
    BY <1>2, <1>3, <2>1 DEF RenewTurn, TurnRow
  <2>2. CASE RequestCancel(t)
    BY <1>2, <1>3, <2>2 DEF RequestCancel, TurnRow
  <2>3. ASSUME NEW kind \in Kind, AppendEvent(t, kind, turns[t].fence)
        PROVE  UNCHANGED sessions /\ \A u \in Turns : turns'[u].state = turns[u].state
    BY <1>2, <1>3, <2>3 DEF AppendEvent, TurnRow
  <2> QED
    BY <1>7, <2>1, <2>2, <2>3
<1>8. CASE ElapseTurns
  BY <1>1, <1>3, <1>8 DEF ElapseTurns, TurnRow
<1>9. CASE UNCHANGED tables
  BY <1>1, <1>9 DEF tables
<1> QED
  BY <1>1, <1>4, <1>5, <1>6, <1>7, <1>8, <1>9 DEF TableStep

\* A session is idle exactly when none of its Turns waits or runs, and it never
\* has two such Turns.
THEOREM SessionFollowsTurnsAlways == Spec => []SessionFollowsTurns
<1> DEFINE Inv == TypeOK /\ SessionInv
<1>1. Init => Inv
  BY InitTyped DEF Init, TablesInit, NoTurn, SessionInv, IsOpen, Waiting
<1>2. Inv /\ [Next]_vars => Inv'
  <2>1. ASSUME Inv, Next PROVE SessionInv'
    BY <2>1, NextTables, TableSessions, TypeGroups
  <2>2. ASSUME Inv, UNCHANGED vars PROVE SessionInv'
    BY <2>2 DEF vars, SessionInv, IsOpen
  <2> QED
    BY <2>1, <2>2, NextTyped
<1>3. Inv => SessionFollowsTurns
  BY SessionByTurn, TypeGroups
<1> QED
  BY <1>1, <1>2, <1>3, PTL DEF Spec

-----------------------------------------------------------------------------

\* No event was appended under a token that is yet to come.
EventsIssued ==
    \A t \in Turns : \A i \in DOMAIN turns[t].events : turns[t].events[i].by <= turns[t].fence

EventsInv == EventsInFenceOrder /\ EventsIssued

\* Every operation of the store keeps the events in the order of the fences.
LEMMA TableEvents ==
    ASSUME TablesTyped, EventsInv, TableStep
    PROVE  EventsInv'
<1> USE DEF TablesTyped
<1>0. \A t \in Turns : turns[t] \in TurnRow /\ turns[t].fence \in Nat
                       /\ turns[t].events \in Seq(Event)
  BY DEF TurnRow
<1>0a. ASSUME NEW t \in Turns, NEW i \in DOMAIN turns[t].events
      PROVE  turns[t].events[i].by \in Nat
  <2>1. i \in 1 .. Len(turns[t].events)
    BY <1>0, LenProperties
  <2>2. turns[t].events[i] \in Event
    BY <1>0, <2>1, ElementOfSeq
  <2> QED
    BY <2>2 DEF Event
<1>1. CASE \A t \in Turns : /\ turns'[t].events = turns[t].events
                            /\ turns'[t].fence \in Nat /\ turns'[t].fence >= turns[t].fence
  <2>1. EventsInFenceOrder'
    BY <1>1 DEF EventsInv, EventsInFenceOrder
  <2>2. ASSUME NEW t \in Turns, NEW i \in DOMAIN turns'[t].events
        PROVE  turns'[t].events[i].by <= turns'[t].fence
    <3>1. turns[t].events[i].by \in Nat
      BY <1>0a, <1>1, <2>2
    <3>2. turns[t].events[i].by <= turns[t].fence
      BY <1>1, <2>2 DEF EventsInv, EventsIssued
    <3> QED
      BY <1>0, <1>1, <3>1, <3>2
  <2> QED
    BY <2>1, <2>2 DEF EventsInv, EventsIssued
<1>2. ASSUME NEW t \in Turns, NEW kind \in Kind, AppendEvent(t, kind, turns[t].fence)
      PROVE  EventsInv'
  <2> DEFINE old == turns[t].events
             event == [kind |-> kind, by |-> turns[t].fence]
  <2>1. /\ turns'[t].events = Append(old, event) /\ turns'[t].fence = turns[t].fence
        /\ \A u \in Turns \ {t} : turns'[u] = turns[u]
    BY <1>0, <1>2 DEF AppendEvent, TurnRow
  <2>2. /\ DOMAIN Append(old, event) = 1 .. (Len(old) + 1)
        /\ Append(old, event)[Len(old) + 1] = event
        /\ \A i \in 1 .. Len(old) : Append(old, event)[i] = old[i]
        /\ Len(old) \in Nat /\ DOMAIN old = 1 .. Len(old)
    BY <1>0
  <2>3. \A i \in 1 .. Len(old) : old[i].by \in Nat /\ old[i].by <= turns[t].fence
    BY <1>0a, <2>2 DEF EventsInv, EventsIssued
  <2>4. \A i, j \in 1 .. Len(old) : i < j => old[i].by <= old[j].by
    BY <2>2 DEF EventsInv, EventsInFenceOrder
  <2>5. \A i \in DOMAIN turns'[t].events : turns'[t].events[i].by <= turns'[t].fence
    BY <1>0, <2>1, <2>2, <2>3
  <2>6. \A i, j \in DOMAIN turns'[t].events :
           i < j => turns'[t].events[i].by <= turns'[t].events[j].by
    BY <2>1, <2>2, <2>3, <2>4
  <2> QED
    BY <2>1, <2>5, <2>6 DEF EventsInv, EventsInFenceOrder, EventsIssued
<1>3. ASSUME NEW t \in Turns, NEW row, turns' = [turns EXCEPT ![t] = row],
             row.events = turns[t].events,
             row.fence \in {turns[t].fence, turns[t].fence + 1}
      PROVE  EventsInv'
  <2>1. \A u \in Turns : /\ turns'[u].events = turns[u].events
                         /\ turns'[u].fence \in {turns[u].fence, turns[u].fence + 1}
    BY <1>3
  <2> QED
    BY <1>0, <1>1, <2>1
<1>4. ASSUME NEW t \in Turns,
             \/ CreateTurn(t) \/ RenewTurn(t) \/ RequestCancel(t)
             \/ \E id \in WorkerIds : ClaimTurn(t, id)
             \/ \E saved \in BOOLEAN :
                   \/ \E state \in Terminal : CompleteTurn(t, state, saved)
                   \/ InterruptTurn(t, saved)
      PROVE  EventsInv'
  <2>1. CASE CreateTurn(t)
    BY <1>0, <1>3, <2>1 DEF CreateTurn, TurnRow
  <2>2. CASE RenewTurn(t)
    BY <1>0, <1>3, <2>2 DEF RenewTurn, TurnRow
  <2>3. CASE RequestCancel(t)
    BY <1>0, <1>3, <2>3 DEF RequestCancel, TurnRow
  <2>4. ASSUME NEW id \in WorkerIds, ClaimTurn(t, id) PROVE EventsInv'
    BY <1>0, <1>3, <2>4 DEF ClaimTurn, TurnRow
  <2>5. ASSUME NEW state, NEW saved, EndTurn(t, state, saved) PROVE EventsInv'
    BY <1>0, <1>3, <2>5 DEF EndTurn, TurnRow
  <2> QED
    BY <1>4, <2>1, <2>2, <2>3, <2>4, <2>5 DEF CompleteTurn, InterruptTurn
<1>5. CASE ElapseTurns
  <2>1. \A t \in Turns : turns'[t].events = turns[t].events /\ turns'[t].fence = turns[t].fence
    BY <1>0, <1>5 DEF ElapseTurns, TurnRow
  <2> QED
    BY <1>0, <1>1, <2>1
<1>6. CASE UNCHANGED tables
  BY <1>0, <1>1, <1>6 DEF tables
<1> QED
  BY <1>2, <1>4, <1>5, <1>6 DEF TableStep

\* The events of a Turn stand in the order of the claims that wrote them.
THEOREM EventsInFenceOrderAlways == Spec => []EventsInFenceOrder
<1> DEFINE Inv == TypeOK /\ EventsInv
<1>1. Init => Inv
  BY InitTyped DEF Init, TablesInit, NoTurn, EventsInv, EventsInFenceOrder, EventsIssued
<1>2. Inv /\ [Next]_vars => Inv'
  <2>1. ASSUME Inv, Next PROVE EventsInv'
    BY <2>1, NextTables, TableEvents, TypeGroups
  <2>2. ASSUME Inv, UNCHANGED vars PROVE EventsInv'
    BY <2>2 DEF vars, EventsInv, EventsInFenceOrder, EventsIssued
  <2> QED
    BY <2>1, <2>2, NextTyped
<1>3. Inv => EventsInFenceOrder
  BY DEF EventsInv
<1> QED
  BY <1>1, <1>2, <1>3, PTL DEF Spec

=============================================================================
