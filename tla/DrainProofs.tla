----------------------------- MODULE DrainProofs -----------------------------
(***************************************************************************)
(* Proofs about TerminalDrain, for any number of workers, crashes,         *)
(* overruns, rotations and errors: a stopped watch stays stopped, only a   *)
(* drain that is over lets logs_finalize go, every state is well typed.    *)
(* Under conditions that are stated with them: a watch that has stopped    *)
(* has read its logs to the end, and a hand-over that was acknowledged     *)
(* leaves no logs_finalize waiting.                                        *)
(***************************************************************************)
EXTENDS TerminalDrain, FiniteSetTheorems, TLAPS

\* Nobody's lease fits the row of a stopped watch.
StoppedUnleased == watch.state = "stopped" => \A w \in Workers : ~current[w]

\* The watch has one lease: a claim gives it a token that fits no older one.
OneLease == \A v, w \in Workers : current[v] /\ current[w] => v = w

\* Whoever hands over does so for a watch that has stopped.
HandingOver ==
    \A w \in Workers :
        pc[w] \in {"handoff", "acknowledge"} => watch.state = "stopped"

\* As much of the types as the argument needs.
Shape ==
    /\ pc \in [Workers -> PC]
    /\ current \in [Workers -> BOOLEAN]
    /\ watch \in [state: WatchState, leaseLeft: Nat, handedOff: BOOLEAN]

DrainInv == Shape /\ StoppedUnleased /\ OneLease /\ HandingOver

\* What every step keeps, stated once for the two theorems.
Kept ==
    /\ DrainInv'
    /\ watch.state = "stopped" => watch'.state = "stopped"
    /\ logs = "waiting_runtime_watch" /\ logs' # logs => watch.state = "stopped"

\* The invariant of the drain holds at the start.
LEMMA InitDrain == Init => DrainInv
BY DEF Init, DrainInv, Shape, StoppedUnleased, OneLease, HandingOver, WatchState, PC

\* Every step of a worker keeps it, action by action.
LEMMA WorkDrain == ASSUME DrainInv, NEW w \in Workers, Work(w) PROVE Kept
<1> USE DEF DrainInv, Shape, StoppedUnleased, OneLease, HandingOver, Kept, PC, WatchState
<1>1. ASSUME ListStopped(w) PROVE Kept
  BY <1>1 DEF ListStopped, Goto, locals, HandoffOwed
<1>2. ASSUME ListDue(w) PROVE Kept
  BY <1>2 DEF ListDue, Goto, locals
<1>3. ASSUME ListNothing(w) PROVE Kept
  BY <1>3 DEF ListNothing, Goto, locals
<1>4. ASSUME ClaimWatch(w) PROVE Kept
  <2>1. CASE watch.state # "stopped" /\ watch.leaseLeft = 0
    <3>0. current' \in [Workers -> BOOLEAN]
      <4>1. current' = [v \in Workers |-> v = w]
        BY <1>4, <2>1 DEF ClaimWatch
      <4> QED BY <4>1, Zenon
    <3>5. \A u, v \in Workers : current'[u] /\ current'[v] => u = v
      BY <1>4, <2>1 DEF ClaimWatch
    <3>1. /\ watch'.state = watch.state
          /\ watch' \in [state: WatchState, leaseLeft: Nat, handedOff: BOOLEAN]
      BY <1>4, <2>1, PolicyAssumption DEF ClaimWatch
    <3>2. /\ pc' \in [Workers -> PC] /\ logs' = logs
          /\ \A v \in Workers : pc'[v] = pc[v] \/ pc'[v] = "renew"
      BY <1>4, <2>1 DEF ClaimWatch, Goto
    <3> QED BY <2>1, <3>0, <3>5, <3>1, <3>2
  <2>2. CASE ~(watch.state # "stopped" /\ watch.leaseLeft = 0)
    BY <1>4, <2>2 DEF ClaimWatch, Goto, EndPoll
  <2> QED BY <2>1, <2>2
<1>5. ASSUME RenewWatch(w) PROVE Kept
  BY <1>5, PolicyAssumption DEF RenewWatch, Goto, locals, HoldsLease, EndPoll
<1>6. ASSUME StatLog(w) \/ ReadNext(w) PROVE Kept
  BY <1>6 DEF StatLog, ReadNext, Goto, locals
<1>7. ASSUME CommitSegment(w) PROVE Kept
  <2>1. /\ current' \in {current, [current EXCEPT ![w] = FALSE]}
        /\ watch' = watch /\ logs' = logs
    BY <1>7 DEF CommitSegment, EndPoll
  <2>2. /\ pc' \in [Workers -> PC]
        /\ \A v \in Workers : pc'[v] = pc[v] \/ pc'[v] \in {"renew", "reconcile"}
    BY <1>7 DEF CommitSegment, Goto
  <2> QED BY <2>1, <2>2
<1>8. ASSUME ReleaseWatch(w) PROVE Kept
  <2>0. current' = [current EXCEPT ![w] = FALSE] /\ logs' = logs
    BY <1>8 DEF ReleaseWatch, EndPoll
  <2>1. CASE HoldsLease(w)
    <3>1. watch.state # "stopped"
      BY <2>1 DEF HoldsLease
    <3>2. \A v \in Workers : ~current'[v]
      BY <2>0, <2>1 DEF HoldsLease
    <3>3. /\ watch' \in [state: WatchState, leaseLeft: Nat, handedOff: BOOLEAN]
          /\ Drained(w) => watch'.state = "stopped"
      BY <1>8, <2>1 DEF ReleaseWatch, NoLease, StateAfterPoll
    <3>4. /\ pc' \in [Workers -> PC]
          /\ \A v \in Workers : \/ pc'[v] = pc[v] \/ pc'[v] = "reconcile"
                                \/ pc'[v] = "handoff" /\ Drained(w)
      BY <1>8, <2>1 DEF ReleaseWatch, Goto
    <3> QED BY <2>0, <3>1, <3>2, <3>3, <3>4
  <2>2. CASE ~HoldsLease(w)
    BY <1>8, <2>0, <2>2 DEF ReleaseWatch, Goto
  <2> QED BY <2>1, <2>2
<1>9. ASSUME PollRaises(w) PROVE Kept
  BY <1>9 DEF PollRaises, Goto, LeavePoll
<1>10. ASSUME DegradeWatch(w) PROVE Kept
  <2>1. /\ pc' \in [Workers -> PC] /\ logs' = logs
        /\ current' = [current EXCEPT ![w] = FALSE]
        /\ \A v \in Workers : pc'[v] = pc[v] \/ pc'[v] = "reconcile"
    BY <1>10 DEF DegradeWatch, Goto, EndPoll
  <2>2. CASE HoldsLease(w)
    <3>1. watch.state # "stopped" /\ \A v \in Workers : ~current'[v]
      BY <2>1, <2>2 DEF HoldsLease
    <3>2. watch' \in [state: WatchState, leaseLeft: Nat, handedOff: BOOLEAN]
      BY <1>10, <2>2 DEF DegradeWatch, NoLease
    <3> QED BY <2>1, <3>1, <3>2
  <2>3. CASE ~HoldsLease(w)
    BY <1>10, <2>1, <2>3 DEF DegradeWatch
  <2> QED BY <2>2, <2>3
<1>11. ASSUME HandOver(w) PROVE Kept
  BY <1>11 DEF HandOver, Goto, locals, ReleaseLogs
<1>12. ASSUME HandOverRaises(w) PROVE Kept
  BY <1>12 DEF HandOverRaises, Goto, locals, ReleaseLogs, AfterHandoffError
<1>13. ASSUME AcknowledgeHandoff(w) PROVE Kept
  BY <1>13 DEF AcknowledgeHandoff, Goto, locals
<1>14. ASSUME ReconcileOnce(w) PROVE Kept
  BY <1>14 DEF ReconcileOnce, Goto, locals
<1>15. ASSUME ApplySnapshot(w) PROVE Kept
  BY <1>15 DEF ApplySnapshot, Goto, locals, MakeTerminal
<1>16. ASSUME EnsureRun(w) PROVE Kept
  BY <1>16 DEF EnsureRun, Goto, locals, NewWatch
<1>17. ASSUME ScheduleTerminalDrain(w) PROVE Kept
  <2>1. /\ pc' \in [Workers -> PC] /\ logs' = logs
        /\ \A v \in Workers : pc'[v] = pc[v] \/ pc'[v] \in {"defer", "collect"}
    BY <1>17 DEF ScheduleTerminalDrain, Goto
  <2>2. CASE watch.state # "stopped"
    <3>1. /\ current' = [v \in Workers |-> FALSE]
          /\ watch' = [watch EXCEPT !.state = "finalizing", !.handedOff = FALSE]
      BY <1>17, <2>2 DEF ScheduleTerminalDrain
    <3>2. watch' \in [state: WatchState, leaseLeft: Nat, handedOff: BOOLEAN]
      BY <3>1
    <3> QED BY <2>1, <2>2, <3>1, <3>2
  <2>3. CASE watch.state = "stopped"
    BY <1>17, <2>1, <2>3 DEF ScheduleTerminalDrain
  <2> QED BY <2>2, <2>3
<1>18. ASSUME DeferLogsFinalize(w) PROVE Kept
  BY <1>18 DEF DeferLogsFinalize, Goto, locals
<1>19. ASSUME CollectLogs(w) PROVE Kept
  BY <1>19 DEF CollectLogs, Goto, locals
<1> QED BY <1>1, <1>2, <1>3, <1>4, <1>5, <1>6, <1>7, <1>8, <1>9, <1>10, <1>11, <1>12, <1>13, <1>14, <1>15, <1>16, <1>17, <1>18, <1>19 DEF Work

\* Every step keeps it, keeps a stopped watch stopped and releases
\* logs_finalize only for one.
LEMMA NextDrain == DrainInv /\ [Next]_vars => Kept
<1> SUFFICES ASSUME DrainInv, [Next]_vars PROVE Kept
  OBVIOUS
<1> USE DEF DrainInv, Shape, StoppedUnleased, OneLease, HandingOver, Kept, PC, WatchState
<1>1. ASSUME NEW w \in Workers, Work(w) PROVE Kept
  BY <1>1, WorkDrain
<1>2. ASSUME NEW w \in Workers, Crash(w) PROVE Kept
  BY <1>2 DEF Crash, Goto, EndPoll
<1>3. ASSUME NEW s \in Streams, JobWrites(s) \/ LogRotates(s) PROVE Kept
  BY <1>3 DEF JobWrites, LogRotates, locals
<1>4. CASE JobOpens \/ JobEnds
  BY <1>4 DEF JobOpens, JobEnds, locals
<1>5. CASE CancelRun
  BY <1>5 DEF CancelRun, MakeTerminal, locals
<1>6. CASE Tick
  BY <1>6 DEF Tick, locals
<1>7. CASE UNCHANGED vars
  BY <1>7 DEF vars, locals
<1> QED BY <1>1, <1>2, <1>3, <1>4, <1>5, <1>6, <1>7 DEF Next

\* It holds in every reachable state.
LEMMA DrainInvariant == Spec => []DrainInv
<1>1. DrainInv /\ [Next]_vars => DrainInv'
  BY NextDrain DEF Kept
<1> QED BY InitDrain, <1>1, PTL DEF Spec

\* A watch that has stopped stays so: neither a poll that outlived its lease
\* (release_watch), nor a late reconcile (create_watch, schedule_terminal_drain)
\* revives it.
THEOREM StoppedForGoodAlways == Spec => StoppedForGood
<1>1. DrainInv /\ [Next]_vars
        => [watch.state = "stopped" => watch'.state = "stopped"]_vars
  BY NextDrain DEF Kept
<1> QED BY DrainInvariant, <1>1, PTL DEF Spec, StoppedForGood

\* logs_finalize leaves waiting_runtime_watch only under a stopped watch
\* (on_terminal_drained comes after release_watch has gone through).
THEOREM ReleasedAfterStopAlways == Spec => ReleasedAfterStop
<1>1. DrainInv /\ [Next]_vars
        => [logs = "waiting_runtime_watch" /\ logs' # logs
              => watch.state = "stopped"]_vars
  BY NextDrain DEF Kept
<1> QED BY DrainInvariant, <1>1, PTL DEF Spec, ReleasedAfterStop

-----------------------------------------------------------------------------
\* Types.

\* At a stream's steps a stream is named, and no more is read than the
\* connection has left.
Polling ==
    \A w \in Workers :
        /\ pc[w] \in {"stat", "read", "commit"} => stream[w] \in Streams
        /\ pc[w] = "commit" => read[w].amount <= budget[w]

TypeInv == TypeOK /\ Polling

\* What a read leaves, by the bounds of the parts: Least is one of its
\* arguments and not above either.
LEMMA LeastBounds ==
    \A a, b \in Nat : Least(a, b) \in Nat /\ Least(a, b) <= a /\ Least(a, b) <= b
BY DEF Least

\* The beginning of a log is a cursor, and so is what stat makes of a cursor.
LEMMA CursorTypes ==
    /\ NothingRead \in [from: Cursor, next: Cursor, amount: Nat]
    /\ \A from \in Cursor, l \in Log : CursorAt(from, l) \in Cursor
    /\ \A c \in Cursor, n, text \in Nat :
         [c EXCEPT !.offset = @ + n, !.readFrom = text] \in Cursor
<1>1. Beginning \in Cursor
  BY PolicyAssumption DEF Beginning, Cursor, Prefix
<1>2. ASSUME NEW l \in Log PROVE PrefixOf(l) \in Prefix
  <2>1. Least(l.size, FingerprintBytes) \in 0..FingerprintBytes
    <3>1. l.size \in Nat /\ FingerprintBytes \in Nat
      BY PolicyAssumption DEF Log
    <3> QED BY <3>1, LeastBounds
  <2> QED BY <2>1 DEF PrefixOf, Prefix, Log
<1>3. ASSUME NEW from \in Cursor, NEW l \in Log PROVE CursorAt(from, l) \in Cursor
  <2>1. PrefixOf(l) \in Prefix
    BY <1>2
  <2> QED BY <2>1 DEF CursorAt, Cursor, Log
<1>4. ASSUME NEW c \in Cursor, NEW n \in Nat, NEW text \in Nat
      PROVE  [c EXCEPT !.offset = @ + n, !.readFrom = text] \in Cursor
  <2> DEFINE further == c.offset + n
             moved == [c EXCEPT !.offset = further]
  <2>1. further \in Nat
    BY DEF Cursor
  <2>2. moved \in Cursor
    <3> HIDE DEF further
    <3> QED BY <2>1 DEF Cursor
  <2>3. [moved EXCEPT !.readFrom = text] \in Cursor
    <3> HIDE DEF moved
    <3> QED BY <2>2 DEF Cursor
  <2> QED BY <2>3, Zenon
<1> QED BY <1>1, <1>3, <1>4 DEF NothingRead

\* A poll that ends leaves its worker's locals in their types.
LEMMA LeavePollTypes ==
    ASSUME TypeInv, NEW w \in Workers, LeavePoll(w)
    PROVE  /\ seen' \in [Workers -> WatchState]
           /\ stream' \in [Workers -> Streams \cup {"none"}]
           /\ budget' \in [Workers -> Nat]
           /\ read' \in [Workers -> [from: Cursor, next: Cursor, amount: Nat]]
           /\ \A v \in Workers : v # w => /\ stream'[v] = stream[v]
                                          /\ budget'[v] = budget[v]
                                          /\ read'[v] = read[v]
<1>1. NothingRead \in [from: Cursor, next: Cursor, amount: Nat]
  BY CursorTypes
<1> QED BY <1>1 DEF LeavePoll, TypeInv, TypeOK, WatchState

\* Every step of a worker keeps the types, action by action.
LEMMA WorkTypes == ASSUME TypeInv, NEW w \in Workers, Work(w) PROVE TypeInv'
<1> USE DEF TypeInv, Polling, TypeOK, PC, WatchState, LogsState, Streams
<1>1. ASSUME ListStopped(w) \/ ListNothing(w) PROVE TypeInv'
  BY <1>1 DEF ListStopped, ListNothing, Goto, job, locals, bounds
<1>17. ASSUME ListDue(w) PROVE TypeInv'
  BY <1>17 DEF ListDue, Goto, job, bounds
<1>2. ASSUME ClaimWatch(w) PROVE TypeInv'
  <2>1. CASE watch.state # "stopped" /\ watch.leaseLeft = 0
    <3>1. watch' \in [state: WatchState, leaseLeft: 0..LeaseTicks, handedOff: BOOLEAN]
      BY <1>2, <2>1, PolicyAssumption DEF ClaimWatch
    <3>2. current' \in [Workers -> BOOLEAN]
      <4>1. current' = [v \in Workers |-> v = w]
        BY <1>2, <2>1 DEF ClaimWatch
      <4> QED BY <4>1, Zenon
    <3>3. /\ stream' \in [Workers -> Streams \cup {"none"}]
          /\ pc' \in [Workers -> PC]
          /\ \A v \in Workers : v # w => pc'[v] = pc[v] /\ stream'[v] = stream[v]
          /\ pc'[w] = "renew"
      BY <1>2, <2>1 DEF ClaimWatch, Goto
    <3>5. /\ budget' \in [Workers -> Nat]
          /\ \A v \in Workers : v # w => budget'[v] = budget[v]
      <4>1. PICK left \in Budgets : budget' = [budget EXCEPT ![w] = left]
        BY <1>2, <2>1 DEF ClaimWatch
      <4>2. left \in Nat
        BY PolicyAssumption
      <4> QED BY <4>1, <4>2
    <3>4. UNCHANGED <<job, run, logs, cursor, seen, read, bounds>>
      BY <1>2, <2>1 DEF ClaimWatch
    <3> QED BY <3>1, <3>2, <3>3, <3>4, <3>5 DEF job, bounds
  <2>2. CASE ~(watch.state # "stopped" /\ watch.leaseLeft = 0)
    <3>1. /\ LeavePoll(w) /\ current' = [current EXCEPT ![w] = FALSE]
          /\ pc' = [pc EXCEPT ![w] = "reconcile"]
          /\ UNCHANGED <<job, run, logs, watch, cursor, bounds>>
      BY <1>2, <2>2 DEF ClaimWatch, EndPoll, Goto
    <3> QED BY <3>1, LeavePollTypes DEF job, bounds
  <2> QED BY <2>1, <2>2
<1>3. ASSUME RenewWatch(w) PROVE TypeInv'
  <2>1. CASE stream[w] = "none" \/ budget[w] = 0
    BY <1>3, <2>1 DEF RenewWatch, Goto, job, locals, bounds
  <2>2. CASE ~(stream[w] = "none" \/ budget[w] = 0) /\ HoldsLease(w)
    <3>1. watch' \in [state: WatchState, leaseLeft: 0..LeaseTicks, handedOff: BOOLEAN]
      BY <1>3, <2>2, PolicyAssumption DEF RenewWatch
    <3>2. /\ pc' = [pc EXCEPT ![w] = "stat"] /\ stream[w] \in Streams
          /\ UNCHANGED <<job, run, logs, cursor, locals, bounds>>
      BY <1>3, <2>2 DEF RenewWatch, Goto
    <3> QED BY <3>1, <3>2 DEF job, locals, bounds
  <2>3. CASE ~(stream[w] = "none" \/ budget[w] = 0) /\ ~HoldsLease(w)
    <3>1. /\ LeavePoll(w) /\ current' = [current EXCEPT ![w] = FALSE]
          /\ pc' = [pc EXCEPT ![w] = "reconcile"]
          /\ UNCHANGED <<job, run, logs, watch, cursor, bounds>>
      BY <1>3, <2>3 DEF RenewWatch, EndPoll, Goto
    <3> QED BY <3>1, LeavePollTypes DEF job, bounds
  <2> QED BY <2>1, <2>2, <2>3
<1>4. ASSUME StatLog(w) PROVE TypeInv'
  <2> DEFINE from == cursor[stream[w]]
             l == log[stream[w]]
             next == IF l.file = 0 THEN from ELSE CursorAt(from, l)
  <2>1. from \in Cursor /\ l \in Log
    BY <1>4 DEF StatLog
  <2>2. next \in Cursor
    BY <2>1, CursorTypes
  <2>3. /\ read' = [read EXCEPT ![w] = [from |-> from, next |-> next, amount |-> 0]]
        /\ pc' = [pc EXCEPT ![w] = IF next.offset < next.sourceSize THEN "read"
                                                                   ELSE "commit"]
        /\ stream[w] \in Streams
        /\ UNCHANGED <<job, run, logs, watch, cursor, seen, current, stream, budget,
                       bounds>>
    BY <1>4 DEF StatLog, Goto
  <2>4. read' \in [Workers -> [from: Cursor, next: Cursor, amount: Nat]]
    <3> HIDE DEF from, next
    <3> QED BY <2>1, <2>2, <2>3
  <2>5. read'[w].amount = 0 /\ \A v \in Workers : v # w => read'[v] = read[v]
    <3> HIDE DEF from, next
    <3> QED BY <2>3
  <2>6. pc' \in [Workers -> PC] /\ \A v \in Workers : v # w => pc'[v] = pc[v]
    <3> HIDE DEF next
    <3> QED BY <2>3
  <2> HIDE DEF from, next
  <2> QED BY <2>3, <2>4, <2>5, <2>6 DEF job, bounds
<1>5. ASSUME ReadNext(w) PROVE TypeInv'
  <2> DEFINE next == read[w].next
             end == Least(log[stream[w]].size, next.sourceSize)
             there == IF next.offset < end THEN end - next.offset ELSE 0
             amount == BytesRead(w, there)
             text == IF next.offset = 0 THEN log[stream[w]].text ELSE next.readFrom
  <2>1. /\ stream[w] \in Streams /\ log[stream[w]] \in Log /\ next \in Cursor
        /\ read[w] \in [from: Cursor, next: Cursor, amount: Nat]
    BY <1>5 DEF ReadNext
  <2>2. end \in Nat
    BY <2>1, LeastBounds DEF Log, Cursor
  <2>3. there \in Nat
    BY <2>1, <2>2 DEF Cursor
  <2>4. amount \in Nat /\ amount <= budget[w]
    <3> HIDE DEF there
    <3>1. Least(budget[w], Quantum) \in Nat /\ Least(budget[w], Quantum) <= budget[w]
      BY PolicyAssumption, LeastBounds
    <3>2. /\ amount = Least(Least(budget[w], Quantum), there)
          /\ budget[w] \in Nat
      BY DEF BytesRead
    <3>3. amount \in Nat /\ amount <= Least(budget[w], Quantum)
      <4> HIDE DEF amount
      <4> QED BY <2>3, <3>1, <3>2, LeastBounds
    <3> HIDE DEF amount
    <3> QED BY <3>1, <3>2, <3>3
  <2>5. text \in Nat
    BY <2>1 DEF Log, Cursor
  <2>6. /\ read' = [read EXCEPT ![w].amount = amount,
                      ![w].next = [next EXCEPT !.offset = @ + amount, !.readFrom = text]]
        /\ pc' = [pc EXCEPT ![w] = "commit"]
        /\ UNCHANGED <<job, run, logs, watch, cursor, seen, current, stream, budget,
                       bounds>>
    BY <1>5, Zenon DEF ReadNext, Goto
  <2>7. [next EXCEPT !.offset = @ + amount, !.readFrom = text] \in Cursor
    <3> HIDE DEF amount, text, next
    <3> QED BY <2>1, <2>4, <2>5, CursorTypes
  <2>8. /\ read' \in [Workers -> [from: Cursor, next: Cursor, amount: Nat]]
        /\ read'[w].amount = amount
        /\ \A v \in Workers : v # w => read'[v] = read[v]
    <3> DEFINE nextRead == [next EXCEPT !.offset = @ + amount, !.readFrom = text]
    <3> HIDE DEF amount, nextRead
    <3> QED BY <2>1, <2>4, <2>6, <2>7
  <2> HIDE DEF amount
  <2> QED BY <2>1, <2>4, <2>6, <2>8 DEF job, bounds
<1>6. ASSUME CommitSegment(w) PROVE TypeInv'
  <2>0. stream[w] \in Streams /\ read[w].amount <= budget[w]
        /\ read[w] \in [from: Cursor, next: Cursor, amount: Nat]
        /\ NothingRead \in [from: Cursor, next: Cursor, amount: Nat]
    BY <1>6, CursorTypes DEF CommitSegment
  <2>1. CASE HoldsLease(w) /\ cursor[stream[w]] = read[w].from
    <3>1. cursor' \in [Streams -> Cursor]
      BY <1>6, <2>0, <2>1 DEF CommitSegment
    <3>2. /\ budget' \in [Workers -> Nat]
          /\ stream' \in [Workers -> Streams \cup {"none"}]
          /\ pc' = [pc EXCEPT ![w] = "renew"]
          /\ \A v \in Workers : v # w => /\ stream'[v] = stream[v]
                                         /\ budget'[v] = budget[v]
      BY <1>6, <2>0, <2>1 DEF CommitSegment, Goto
    <3>3. /\ read' \in [Workers -> [from: Cursor, next: Cursor, amount: Nat]]
          /\ \A v \in Workers : v # w => read'[v] = read[v]
      BY <1>6, <2>0, <2>1 DEF CommitSegment
    <3>4. UNCHANGED <<job, run, logs, watch, seen, current, bounds>>
      BY <1>6, <2>1 DEF CommitSegment
    <3> QED BY <3>1, <3>2, <3>3, <3>4 DEF job, bounds
  <2>2. CASE ~(HoldsLease(w) /\ cursor[stream[w]] = read[w].from)
    <3>1. /\ LeavePoll(w) /\ current' = [current EXCEPT ![w] = FALSE]
          /\ pc' = [pc EXCEPT ![w] = "reconcile"]
          /\ UNCHANGED <<job, run, logs, watch, cursor, bounds>>
      BY <1>6, <2>2 DEF CommitSegment, EndPoll, Goto
    <3> QED BY <3>1, LeavePollTypes DEF job, bounds
  <2> QED BY <2>1, <2>2
<1>7. ASSUME ReleaseWatch(w) PROVE TypeInv'
  <2>1. /\ LeavePoll(w) /\ current' = [current EXCEPT ![w] = FALSE]
        /\ pc' \in [Workers -> PC] /\ pc'[w] \in {"handoff", "reconcile"}
        /\ \A v \in Workers : v # w => pc'[v] = pc[v]
        /\ UNCHANGED <<job, run, logs, cursor, bounds>>
    BY <1>7 DEF ReleaseWatch, EndPoll, Goto
  <2>2. watch' \in [state: WatchState, leaseLeft: 0..LeaseTicks, handedOff: BOOLEAN]
    BY <1>7, PolicyAssumption DEF ReleaseWatch, NoLease, StateAfterPoll
  <2> QED BY <2>1, <2>2, LeavePollTypes DEF job, bounds
<1>8. ASSUME PollRaises(w) PROVE TypeInv'
  BY <1>8, LeavePollTypes, BoundsAssumption DEF PollRaises, Goto, job
<1>9. ASSUME DegradeWatch(w) PROVE TypeInv'
  <2>1. /\ LeavePoll(w) /\ current' = [current EXCEPT ![w] = FALSE]
        /\ pc' = [pc EXCEPT ![w] = "reconcile"]
        /\ UNCHANGED <<job, run, logs, cursor, bounds>>
    BY <1>9 DEF DegradeWatch, EndPoll, Goto
  <2>2. watch' \in [state: WatchState, leaseLeft: 0..LeaseTicks, handedOff: BOOLEAN]
    BY <1>9, PolicyAssumption DEF DegradeWatch, NoLease
  <2> QED BY <2>1, <2>2, LeavePollTypes DEF job, bounds
<1>10. ASSUME HandOver(w) PROVE TypeInv'
  BY <1>10 DEF HandOver, ReleaseLogs, Goto, job, locals, bounds
<1>16. ASSUME AcknowledgeHandoff(w) PROVE TypeInv'
  <2>1. watch' \in [state: WatchState, leaseLeft: 0..LeaseTicks, handedOff: BOOLEAN]
    BY <1>16 DEF AcknowledgeHandoff
  <2> QED BY <1>16, <2>1 DEF AcknowledgeHandoff, Goto, job, locals, bounds
<1>11. ASSUME HandOverRaises(w) PROVE TypeInv'
  BY <1>11, BoundsAssumption
     DEF HandOverRaises, AfterHandoffError, ReleaseLogs, Goto, job, locals
<1>12. ASSUME ReconcileOnce(w) \/ ApplySnapshot(w) PROVE TypeInv'
  BY <1>12 DEF ReconcileOnce, ApplySnapshot, MakeTerminal, Goto, job, locals, bounds
<1>13. ASSUME EnsureRun(w) PROVE TypeInv'
  BY <1>13, PolicyAssumption DEF EnsureRun, NewWatch, Goto, job, locals, bounds
<1>14. ASSUME ScheduleTerminalDrain(w) PROVE TypeInv'
  <2>1. watch' \in [state: WatchState, leaseLeft: 0..LeaseTicks, handedOff: BOOLEAN]
    BY <1>14 DEF ScheduleTerminalDrain
  <2>3. current' \in [Workers -> BOOLEAN]
    BY <1>14 DEF ScheduleTerminalDrain
  <2>2. /\ pc' \in [Workers -> PC] /\ pc'[w] \in {"defer", "collect"}
        /\ \A v \in Workers : v # w => pc'[v] = pc[v]
        /\ UNCHANGED <<job, run, logs, cursor, seen, stream, budget, read, bounds>>
    BY <1>14 DEF ScheduleTerminalDrain, Goto
  <2> QED BY <2>1, <2>2, <2>3 DEF job, bounds
<1>15. ASSUME DeferLogsFinalize(w) \/ CollectLogs(w) PROVE TypeInv'
  BY <1>15 DEF DeferLogsFinalize, CollectLogs, Goto, job, locals, bounds
<1> QED
  BY <1>1, <1>2, <1>3, <1>4, <1>5, <1>6, <1>7, <1>8, <1>9, <1>10, <1>11, <1>12, <1>13,
     <1>14, <1>15, <1>16, <1>17 DEF Work

\* So does every step.
LEMMA NextTypes == TypeInv /\ [Next]_vars => TypeInv'
<1> SUFFICES ASSUME TypeInv, [Next]_vars PROVE TypeInv'
  OBVIOUS
<1> USE DEF TypeInv, Polling, TypeOK, PC, WatchState, LogsState, Streams
<1>1. ASSUME NEW w \in Workers, Work(w) PROVE TypeInv'
  BY <1>1, WorkTypes
<1>2. ASSUME NEW w \in Workers, Crash(w) PROVE TypeInv'
  BY <1>2, LeavePollTypes, BoundsAssumption DEF Crash, EndPoll, Goto, job
<1>3. ASSUME NEW s \in Streams, JobWrites(s) \/ LogRotates(s) PROVE TypeInv'
  <2>1. log' \in [Streams -> Log]
    <3>1. CASE JobWrites(s)
      BY <3>1 DEF JobWrites, Log
    <3>2. CASE LogRotates(s)
      BY <3>2 DEF LogRotates, Log
    <3> QED BY <1>3, <3>1, <3>2
  <2>2. UNCHANGED <<jobOver, run, logs, watch, cursor, pc, locals, bounds>>
    BY <1>3 DEF JobWrites, LogRotates
  <2> QED BY <2>1, <2>2 DEF locals, bounds
<1>4. CASE JobOpens \/ JobEnds
  <2>1. CASE JobOpens
    <3>1. log' \in [Streams -> Log] /\ jobOver' = jobOver
      BY <2>1 DEF JobOpens, Log
    <3>2. UNCHANGED <<run, logs, watch, cursor, pc, locals, bounds>>
      BY <2>1 DEF JobOpens
    <3> QED BY <3>1, <3>2 DEF locals, bounds
  <2>2. CASE JobEnds
    BY <2>2 DEF JobEnds, locals, bounds
  <2> QED BY <1>4, <2>1, <2>2
<1>5. CASE CancelRun
  BY <1>5 DEF CancelRun, MakeTerminal, locals, bounds
<1>6. CASE Tick
  <2>1. Cardinality(Overrun) \in Nat
    <3>1. IsFiniteSet(Overrun)
      BY WorkersAssumption, FS_Subset DEF Overrun
    <3> QED BY <3>1, FS_CardinalityType
  <2>2. watch' \in [state: WatchState, leaseLeft: 0..LeaseTicks, handedOff: BOOLEAN]
    BY <1>6, PolicyAssumption DEF Tick
  <2>3. overruns' \in 0..MaxOverruns
    BY <1>6, <2>1, BoundsAssumption DEF Tick
  <2> QED BY <1>6, <2>2, <2>3 DEF Tick, job, locals
<1>7. CASE UNCHANGED vars
  BY <1>7 DEF vars, job, locals, bounds
<1> QED BY <1>1, <1>2, <1>3, <1>4, <1>5, <1>6, <1>7 DEF Next

\* Types hold in every reachable state.
LEMMA TypesInvariant == Spec => []TypeInv
<1>1. Init => TypeInv
  <2>1. NothingRead \in [from: Cursor, next: Cursor, amount: Nat] /\ Beginning \in Cursor
    BY CursorTypes DEF NothingRead
  <2>2. Init => /\ watch \in [state: WatchState, leaseLeft: 0..LeaseTicks,
                              handedOff: BOOLEAN]
                /\ cursor \in [Streams -> Cursor]
                /\ log \in [Streams -> Log]
    BY <2>1, PolicyAssumption DEF Init, WatchState, NoLog, Log
  <2>3. Init => /\ pc \in [Workers -> PC] /\ seen \in [Workers -> WatchState]
                /\ current \in [Workers -> BOOLEAN]
                /\ stream \in [Workers -> Streams \cup {"none"}]
                /\ budget \in [Workers -> Nat]
                /\ read \in [Workers -> [from: Cursor, next: Cursor, amount: Nat]]
    BY <2>1 DEF Init, PC, WatchState
  <2>4. Init => Polling
    <3>1. Init => \A w \in Workers : pc[w] = "tick"
      BY DEF Init
    <3> QED BY <3>1 DEF Polling
  <2>5. Init => /\ jobOver \in BOOLEAN /\ run \in {"active", "terminal"}
                /\ logs \in LogsState
    BY DEF Init, LogsState
  <2>6. Init => /\ readErrors \in 0..MaxReadErrors /\ handoffErrors \in 0..MaxHandoffErrors
                /\ crashes \in 0..MaxCrashes /\ overruns \in 0..MaxOverruns
    BY BoundsAssumption DEF Init
  <2> QED BY <2>2, <2>3, <2>4, <2>5, <2>6 DEF TypeInv, TypeOK
<1> QED BY <1>1, NextTypes, PTL DEF Spec

\* Every reachable state is well typed: in particular no poll reads more than
\* the connection's budget, and the lease is never longer than lease_seconds.
THEOREM DrainTypeOK == Spec => []TypeOK
<1>1. TypeInv => TypeOK
  BY DEF TypeInv
<1> QED BY <1>1, TypesInvariant, PTL

-----------------------------------------------------------------------------
\* What a poll that stops the watch has read.

\* Of a log that nothing or a whole fingerprint was read of, an emptying shows.
Told(c) == c.offset = 0 \/ c.offset >= FingerprintBytes

\* A log is emptied in place only when it will be told: by then nothing of it,
\* or at least a fingerprint, has been read into the cursor, and by whoever is
\* reading it now.  A fingerprint of one byte always tells.
EmptyingShows ==
    \A s \in Streams :
        log[s].file # 0 /\ log'[s].text # log[s].text /\ log'[s].file = log[s].file =>
            /\ Told(cursor[s])
            /\ \A w \in Workers :
                  pc[w] \in {"read", "commit"} /\ stream[w] = s => Told(read[w].next)

\* A poll may read a quantum of stdout and still some of stderr.
AmpleBudgets == \A left \in Budgets : left > Quantum

\* A drain begins only after the job is over, so what it reads no longer grows.
DrainAfterJob ==
    /\ run = "terminal" \/ watch.state \in {"finalizing", "stopped"} => jobOver
    /\ \A w \in Workers :
          pc[w] \in {"applyOver", "schedule"} \/ seen[w] = "finalizing" => jobOver

\* A file has the number of the text it was made for.
FilesNumbered ==
    \A s \in Streams : /\ log[s].file <= log[s].text
                       /\ log[s].file = 0 => log[s] = NoLog

\* What a cursor says of a log: nothing yet, the text that is there, or an
\* earlier one that the next stat will tell from it.
Tracks(c, l) ==
    /\ c.file <= l.text /\ c.prefix.text <= l.text
    /\ c.file = 0 \/ l.file = 0 => c.offset = 0 /\ c.sourceSize = 0
    /\ c.offset > 0 =>
          \/ c.readFrom = l.text
          \/ c.readFrom < l.text /\ l.file # c.file
          \/ c.readFrom < l.text /\ c.offset >= FingerprintBytes
                                 /\ c.prefix.text < l.text

CursorsTrack == \A s \in Streams : Tracks(cursor[s], log[s])
ReadsTrack ==
    \A w \in Workers : pc[w] \in {"read", "commit"} =>
        Tracks(read[w].next, log[stream[w]])

\* A poll reaches its second stream, and its release when it has seen both.
BudgetLasts ==
    \A w \in Workers :
        /\ pc[w] \in {"renew", "stat", "read", "commit"} =>
              /\ stream[w] = "stdout" => budget[w] > Quantum
              /\ stream[w] = "stderr" => budget[w] > 0
        /\ pc[w] = "commit" => read[w].amount <= Quantum
        /\ pc[w] = "release" => stream[w] = "none"

\* A cursor that is up to date with a log but perhaps for its end.
Exact(c, l) ==
    /\ c.sourceSize = l.size /\ c.offset <= l.size
    /\ c.offset > 0 => c.readFrom = l.text

\* The streams that a poll has been through.
Behind(w) ==
    {s \in Streams : stream[w] = "none" \/ (stream[w] = "stderr" /\ s = "stdout")}

\* A poll of a drain leaves each cursor up to date, and holds such a one.
DrainReads ==
    \A w \in Workers : current[w] /\ seen[w] = "finalizing" =>
        /\ pc[w] \in {"renew", "stat", "read", "commit", "release"} =>
              \A s \in Behind(w) : Exact(cursor[s], log[s])
        /\ pc[w] \in {"read", "commit"} => Exact(read[w].next, log[stream[w]])

ReadInv ==
    /\ DrainAfterJob /\ FilesNumbered /\ CursorsTrack /\ ReadsTrack
    /\ BudgetLasts /\ DrainReads /\ StoppedMeansDrained

\* How a log moves: it opens, grows, or is replaced by a new text; after the job
\* it does not.
LogMoves(s) ==
    \/ log'[s] = log[s]
    \/ log[s] = NoLog /\ log'[s] = [file |-> 1, text |-> 1, size |-> 0]
    \/ /\ log[s] # NoLog
       /\ log'[s].file = log[s].file /\ log'[s].text = log[s].text
    \/ /\ log[s].size > 0 /\ log'[s].text = log[s].text + 1
       /\ log'[s].file \in {log[s].file, log[s].text + 1}

LEMMA LogsMove ==
    ASSUME TypeInv, [Next]_vars
    PROVE  /\ \A s \in Streams : LogMoves(s)
           /\ jobOver => jobOver' /\ log' = log
<1> USE DEF LogMoves
<1>1. ASSUME NEW w \in Workers, Work(w) \/ Crash(w) PROVE UNCHANGED job
  BY <1>1 DEF Work, Crash, ListStopped, ListDue, ListNothing, ClaimWatch, RenewWatch,
     StatLog, ReadNext, CommitSegment, ReleaseWatch, PollRaises, DegradeWatch, HandOver,
     HandOverRaises, AcknowledgeHandoff, ReconcileOnce, ApplySnapshot, EnsureRun,
     ScheduleTerminalDrain, DeferLogsFinalize, CollectLogs
<1>2. CASE UNCHANGED job
  BY <1>2 DEF job
<1>3. ASSUME NEW t \in Streams, JobWrites(t)
      PROVE  ~jobOver /\ \A s \in Streams : LogMoves(s)
  BY <1>3 DEF JobWrites, TypeInv, TypeOK, Log, NoLog
<1>4. ASSUME NEW t \in Streams, LogRotates(t)
      PROVE  ~jobOver /\ \A s \in Streams : LogMoves(s)
  BY <1>4 DEF LogRotates, TypeInv, TypeOK, Log
<1>5. CASE JobOpens
  BY <1>5 DEF JobOpens
<1>6. CASE JobEnds \/ CancelRun
  BY <1>6 DEF JobEnds, CancelRun
<1> QED
  BY <1>1, <1>2, <1>3, <1>4, <1>5, <1>6 DEF Next, Tick, vars, job

\* The others' locals stay when a worker moves; a lease can only be taken away.
LEMMA OthersKeep ==
    ASSUME TypeInv, NEW w \in Workers, Work(w) \/ Crash(w), NEW v \in Workers, v # w
    PROVE  /\ pc'[v] = pc[v] /\ seen'[v] = seen[v] /\ stream'[v] = stream[v]
           /\ budget'[v] = budget[v] /\ read'[v] = read[v]
           /\ current'[v] => current[v]
<1> USE DEF TypeInv, TypeOK
<1>1. CASE ClaimWatch(w)
  <2>1. \/ EndPoll(w)
        \/ /\ current' = [u \in Workers |-> u = w]
           /\ stream' = [stream EXCEPT ![w] = "stdout"]
           /\ \E left \in Budgets : budget' = [budget EXCEPT ![w] = left]
           /\ UNCHANGED <<seen, read>>
    BY <1>1 DEF ClaimWatch
  <2> QED
    BY <1>1, <2>1 DEF ClaimWatch, Goto, EndPoll, LeavePoll
<1>2. CASE ReadNext(w)
  BY <1>2 DEF ReadNext, Goto
<1>3. CASE ListDue(w) \/ RenewWatch(w) \/ StatLog(w) \/ CommitSegment(w)
  BY <1>3 DEF ListDue, RenewWatch, StatLog, CommitSegment, Goto, EndPoll, LeavePoll, locals
<1>4. CASE ReleaseWatch(w) \/ PollRaises(w) \/ DegradeWatch(w) \/ Crash(w)
  BY <1>4 DEF ReleaseWatch, PollRaises, DegradeWatch, Crash, Goto, EndPoll, LeavePoll
<1>5. CASE ScheduleTerminalDrain(w)
  BY <1>5 DEF ScheduleTerminalDrain, Goto
<1> QED
  BY <1>1, <1>2, <1>3, <1>4, <1>5 DEF Work, ListStopped, ListNothing, HandOver,
     HandOverRaises, AcknowledgeHandoff, ReconcileOnce, ApplySnapshot, EnsureRun,
     DeferLogsFinalize, CollectLogs, Goto, locals

\* Nothing of the workers moves when none of them does.
LEMMA WorkersRest ==
    ASSUME [Next]_vars, ~ \E w \in Workers : Work(w) \/ Crash(w)
    PROVE  UNCHANGED <<pc, seen, current, stream, budget, read, cursor>>
  BY DEF Next, vars, locals, JobWrites, LogRotates, JobOpens, JobEnds, CancelRun, Tick

\* A cursor is moved by a commit alone, which holds the lease.
LEMMA CursorsMove ==
    ASSUME TypeInv, NEW w \in Workers, Work(w) \/ Crash(w), cursor' # cursor
    PROVE  /\ CommitSegment(w) /\ HoldsLease(w)
           /\ cursor' = [cursor EXCEPT ![stream[w]] = read[w].next]
  BY DEF Work, Crash, ListStopped, ListDue, ListNothing, ClaimWatch, RenewWatch,
     StatLog, ReadNext, CommitSegment, ReleaseWatch, PollRaises, DegradeWatch, HandOver,
     HandOverRaises, AcknowledgeHandoff, ReconcileOnce, ApplySnapshot, EnsureRun,
     ScheduleTerminalDrain, DeferLogsFinalize, CollectLogs

\* No drain begins before the job is over.
LEMMA DrainAfterJobInductive ==
    ASSUME TypeInv, DrainAfterJob, [Next]_vars PROVE DrainAfterJob'
<1>0. jobOver => jobOver'
  BY LogsMove
<1> USE DEF DrainAfterJob, TypeInv, TypeOK
<1>1. ASSUME NEW w \in Workers, Work(w) \/ Crash(w),
             /\ run' = run \/ (run' = "terminal" => jobOver)
             /\ watch'.state = watch.state
                \/ (watch'.state \in {"finalizing", "stopped"} => jobOver)
             /\ pc'[w] \in {"applyOver", "schedule"} \/ seen'[w] = "finalizing" => jobOver
      PROVE  DrainAfterJob'
  BY <1>0, <1>1, OthersKeep
<1>2. ASSUME NEW w \in Workers,
             ListStopped(w) \/ ListNothing(w) \/ HandOver(w) \/ HandOverRaises(w)
               \/ DeferLogsFinalize(w) \/ CollectLogs(w) \/ StatLog(w) \/ ReadNext(w)
      PROVE  DrainAfterJob'
  BY <1>1, <1>2 DEF Work, ListStopped, ListNothing, HandOver, HandOverRaises,
     AfterHandoffError, DeferLogsFinalize, CollectLogs, StatLog, ReadNext, Goto, locals
<1>3. ASSUME NEW w \in Workers, ListDue(w) \/ ClaimWatch(w) \/ RenewWatch(w)
      PROVE  DrainAfterJob'
  BY <1>1, <1>3 DEF Work, ListDue, ClaimWatch, RenewWatch, EndPoll, LeavePoll, Goto, locals
<1>4. ASSUME NEW w \in Workers,
             CommitSegment(w) \/ PollRaises(w) \/ DegradeWatch(w) \/ Crash(w)
      PROVE  DrainAfterJob'
  <2>1. /\ run' = run /\ watch'.state \in {watch.state, "degraded"}
        /\ pc'[w] \notin {"applyOver", "schedule"} /\ seen'[w] \in {seen[w], "absent"}
    BY <1>4 DEF CommitSegment, PollRaises, DegradeWatch, Crash, NoLease, EndPoll,
       LeavePoll, Goto
  <2> QED
    BY <1>1, <1>4, <2>1 DEF Work
<1>5. ASSUME NEW w \in Workers, ReleaseWatch(w) PROVE DrainAfterJob'
  <2>1. /\ run' = run /\ pc'[w] \notin {"applyOver", "schedule"}
        /\ watch'.state \in {watch.state, StateAfterPoll(w)} /\ seen'[w] = "absent"
    BY <1>5 DEF ReleaseWatch, NoLease, EndPoll, LeavePoll, Goto
  <2>2. StateAfterPoll(w) \in {"finalizing", "stopped"} => jobOver
    BY DEF StateAfterPoll, Drained
  <2> QED
    BY <1>1, <1>5, <2>1, <2>2 DEF Work
<1>6. ASSUME NEW w \in Workers, AcknowledgeHandoff(w) \/ EnsureRun(w) PROVE DrainAfterJob'
  BY <1>1, <1>6 DEF Work, AcknowledgeHandoff, EnsureRun, NewWatch, Goto, locals
<1>7. ASSUME NEW w \in Workers, ReconcileOnce(w) \/ ApplySnapshot(w) PROVE DrainAfterJob'
  BY <1>1, <1>7 DEF Work, ReconcileOnce, ApplySnapshot, MakeTerminal, Goto, locals
<1>8. ASSUME NEW w \in Workers, ScheduleTerminalDrain(w) PROVE DrainAfterJob'
  BY <1>1, <1>8 DEF Work, ScheduleTerminalDrain, Goto
<1>9. CASE ~ \E w \in Workers : Work(w) \/ Crash(w)
  <2>1. UNCHANGED <<pc, seen>> /\ watch'.state = watch.state
        /\ (run' = run \/ jobOver')
    BY <1>9, WorkersRest DEF Next, vars, locals, JobWrites, LogRotates, JobOpens, JobEnds,
       CancelRun, Tick
  <2> QED
    BY <1>0, <2>1
<1> QED
  BY <1>2, <1>3, <1>4, <1>5, <1>6, <1>7, <1>8, <1>9 DEF Work

\* Files stay numbered by their texts.
LEMMA FilesNumberedInductive ==
    ASSUME TypeInv, FilesNumbered, [Next]_vars PROVE FilesNumbered'
  BY LogsMove DEF LogMoves, FilesNumbered, TypeInv, TypeOK, Log, NoLog

\* What a cursor says of a log stays so when the log moves, if an emptying shows.
LEMMA TracksMovedLog ==
    ASSUME TypeInv, FilesNumbered, NEW s \in Streams, NEW c \in Cursor,
           Tracks(c, log[s]), LogMoves(s),
           log[s].file # 0 /\ log'[s].text # log[s].text
             /\ log'[s].file = log[s].file => Told(c)
    PROVE  Tracks(c, log'[s])
<1> USE DEF TypeInv, TypeOK, Log, Cursor, Prefix, Tracks
<1>1. CASE log'[s] = log[s]
  BY <1>1
<1>2. CASE log[s] = NoLog /\ log'[s] = [file |-> 1, text |-> 1, size |-> 0]
  BY <1>2 DEF NoLog
<1>3. CASE log'[s].file = log[s].file /\ log'[s].text = log[s].text
  BY <1>3
<1>4. CASE /\ log[s].size > 0 /\ log'[s].text = log[s].text + 1
           /\ log'[s].file \in {log[s].file, log[s].text + 1}
  <2>1. log[s].file # 0 /\ log[s].file <= log[s].text
    BY <1>4 DEF FilesNumbered, NoLog
  <2>2. c.offset > 0 => c.readFrom <= log[s].text
    OBVIOUS
  <2> QED
    BY <1>4, <2>1, <2>2 DEF Told
<1> QED
  BY <1>1, <1>2, <1>3, <1>4 DEF LogMoves

\* Stat tells an earlier text from the one that is there, so that the cursor it
\* makes is exact.
LEMMA StatExact ==
    ASSUME NEW c \in Cursor, NEW l \in Log, l.file # 0, l.file <= l.text, Tracks(c, l)
    PROVE  Tracks(CursorAt(c, l), l) /\ Exact(CursorAt(c, l), l)
<1> USE DEF Cursor, Log, Prefix, Tracks
<1>1. c.offset > 0 /\ c.readFrom # l.text => Rotated(c, l)
  <2> SUFFICES ASSUME c.offset > 0, c.readFrom # l.text, l.file = c.file,
                      l.size >= c.offset
               PROVE  Rotated(c, l)
    BY DEF Rotated
  <2>1. c.offset >= FingerprintBytes /\ c.prefix.text < l.text
    OBVIOUS
  <2>2. PrefixOf(l).text = l.text
    BY DEF PrefixOf
  <2> QED
    BY <2>1, <2>2 DEF Rotated
<1>2. /\ CursorAt(c, l).file = l.file /\ CursorAt(c, l).sourceSize = l.size
      /\ CursorAt(c, l).prefix = PrefixOf(l)
      /\ CursorAt(c, l).offset = IF Rotated(c, l) THEN 0 ELSE c.offset
      /\ CursorAt(c, l).offset > 0 => CursorAt(c, l).readFrom = c.readFrom
  BY DEF CursorAt
<1>3. ~Rotated(c, l) => l.size >= c.offset
  BY DEF Rotated
<1>4. PrefixOf(l).text <= l.text
  BY DEF PrefixOf
<1> QED
  BY <1>1, <1>2, <1>3, <1>4 DEF Exact

\* Reading on keeps what a cursor says.
LEMMA ReadOn ==
    ASSUME NEW c \in Cursor, NEW l \in Log, NEW k \in Nat, NEW d \in Cursor,
           Tracks(c, l), l.size > 0 \/ k = 0, k > 0 => c.sourceSize >= c.offset + k,
           d = [c EXCEPT !.offset = @ + k,
                         !.readFrom = IF c.offset = 0 THEN l.text ELSE @]
    PROVE  Tracks(d, l) /\ (Exact(c, l) => Exact(d, l))
<1>1. /\ d.file = c.file /\ d.prefix = c.prefix /\ d.sourceSize = c.sourceSize
      /\ d.offset = c.offset + k
      /\ d.readFrom = IF c.offset = 0 THEN l.text ELSE c.readFrom
  BY DEF Cursor
<1> QED
  BY <1>1, PolicyAssumption DEF Tracks, Exact, Cursor, Log, Prefix

\* What stat puts into a worker's hand ...
LEMMA StatTracks ==
    ASSUME TypeInv, FilesNumbered, CursorsTrack, NEW w \in Workers, StatLog(w)
    PROVE  /\ stream[w] \in Streams /\ stream'[w] = stream[w]
           /\ Tracks(read'[w].next, log[stream[w]])
           /\ Exact(read'[w].next, log[stream[w]])
<1> DEFINE from == cursor[stream[w]]
           l == log[stream[w]]
           next == IF l.file = 0 THEN from ELSE CursorAt(from, l)
<1>1. /\ stream[w] \in Streams /\ stream' = stream
      /\ from \in Cursor /\ l \in Log /\ Tracks(from, l)
      /\ l.file <= l.text /\ (l.file = 0 => l = NoLog)
  BY DEF StatLog, TypeInv, TypeOK, Polling, CursorsTrack, FilesNumbered
<1>2. Tracks(next, l) /\ Exact(next, l)
  <2>1. CASE l.file = 0
    BY <1>1, <2>1 DEF Tracks, Exact, NoLog
  <2>2. CASE l.file # 0
    BY <1>1, <2>2, StatExact
  <2> QED
    BY <2>1, <2>2
<1>3. read'[w].next = next
  <2>1. read' = [read EXCEPT ![w] = [from |-> from, next |-> next, amount |-> 0]]
    BY DEF StatLog
  <2> HIDE DEF from, next
  <2> QED
    BY <2>1 DEF TypeInv, TypeOK
<1> QED
  BY <1>1, <1>2, <1>3

\* ... and what a read makes of it.
LEMMA ReadTracks ==
    ASSUME TypeInv, ReadsTrack, NEW w \in Workers, ReadNext(w)
    PROVE  /\ stream[w] \in Streams /\ stream'[w] = stream[w]
           /\ Tracks(read'[w].next, log[stream[w]])
           /\ Exact(read[w].next, log[stream[w]]) =>
                 Exact(read'[w].next, log[stream[w]])
           /\ read'[w].amount <= Quantum
<1> DEFINE next == read[w].next
           l == log[stream[w]]
           end == Least(l.size, next.sourceSize)
           there == IF next.offset < end THEN end - next.offset ELSE 0
           amount == BytesRead(w, there)
           after == [next EXCEPT !.offset = @ + amount,
                                 !.readFrom = IF next.offset = 0 THEN l.text ELSE @]
<1>1. /\ stream[w] \in Streams /\ stream' = stream /\ l \in Log /\ next \in Cursor
      /\ Tracks(next, l)
      /\ read[w] \in [from: Cursor, next: Cursor, amount: Nat] /\ budget[w] \in Nat
  BY DEF ReadNext, TypeInv, TypeOK, Polling, ReadsTrack
<1>2. end \in Nat /\ end <= l.size /\ end <= next.sourceSize
  BY <1>1, LeastBounds DEF Log, Cursor
<1>3. /\ there \in Nat
      /\ there > 0 => l.size > 0 /\ next.offset + there <= next.sourceSize
  <2> HIDE DEF end
  <2> QED
    BY <1>1, <1>2 DEF Log, Cursor
<1>4. amount \in Nat /\ amount <= there /\ amount <= Quantum
  <2> HIDE DEF there
  <2>1. Least(budget[w], Quantum) \in Nat /\ Least(budget[w], Quantum) <= Quantum
    BY <1>1, PolicyAssumption, LeastBounds
  <2>2. amount = Least(Least(budget[w], Quantum), there)
    BY DEF BytesRead
  <2> HIDE DEF amount
  <2>3. amount \in Nat /\ amount <= there /\ amount <= Least(budget[w], Quantum)
    BY <1>3, <2>1, <2>2, LeastBounds
  <2> QED
    BY <2>1, <2>3, PolicyAssumption
<1>5. after \in Cursor
  <2> DEFINE text == IF next.offset = 0 THEN l.text ELSE next.readFrom
  <2>1. text \in Nat
    BY <1>1 DEF Log, Cursor
  <2>2. after = [next EXCEPT !.offset = @ + amount, !.readFrom = text]
    OBVIOUS
  <2> HIDE DEF text, amount, next, after
  <2> QED
    BY <1>1, <1>4, <2>1, <2>2, CursorTypes
<1>6. Tracks(after, l) /\ (Exact(next, l) => Exact(after, l))
  <2>1. l.size > 0 \/ amount = 0
    <3> HIDE DEF amount, there
    <3> QED
      BY <1>3, <1>4
  <2>2. amount > 0 => next.sourceSize >= next.offset + amount
    <3>1. next.offset \in Nat /\ next.sourceSize \in Nat
      BY <1>1 DEF Cursor
    <3> HIDE DEF amount, there, next
    <3> QED
      BY <1>3, <1>4, <3>1
  <2> HIDE DEF amount, next, l
  <2> QED
    BY <1>1, <1>4, <1>5, <2>1, <2>2, ReadOn
<1>7. read'[w].next = after /\ read'[w].amount = amount
  <2>1. read' = [read EXCEPT ![w].amount = amount, ![w].next = after]
    BY Zenon DEF ReadNext
  <2> HIDE DEF amount, after
  <2> QED
    BY <1>1, <2>1 DEF TypeInv, TypeOK
<1> HIDE DEF amount, after
<1> QED
  BY <1>1, <1>4, <1>6, <1>7

\* Cursors and reads keep track of their logs.
LEMMA TracksInductive ==
    ASSUME TypeInv, FilesNumbered, CursorsTrack, ReadsTrack, [Next]_vars, EmptyingShows
    PROVE  CursorsTrack' /\ ReadsTrack'
<1> USE DEF TypeInv, TypeOK
<1>1. ASSUME NEW s \in Streams PROVE Tracks(cursor[s], log'[s])
  BY LogsMove, TracksMovedLog DEF CursorsTrack, EmptyingShows
<1>2. ASSUME NEW w \in Workers, pc[w] \in {"read", "commit"}
      PROVE  /\ stream[w] \in Streams /\ read[w].next \in Cursor
             /\ Tracks(read[w].next, log'[stream[w]])
  <2>1. stream[w] \in Streams /\ read[w].next \in Cursor
    BY <1>2 DEF Polling
  <2>2. Tracks(read[w].next, log[stream[w]]) /\ LogMoves(stream[w])
    BY <1>2, <2>1, LogsMove DEF ReadsTrack
  <2> QED
    BY <1>2, <2>1, <2>2, TracksMovedLog DEF EmptyingShows
<1>3. CASE ~ \E w \in Workers : Work(w) \/ Crash(w)
  BY <1>1, <1>2, <1>3, WorkersRest DEF CursorsTrack, ReadsTrack
<1>4. ASSUME NEW w \in Workers, Work(w) \/ Crash(w)
      PROVE  CursorsTrack' /\ ReadsTrack'
  <2>1. log' = log
    BY <1>4 DEF Work, Crash, job, ListStopped, ListDue, ListNothing, ClaimWatch, RenewWatch,
       StatLog, ReadNext, CommitSegment, ReleaseWatch, PollRaises, DegradeWatch, HandOver,
       HandOverRaises, AcknowledgeHandoff, ReconcileOnce, ApplySnapshot, EnsureRun,
       ScheduleTerminalDrain, DeferLogsFinalize, CollectLogs
  <2>2. CursorsTrack'
    <3>1. CASE cursor' = cursor
      BY <1>1, <3>1 DEF CursorsTrack
    <3>2. CASE cursor' # cursor
      <4>1. pc[w] = "commit" /\ cursor' = [cursor EXCEPT ![stream[w]] = read[w].next]
        BY <1>4, <3>2, CursorsMove DEF CommitSegment
      <4> QED
        BY <1>1, <1>2, <4>1 DEF CursorsTrack
    <3> QED
      BY <3>1, <3>2
  <2>3. ASSUME pc'[w] \in {"read", "commit"} PROVE Tracks(read'[w].next, log[stream'[w]])
    <3>1. StatLog(w) \/ ReadNext(w)
      BY <1>4, <2>3 DEF Work, Crash, ListStopped, ListDue, ListNothing, ClaimWatch,
         RenewWatch, CommitSegment, ReleaseWatch, PollRaises, DegradeWatch, HandOver,
         HandOverRaises, AfterHandoffError, AcknowledgeHandoff, ReconcileOnce,
         ApplySnapshot, EnsureRun, ScheduleTerminalDrain, DeferLogsFinalize, CollectLogs,
         Goto
    <3>2. CASE StatLog(w)
      BY <3>2, <2>1, StatTracks
    <3>3. CASE ReadNext(w)
      BY <3>3, ReadTracks
    <3> QED
      BY <3>1, <3>2, <3>3
  <2> QED
    BY <1>2, <1>4, <2>1, <2>2, <2>3, OthersKeep DEF ReadsTrack
<1> QED
  BY <1>3, <1>4

\* Stat and reads stay with their stream.
LEMMA StatStream ==
    ASSUME TypeInv, NEW w \in Workers, StatLog(w)
    PROVE  stream'[w] = stream[w] /\ stream[w] \in Streams
  BY DEF StatLog, TypeInv, Polling

\* A lease is taken by a claim alone.
LEMMA CurrentByClaim ==
    ASSUME TypeInv, NEW w \in Workers, Work(w) \/ Crash(w), ~ClaimWatch(w), current'[w]
    PROVE  current[w]
  BY DEF TypeInv, TypeOK, Work, Crash, ListStopped, ListDue, ListNothing, RenewWatch,
     StatLog, ReadNext, CommitSegment, ReleaseWatch, PollRaises, DegradeWatch, HandOver,
     HandOverRaises, AcknowledgeHandoff, ReconcileOnce, ApplySnapshot, EnsureRun,
     ScheduleTerminalDrain, DeferLogsFinalize, CollectLogs, EndPoll, LeavePoll, locals

\* A watch is stopped by the release of a poll that found it drained.
LEMMA WatchStops ==
    ASSUME TypeInv, [Next]_vars, watch'.state = "stopped", watch.state # "stopped"
    PROVE  \E w \in Workers : ReleaseWatch(w) /\ HoldsLease(w) /\ Drained(w)
<1>1. ASSUME NEW w \in Workers, ReleaseWatch(w) PROVE HoldsLease(w) /\ Drained(w)
  BY <1>1 DEF ReleaseWatch, NoLease, StateAfterPoll
<1>2. ASSUME NEW w \in Workers, ClaimWatch(w) \/ RenewWatch(w) PROVE FALSE
  BY <1>2 DEF TypeInv, TypeOK, ClaimWatch, RenewWatch
<1>3. ASSUME NEW w \in Workers, DegradeWatch(w) \/ EnsureRun(w) PROVE FALSE
  BY <1>3 DEF DegradeWatch, EnsureRun, NoLease, NewWatch
<1>4. ASSUME NEW w \in Workers, AcknowledgeHandoff(w) \/ ScheduleTerminalDrain(w)
      PROVE  FALSE
  BY <1>4 DEF TypeInv, TypeOK, AcknowledgeHandoff, ScheduleTerminalDrain
<1> QED
  BY <1>1, <1>2, <1>3, <1>4 DEF TypeInv, TypeOK, Next, vars, Work, Crash, ListStopped, ListDue,
     ListNothing, StatLog, ReadNext, CommitSegment, PollRaises, HandOver, HandOverRaises,
     ReconcileOnce, ApplySnapshot, DeferLogsFinalize, CollectLogs, JobWrites, LogRotates,
     JobOpens, JobEnds, CancelRun, Tick

\* How the polling worker goes from one stream to the next.
LEMMA PollMoves ==
    ASSUME TypeInv, NEW w \in Workers, Work(w) \/ Crash(w),
           pc'[w] \in {"renew", "stat", "read", "commit", "release"}
    PROVE  \/ ClaimWatch(w) /\ pc'[w] = "renew" /\ stream'[w] = "stdout"
              /\ budget'[w] \in Budgets
           \/ /\ pc[w] = "renew"
              /\ stream'[w] = stream[w] /\ budget'[w] = budget[w] /\ seen'[w] = seen[w]
              /\ \/ pc'[w] = "release" /\ (stream[w] = "none" \/ budget[w] = 0)
                 \/ pc'[w] = "stat" /\ stream[w] # "none" /\ budget[w] # 0
           \/ /\ StatLog(w) /\ pc[w] = "stat" /\ pc'[w] \in {"read", "commit"}
              /\ budget'[w] = budget[w] /\ seen'[w] = seen[w] /\ read'[w].amount = 0
           \/ /\ ReadNext(w) /\ pc[w] = "read" /\ pc'[w] = "commit"
              /\ budget'[w] = budget[w] /\ seen'[w] = seen[w]
           \/ /\ CommitSegment(w) /\ pc[w] = "commit" /\ pc'[w] = "renew"
              /\ seen'[w] = seen[w] /\ budget'[w] = budget[w] - read[w].amount
              /\ stream'[w] = IF stream[w] = "stdout" THEN "stderr" ELSE "none"
              /\ cursor' = [cursor EXCEPT ![stream[w]] = read[w].next]
<1> USE DEF TypeInv, TypeOK
<1>1. CASE ClaimWatch(w)
  BY <1>1 DEF ClaimWatch, EndPoll, Goto
<1>2. CASE RenewWatch(w)
  BY <1>2 DEF RenewWatch, EndPoll, Goto, locals
<1>3. CASE StatLog(w)
  <2>1. pc[w] = "stat" /\ budget' = budget /\ seen' = seen /\ pc'[w] \in {"read", "commit"}
    BY <1>3 DEF StatLog, Goto
  <2>2. \E next : read' = [read EXCEPT ![w] = [from |-> cursor[stream[w]], next |-> next,
                                              amount |-> 0]]
    BY <1>3 DEF StatLog
  <2> QED
    BY <1>3, <2>1, <2>2
<1>4. CASE ReadNext(w)
  BY <1>4 DEF ReadNext, Goto
<1>5. CASE CommitSegment(w)
  BY <1>5 DEF CommitSegment, EndPoll, Goto
<1> QED
  BY <1>1, <1>2, <1>3, <1>4, <1>5 DEF Work, Crash, ListStopped, ListDue, ListNothing,
     ReleaseWatch, PollRaises, DegradeWatch, HandOver, HandOverRaises, AfterHandoffError,
     AcknowledgeHandoff, ReconcileOnce, ApplySnapshot, EnsureRun, ScheduleTerminalDrain,
     DeferLogsFinalize, CollectLogs, Goto

\* With ample budgets a poll reaches both streams.
LEMMA BudgetLastsInductive ==
    ASSUME AmpleBudgets, TypeInv, ReadsTrack, BudgetLasts, [Next]_vars
    PROVE  BudgetLasts'
<1>1. CASE ~ \E w \in Workers : Work(w) \/ Crash(w)
  BY <1>1, WorkersRest DEF BudgetLasts
<1>2. ASSUME NEW w \in Workers, Work(w) \/ Crash(w) PROVE BudgetLasts'
  <2>1. /\ budget[w] \in Nat /\ read[w].amount \in Nat
        /\ pc[w] \in {"stat", "read", "commit"} => stream[w] \in Streams
        /\ pc[w] = "commit" => read[w].amount <= budget[w]
        /\ stream[w] \in Streams \cup {"none"}
    BY DEF TypeInv, TypeOK, Polling
  <2>2. /\ pc[w] \in {"renew", "stat", "read", "commit"} =>
              /\ stream[w] = "stdout" => budget[w] > Quantum
              /\ stream[w] = "stderr" => budget[w] > 0
        /\ pc[w] = "commit" => read[w].amount <= Quantum
    BY DEF BudgetLasts
  <2>3. \A left \in Budgets : left \in Nat /\ left > Quantum
    BY PolicyAssumption DEF AmpleBudgets
  <2>4. StatLog(w) \/ ReadNext(w) => stream'[w] = stream[w] /\ stream[w] \in Streams
    BY StatStream, ReadTracks
  <2>5. ReadNext(w) => read'[w].amount <= Quantum
    BY ReadTracks
  <2>6. ASSUME pc'[w] \in {"renew", "stat", "read", "commit", "release"}
        PROVE  /\ pc'[w] # "release" =>
                     /\ stream'[w] = "stdout" => budget'[w] > Quantum
                     /\ stream'[w] = "stderr" => budget'[w] > 0
               /\ pc'[w] = "commit" => read'[w].amount <= Quantum
               /\ pc'[w] = "release" => stream'[w] = "none"
    <3>1. CASE /\ ClaimWatch(w) /\ pc'[w] = "renew" /\ stream'[w] = "stdout"
               /\ budget'[w] \in Budgets
      BY <2>3, <3>1
    <3>2. CASE /\ pc[w] = "renew" /\ stream'[w] = stream[w] /\ budget'[w] = budget[w]
               /\ \/ pc'[w] = "release" /\ (stream[w] = "none" \/ budget[w] = 0)
                  \/ pc'[w] = "stat"
      BY <2>1, <2>2, <3>2, PolicyAssumption DEF Streams
    <3>3. CASE /\ StatLog(w) /\ pc[w] = "stat" /\ pc'[w] \in {"read", "commit"}
               /\ budget'[w] = budget[w] /\ read'[w].amount = 0
      BY <2>2, <2>4, <3>3, PolicyAssumption
    <3>4. CASE /\ ReadNext(w) /\ pc[w] = "read" /\ pc'[w] = "commit"
               /\ budget'[w] = budget[w]
      BY <2>2, <2>4, <2>5, <3>4
    <3>5. CASE /\ pc[w] = "commit" /\ pc'[w] = "renew"
               /\ budget'[w] = budget[w] - read[w].amount
               /\ stream'[w] = IF stream[w] = "stdout" THEN "stderr" ELSE "none"
      BY <2>1, <2>2, <3>5, PolicyAssumption
    <3> QED
      BY <1>2, <2>6, <3>1, <3>2, <3>3, <3>4, <3>5, PollMoves
  <2> QED
    BY <1>2, <2>6, OthersKeep DEF BudgetLasts
<1> QED
  BY <1>1, <1>2

\* The polls of a drain stay exact: the log has ended, and the cursors are moved
\* by whoever holds the one lease.
LEMMA DrainReadsInductive ==
    ASSUME TypeInv, DrainInv, DrainAfterJob, FilesNumbered, CursorsTrack, ReadsTrack,
           DrainReads, [Next]_vars
    PROVE  DrainReads'
<1>1. CASE ~ \E w \in Workers : Work(w) \/ Crash(w)
  <2>1. \A w \in Workers : seen[w] = "finalizing" => log' = log
    BY LogsMove DEF DrainAfterJob
  <2> QED
    BY <1>1, <2>1, WorkersRest DEF DrainReads, Behind
<1>2. ASSUME NEW w \in Workers, Work(w) \/ Crash(w),
             NEW v \in Workers, v # w, current'[v], seen'[v] = "finalizing"
      PROVE  /\ pc'[v] = pc[v] /\ stream'[v] = stream[v] /\ read'[v] = read[v]
             /\ current[v] /\ seen[v] = "finalizing" /\ cursor' = cursor /\ log' = log
  <2>1. /\ pc'[v] = pc[v] /\ stream'[v] = stream[v] /\ read'[v] = read[v]
        /\ current[v] /\ seen[v] = "finalizing"
    BY <1>2, OthersKeep
  <2>2. log' = log
    BY <2>1, LogsMove DEF DrainAfterJob
  <2>3. ~HoldsLease(w)
    BY <1>2, <2>1 DEF HoldsLease, DrainInv, OneLease
  <2> QED
    BY <1>2, <2>1, <2>2, <2>3, CursorsMove
<1>3. ASSUME NEW w \in Workers, Work(w) \/ Crash(w), current'[w], seen'[w] = "finalizing",
             pc'[w] \in {"renew", "stat", "read", "commit", "release"}
      PROVE  /\ \A s \in Behind(w)' : Exact(cursor[s], log[s])'
             /\ pc'[w] \in {"read", "commit"} =>
                   Exact(read'[w].next, log'[stream'[w]])
  <2>0. stream[w] \in Streams \cup {"none"}
        /\ (pc[w] \in {"stat", "read", "commit"} => stream[w] \in Streams)
    BY DEF TypeInv, TypeOK, Polling
  <2>1. CASE ClaimWatch(w) /\ pc'[w] = "renew" /\ stream'[w] = "stdout"
    BY <2>1 DEF Behind
  <2>2. ASSUME ~ClaimWatch(w) PROVE current[w] /\ seen[w] = "finalizing" /\ log' = log
    <3>1. seen[w] = "finalizing"
      BY <1>3, <2>2, PollMoves
    <3>2. log' = log
      BY <3>1, LogsMove DEF DrainAfterJob
    <3>3. current[w]
      BY <1>3, <2>2, CurrentByClaim
    <3> QED
      BY <3>1, <3>2, <3>3
  <2>3. CASE pc[w] = "renew" /\ stream'[w] = stream[w] /\ pc'[w] \in {"release", "stat"}
    <3>1. ~ClaimWatch(w) /\ cursor' = cursor
      BY <1>3, <2>3, CursorsMove DEF ClaimWatch, CommitSegment
    <3> QED
      BY <2>2, <2>3, <3>1 DEF DrainReads, Behind
  <2>4. CASE StatLog(w)
    <3>1. ~ClaimWatch(w) /\ cursor' = cursor /\ pc[w] = "stat"
      BY <2>4 DEF ClaimWatch, StatLog
    <3> QED
      BY <2>2, <2>4, <3>1, StatTracks DEF DrainReads, Behind
  <2>5. CASE ReadNext(w)
    <3>1. ~ClaimWatch(w) /\ cursor' = cursor /\ pc[w] = "read"
      BY <2>5 DEF ClaimWatch, ReadNext
    <3> QED
      BY <2>2, <2>5, <3>1, ReadTracks DEF DrainReads, Behind
  <2>6. CASE /\ CommitSegment(w) /\ pc[w] = "commit" /\ pc'[w] = "renew"
             /\ stream'[w] = IF stream[w] = "stdout" THEN "stderr" ELSE "none"
             /\ cursor' = [cursor EXCEPT ![stream[w]] = read[w].next]
    <3>1. ~ClaimWatch(w)
      BY <2>6 DEF ClaimWatch
    <3>2. /\ \A s \in Behind(w) : Exact(cursor[s], log[s])
          /\ Exact(read[w].next, log[stream[w]])
      BY <2>2, <2>6, <3>1 DEF DrainReads
    <3>3. /\ Behind(w)' = Behind(w) \cup {stream[w]}
          /\ \A s \in Streams : cursor'[s] = IF s = stream[w] THEN read[w].next
                                                              ELSE cursor[s]
      BY <2>0, <2>6 DEF Behind, Streams, TypeInv, TypeOK
    <3> QED
      BY <2>2, <2>6, <3>1, <3>2, <3>3 DEF Behind
  <2> QED
    BY <1>3, <2>1, <2>3, <2>4, <2>5, <2>6, PollMoves
<1>4. ASSUME NEW w \in Workers, Work(w) \/ Crash(w) PROVE DrainReads'
  <2> SUFFICES ASSUME NEW v \in Workers, current'[v], seen'[v] = "finalizing"
               PROVE  /\ pc'[v] \in {"renew", "stat", "read", "commit", "release"} =>
                            \A s \in Behind(v)' : Exact(cursor[s], log[s])'
                      /\ pc'[v] \in {"read", "commit"} =>
                            Exact(read'[v].next, log'[stream'[v]])
    BY DEF DrainReads
  <2>1. CASE v = w
    BY <1>3, <1>4, <2>1
  <2>2. CASE v # w
    BY <1>2, <1>4, <2>2 DEF DrainReads, Behind
  <2> QED
    BY <2>1, <2>2
<1> QED
  BY <1>1, <1>4

\* The watch stops when a poll of the drain has read both logs to their ends.
LEMMA StoppedMeansDrainedInductive ==
    ASSUME TypeInv, DrainInv, DrainAfterJob, BudgetLasts, DrainReads, StoppedMeansDrained,
           [Next]_vars
    PROVE  StoppedMeansDrained'
<1>1. watch'.state = "stopped" =>
         \/ watch.state = "stopped"
         \/ \E w \in Workers : ReleaseWatch(w) /\ HoldsLease(w) /\ Drained(w)
  BY WatchStops
<1>2. CASE watch.state = "stopped"
  <2>1. log' = log
    BY <1>2, LogsMove DEF DrainAfterJob
  <2>2. \A w \in Workers : ~HoldsLease(w)
    BY <1>2 DEF HoldsLease, DrainInv, StoppedUnleased
  <2>3. cursor' = cursor
    BY <2>2, CursorsMove, WorkersRest
  <2> QED
    BY <1>2, <2>1, <2>3 DEF StoppedMeansDrained
<1>3. ASSUME NEW w \in Workers, ReleaseWatch(w), HoldsLease(w), Drained(w)
      PROVE  StoppedMeansDrained'
  <2>1. /\ pc[w] = "release" /\ current[w] /\ seen[w] = "finalizing" /\ cursor' = cursor
        /\ \A s \in Streams : cursor[s].offset >= cursor[s].sourceSize
    BY <1>3 DEF ReleaseWatch, HoldsLease, Drained
  <2>2. log' = log
    BY <2>1, LogsMove DEF DrainAfterJob
  <2>3. \A s \in Streams : Exact(cursor[s], log[s])
    BY <2>1 DEF DrainReads, BudgetLasts, Behind
  <2>4. \A s \in Streams : cursor[s] \in Cursor /\ log[s] \in Log
    BY DEF TypeInv, TypeOK
  <2> QED
    BY <2>1, <2>2, <2>3, <2>4 DEF StoppedMeansDrained, Exact, Cursor, Log
<1> QED
  BY <1>1, <1>2, <1>3 DEF StoppedMeansDrained

\* When a watch has stopped, its cursors have reached the end of both logs and
\* count the text that is there: for any number of workers, leases that run out
\* in use, crashes, read errors, rotations and cancels, and any fingerprint and
\* quantum.  Two things are asked: a poll's bytes do for more than one quantum, and
\* no log is emptied in place between a read of less than a fingerprint and the
\* next stat.
THEOREM StoppedMeansDrainedAlways ==
    ASSUME AmpleBudgets
    PROVE  Spec /\ [][EmptyingShows]_vars => []StoppedMeansDrained
<1>1. Init => ReadInv
  BY DEF Init, ReadInv, DrainAfterJob, FilesNumbered, CursorsTrack, ReadsTrack, BudgetLasts,
     DrainReads, StoppedMeansDrained, Tracks, NoLog, Beginning
<1>2. TypeInv /\ DrainInv /\ ReadInv /\ [Next]_vars /\ [EmptyingShows]_vars => ReadInv'
  <2> SUFFICES ASSUME TypeInv, DrainInv, ReadInv, [Next]_vars, [EmptyingShows]_vars
               PROVE  ReadInv'
    OBVIOUS
  <2>1. EmptyingShows
    BY DEF EmptyingShows, vars, job
  <2> QED
    BY <2>1, DrainAfterJobInductive, FilesNumberedInductive, TracksInductive,
       BudgetLastsInductive, DrainReadsInductive, StoppedMeansDrainedInductive DEF ReadInv
<1>3. ReadInv => StoppedMeansDrained
  BY DEF ReadInv
<1> QED
  BY <1>1, <1>2, <1>3, TypesInvariant, DrainInvariant, PTL DEF Spec

-----------------------------------------------------------------------------
\* The hand-over.

\* A hand-over that is acknowledged is one of a watch that has stopped, and who is
\* about to acknowledge it has released logs_finalize.
HandOverInv ==
    /\ watch.handedOff => watch.state = "stopped"
    /\ \A w \in Workers : pc[w] = "acknowledge" => logs # "waiting_runtime_watch"
    /\ HandedOffMeansReleased

\* A deferral comes before its drain has ended.
DeferredInTime == \A w \in Workers : DeferLogsFinalize(w) => watch.state # "stopped"

\* logs_finalize is deferred by a late reconcile or never under a stopped watch.
LEMMA LogsWait ==
    ASSUME [Next]_vars, DeferredInTime, watch.state = "stopped",
           logs' = "waiting_runtime_watch"
    PROVE  logs = "waiting_runtime_watch"
  BY DEF DeferredInTime, Next, vars, Work, Crash, ListStopped, ListDue, ListNothing,
     ClaimWatch, RenewWatch, StatLog, ReadNext, CommitSegment, ReleaseWatch, PollRaises,
     DegradeWatch, HandOver, HandOverRaises, ReleaseLogs, AcknowledgeHandoff,
     ReconcileOnce, ApplySnapshot, MakeTerminal, EnsureRun, ScheduleTerminalDrain,
     CollectLogs, JobWrites, LogRotates, JobOpens, JobEnds, CancelRun, Tick

\* handed_off is set by an acknowledgement alone, and a new drain clears it.
LEMMA HandedOffMoves ==
    ASSUME TypeInv, DrainInv, HandOverInv, [Next]_vars, watch'.handedOff
    PROVE  /\ watch'.state = "stopped"
           /\ watch.handedOff \/ \E w \in Workers : AcknowledgeHandoff(w)
<1> USE DEF TypeInv, TypeOK
<1>1. watch.handedOff \/ \E w \in Workers : AcknowledgeHandoff(w)
  <2>1. ASSUME NEW w \in Workers, ClaimWatch(w) \/ RenewWatch(w) PROVE watch.handedOff
    BY <2>1 DEF ClaimWatch, RenewWatch
  <2>2. ASSUME NEW w \in Workers, ReleaseWatch(w) \/ DegradeWatch(w) \/ EnsureRun(w)
        PROVE  watch.handedOff
    BY <2>2 DEF ReleaseWatch, DegradeWatch, EnsureRun, NoLease, NewWatch
  <2>3. ASSUME NEW w \in Workers, ScheduleTerminalDrain(w) PROVE watch.handedOff
    BY <2>3 DEF ScheduleTerminalDrain
  <2>4. CASE Tick
    BY <2>4 DEF Tick
  <2> QED
    BY <2>1, <2>2, <2>3, <2>4 DEF Next, vars, Work, Crash, ListStopped, ListDue,
       ListNothing, StatLog, ReadNext, CommitSegment, PollRaises, HandOver,
       HandOverRaises, ReconcileOnce, ApplySnapshot, DeferLogsFinalize, CollectLogs,
       JobWrites, LogRotates, JobOpens, JobEnds, CancelRun
<1>2. watch.state = "stopped"
  BY <1>1 DEF HandOverInv, DrainInv, HandingOver, AcknowledgeHandoff
<1>3. watch'.state = "stopped"
  BY <1>2, NextDrain DEF Kept
<1> QED
  BY <1>1, <1>3

\* Who comes to acknowledge has just handed over.
LEMMA AcknowledgeAfterHandOver ==
    ASSUME TypeInv, [Next]_vars, NEW w \in Workers, pc'[w] = "acknowledge"
    PROVE  pc[w] = "acknowledge" \/ logs' # "waiting_runtime_watch"
<1>1. CASE ~ \E v \in Workers : Work(v) \/ Crash(v)
  BY <1>1, WorkersRest
<1>2. ASSUME NEW v \in Workers, Work(v) \/ Crash(v), v # w PROVE pc[w] = "acknowledge"
  BY <1>2, OthersKeep
<1>3. CASE Work(w) \/ Crash(w)
  BY <1>3 DEF TypeInv, TypeOK, Work, Crash, ListStopped, ListDue, ListNothing, ClaimWatch,
     RenewWatch, StatLog, ReadNext, CommitSegment, ReleaseWatch, PollRaises, DegradeWatch,
     HandOver, HandOverRaises, AfterHandoffError, ReleaseLogs, AcknowledgeHandoff,
     ReconcileOnce, ApplySnapshot, EnsureRun, ScheduleTerminalDrain, DeferLogsFinalize,
     CollectLogs, Goto
<1> QED
  BY <1>1, <1>2, <1>3

\* What the hand-over rests on is kept while deferrals come in time.
LEMMA HandOverInductive ==
    ASSUME TypeInv, DrainInv, HandOverInv, [Next]_vars, DeferredInTime
    PROVE  HandOverInv'
<1>1. watch'.handedOff => watch'.state = "stopped"
  BY HandedOffMoves
<1>2. ASSUME NEW w \in Workers, pc'[w] = "acknowledge"
      PROVE  logs' # "waiting_runtime_watch"
  BY <1>2, AcknowledgeAfterHandOver, LogsWait DEF HandOverInv, DrainInv, HandingOver
<1>3. watch'.handedOff => logs' # "waiting_runtime_watch"
  <2> SUFFICES ASSUME watch'.handedOff PROVE logs' # "waiting_runtime_watch"
    OBVIOUS
  <2>1. watch.state = "stopped" /\ logs # "waiting_runtime_watch"
    BY HandedOffMoves DEF HandOverInv, HandedOffMeansReleased, DrainInv, HandingOver,
       AcknowledgeHandoff
  <2> QED
    BY <2>1, LogsWait
<1> QED
  BY <1>1, <1>2, <1>3 DEF HandOverInv, HandedOffMeansReleased

\* As long as each deferral comes before its drain has ended, logs_finalize does
\* not wait for a hand-over that has been acknowledged: for any number of workers,
\* whatever crashed or raised between release, callback and acknowledgement.
THEOREM HandedOffUnlessLate ==
    Spec /\ [][DeferredInTime]_vars => []HandedOffMeansReleased
<1>1. Init => HandOverInv
  BY DEF Init, HandOverInv, HandedOffMeansReleased
<1>2. /\ TypeInv /\ DrainInv /\ HandOverInv /\ [Next]_vars /\ [DeferredInTime]_vars
      => HandOverInv'
  <2> SUFFICES ASSUME TypeInv, DrainInv, HandOverInv, [Next]_vars, [DeferredInTime]_vars
               PROVE  HandOverInv'
    OBVIOUS
  <2>1. CASE UNCHANGED vars
    BY <2>1 DEF HandOverInv, HandedOffMeansReleased, vars
  <2>2. CASE DeferredInTime
    BY <2>2, HandOverInductive
  <2> QED
    BY <2>1, <2>2
<1>3. HandOverInv => HandedOffMeansReleased
  BY DEF HandOverInv
<1> QED
  BY <1>1, <1>2, <1>3, TypesInvariant, DrainInvariant, PTL DEF Spec

\* Who is about to defer has just scheduled a drain that is not over.
Deferring == \A w \in Workers : pc[w] = "defer" => watch.state # "stopped"

\* With one worker process nothing comes between the schedule and the deferral.
LEMMA OneWorkerDefersInTime ==
    ASSUME \A v, w \in Workers : v = w
    PROVE  Spec => [][DeferredInTime]_vars
<1>1. Init => Deferring
  BY DEF Init, Deferring
<1>2. TypeInv /\ Deferring /\ [Next]_vars => Deferring'
  <2> SUFFICES ASSUME TypeInv, Deferring, [Next]_vars, NEW w \in Workers, pc'[w] = "defer"
               PROVE  watch'.state # "stopped"
    BY DEF Deferring
  <2> USE DEF TypeInv, TypeOK
  <2>1. CASE ~ \E v \in Workers : Work(v) \/ Crash(v)
    <3>1. pc[w] = "defer" /\ watch'.state = watch.state
      BY <2>1, WorkersRest DEF Next, vars, JobWrites, LogRotates, JobOpens, JobEnds,
         CancelRun, Tick
    <3> QED
      BY <3>1 DEF Deferring
  <2>2. CASE Work(w) \/ Crash(w)
    <3>1. ScheduleTerminalDrain(w) /\ watch.state # "stopped"
      BY <2>2 DEF Work, Crash, ListStopped, ListDue, ListNothing, ClaimWatch, RenewWatch,
         StatLog, ReadNext, CommitSegment, ReleaseWatch, PollRaises, DegradeWatch,
         HandOver, HandOverRaises, AfterHandoffError, AcknowledgeHandoff, ReconcileOnce,
         ApplySnapshot, EnsureRun, ScheduleTerminalDrain, DeferLogsFinalize, CollectLogs,
         Goto
    <3> QED
      BY <3>1 DEF ScheduleTerminalDrain
  <2> QED
    BY <2>1, <2>2
<1>3. Deferring => DeferredInTime
  BY DEF Deferring, DeferredInTime, DeferLogsFinalize
<1> QED
  BY <1>1, <1>2, <1>3, TypesInvariant, PTL DEF Spec

\* With one worker process, as the deployment has it, an acknowledged hand-over
\* leaves no logs_finalize waiting.
THEOREM HandedOffMeansReleasedAlways ==
    ASSUME \A v, w \in Workers : v = w
    PROVE  Spec => []HandedOffMeansReleased
BY HandedOffUnlessLate, OneWorkerDefersInTime, PTL

=============================================================================
