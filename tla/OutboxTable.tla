----------------------------- MODULE OutboxTable -----------------------------
(***************************************************************************)
(* The control_outbox table of src/pilot107/core/control_repository.py: a  *)
(* durable queue whose messages are worked on under a lease and a fencing  *)
(* token.  Each operator below is one SQL transaction of the repository,   *)
(* stated on the row of one message; the modules that EXTEND this one say  *)
(* which process runs it and what that process does with the answer.       *)
(*                                                                         *)
(* Times are kept relative to the repository's clock: leaseLeft stands for *)
(* lease_expires_at - now and dueIn for available_at - now, both cut off   *)
(* at zero, so "expires_at <= now" is leaseLeft = 0 and "expires_at > now" *)
(* is leaseLeft > 0.                                                       *)
(***************************************************************************)
EXTENDS Naturals

CONSTANTS
    Messages,    \* the message_ids, one per deterministic key
    Owners,      \* the values of lease_owner (worker_id or dispatcher_id)
    NoOwner,     \* the NULL of lease_owner
    LeaseTicks,  \* lease_seconds
    RetryTicks,  \* delay_seconds of a retry
    MaxClaims    \* bound: no message is claimed more often than this

ASSUME NoOwnerAssumption == NoOwner \notin Owners
ASSUME LeaseAssumption == LeaseTicks \in Nat \ {0}
ASSUME RetryAssumption == RetryTicks \in Nat
ASSUME MaxClaimsAssumption == MaxClaims \in Nat

VARIABLE outbox  \* outbox[m]: the row of message m

MessageState == {"absent", "pending", "running", "succeeded", "dead_letter"}

Row == [state: MessageState, dueIn: Nat, leaseOwner: Owners \cup {NoOwner},
        leaseLeft: Nat, fencingToken: Nat, attempts: Nat]

NoRow == [state |-> "absent", dueIn |-> 0, leaseOwner |-> NoOwner,
          leaseLeft |-> 0, fencingToken |-> 0, attempts |-> 0]

OutboxInit == outbox = [m \in Messages |-> NoRow]

\* INSERT OR IGNORE: only the first call for a message_id leaves a row.
InsertMessage(m) ==
    /\ outbox[m].state = "absent"
    /\ outbox' = [outbox EXCEPT ![m].state = "pending"]

\* (Mutant) A claim that never takes an expired lease over.
ClaimablePending(m) ==
    /\ outbox[m].state = "pending" /\ outbox[m].dueIn = 0
    /\ outbox[m].attempts < MaxClaims

\* (Mutant) A claim that does not look at the lease.
ClaimableEarly(m) ==
    /\ \/ outbox[m].state = "pending" /\ outbox[m].dueIn = 0
       \/ outbox[m].state = "running"
    /\ outbox[m].attempts < MaxClaims

\* Due, or running under a lease that is over.
Claimable(m) ==
    /\ \/ outbox[m].state = "pending" /\ outbox[m].dueIn = 0
       \/ outbox[m].state = "running" /\ outbox[m].leaseLeft = 0
    /\ outbox[m].attempts < MaxClaims

\* (Mutant) A claim that keeps the token of the one before it.
ClaimedRowSameToken(row, owner) ==
    [row EXCEPT !.state = "running", !.leaseOwner = owner,
                !.leaseLeft = LeaseTicks, !.attempts = row.attempts + 1]

ClaimedRow(row, owner) ==
    [state |-> "running", dueIn |-> row.dueIn, leaseOwner |-> owner,
     leaseLeft |-> LeaseTicks, fencingToken |-> row.fencingToken + 1,
     attempts |-> row.attempts + 1]

ClaimMessage(m, owner) ==
    /\ Claimable(m)
    /\ outbox' = [outbox EXCEPT ![m] = ClaimedRow(@, owner)]

\* (Mutant) A fence without the token.
HoldsByOwner(m, owner, token) ==
    outbox[m].state = "running" /\ outbox[m].leaseOwner = owner

\* The fence every write of a claimant passes: it says nothing of the expiry.
Holds(m, owner, token) ==
    /\ outbox[m].state = "running"
    /\ outbox[m].leaseOwner = owner
    /\ outbox[m].fencingToken = token

\* A renewal also needs the lease to be unexpired; the token stays as it is.
Renewable(m, owner, token) == Holds(m, owner, token) /\ outbox[m].leaseLeft > 0

RenewMessage(m) == outbox' = [outbox EXCEPT ![m].leaseLeft = LeaseTicks]

\* _finish: the row leaves "running" and its lease columns become NULL.
FinishedRow(row, state, delay) ==
    [state |-> state, dueIn |-> delay, leaseOwner |-> NoOwner, leaseLeft |-> 0,
     fencingToken |-> row.fencingToken, attempts |-> row.attempts]

AcknowledgeMessage(m) ==
    outbox' = [outbox EXCEPT ![m] = FinishedRow(@, "succeeded", 0)]

\* What retry decides from the attempts it reads.
RetryTarget(m, budget) ==
    IF outbox[m].attempts >= budget THEN "dead_letter" ELSE "pending"

RetryMessage(m, target) ==
    outbox' = [outbox EXCEPT ![m] = FinishedRow(@, target,
                   IF target = "pending" THEN RetryTicks ELSE 0)]

\* The clock moves on by one unit.
Less(n) == IF n > 0 THEN n - 1 ELSE 0

ElapsedRow(row) ==
    [state |-> row.state, dueIn |-> Less(row.dueIn), leaseOwner |-> row.leaseOwner,
     leaseLeft |-> Less(row.leaseLeft), fencingToken |-> row.fencingToken,
     attempts |-> row.attempts]

ElapseOutbox == outbox' = [m \in Messages |-> ElapsedRow(outbox[m])]

=============================================================================
