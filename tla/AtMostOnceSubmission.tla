------------------------ MODULE AtMostOnceSubmission ------------------------
(***************************************************************************)
(* What the submission service promises of a Run, without dispatchers,     *)
(* messages, leases or tokens: one call to Slurm at most, one job at most, *)
(* a verdict that is final, and an acknowledgement that comes after it.    *)
(* RunSubmission implements this specification.                            *)
(***************************************************************************)
EXTENDS Naturals

CONSTANTS
    Runs,      \* the Runs
    Elements   \* how many jobs an accepted call shows (a job array)

VARIABLES
    call,      \* call[r]: what became of the call to backend.submit
    job,       \* job[r]: the element of the call's job r is bound to, 0 if none
    decided,   \* the Runs whose submission has an outcome
    settled    \* the Runs whose message is acknowledged

vars == <<call, job, decided, settled>>

Init ==
    /\ call = [r \in Runs |-> "none"]
    /\ job = [r \in Runs |-> 0]
    /\ decided = {}
    /\ settled = {}

\* backend.submit goes out, once.
Call(r) ==
    /\ call[r] = "none"
    /\ call' = [call EXCEPT ![r] = "made"]
    /\ UNCHANGED <<job, decided, settled>>

\* Slurm creates the job, or refuses to.
Answer(r, answer) ==
    /\ call[r] = "made"
    /\ call' = [call EXCEPT ![r] = answer]
    /\ UNCHANGED <<job, decided, settled>>

\* The Run is bound to a job that exists and was made by its own call.
Bind(r, element) ==
    /\ call[r] = "accepted" /\ job[r] = 0 /\ r \notin decided
    /\ job' = [job EXCEPT ![r] = element]
    /\ decided' = decided \cup {r}
    /\ UNCHANGED <<call, settled>>

\* The Run is over without a job of its own: failed, uncertain or cancelled.
GiveUp(r) ==
    /\ r \notin decided
    /\ decided' = decided \cup {r}
    /\ UNCHANGED <<call, job, settled>>

\* Nobody comes back to this Run.
Settle(r) ==
    /\ r \in decided
    /\ settled' = settled \cup {r}
    /\ UNCHANGED <<call, job, decided>>

Next ==
    \E r \in Runs :
        \/ Call(r) \/ GiveUp(r) \/ Settle(r)
        \/ \E answer \in {"accepted", "refused"} : Answer(r, answer)
        \/ \E element \in 1..Elements : Bind(r, element)

Spec == Init /\ [][Next]_vars

=============================================================================
