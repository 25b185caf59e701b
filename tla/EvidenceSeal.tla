------------------------------ MODULE EvidenceSeal ------------------------------
(***************************************************************************)
(* Sealing the evidence of one Run, the gate that passes sealed evidence,  *)
(* and the Capsule built from it: core/evidence_binding.py, the seal and   *)
(* capsule columns of core/run_store.py, worker/capsule.py.                *)
(*                                                                         *)
(* The Run has succeeded and its evidence is collected.  A process that    *)
(* reconciles the agent task seals the evidence and passes the gate; one   *)
(* that builds the Capsule passes the same gate and copies the files.      *)
(* Meanwhile collectors that lost their claim before the collection        *)
(* succeeded may still write: files, then rows.                            *)
(*                                                                         *)
(* A version stands for the contents of the registered files, and for what *)
(* the rows of evidence_objects say of them: 0 is what the collection      *)
(* left, and every late collector writes one of its own, since a manifest  *)
(* holds the time of its collection.  The set of paths does not change.    *)
(***************************************************************************)
EXTENDS Integers, FiniteSets

CONSTANTS
    Processes,     \* what seals, passes the gate and builds, each request new
    Collectors,    \* the collectors that are late
    VersionOf,     \* what each of them writes
    MessageKey, RequestKey,   \* the operation_keys of a Capsule: the worker's
                   \* message and a request to build it derive different ones
    NoProcess,     \* no claim owner
    NoKey,         \* no operation_key
    LeaseTicks,    \* seal_lease_seconds
    MaxFaults,     \* bound: processes that die, and claims that run out in use
    MaxBuilds      \* bound: build claims of the Capsule

ASSUME ProcessesAssumption == IsFiniteSet(Processes) /\ NoProcess \notin Processes
ASSUME CollectorsAssumption ==
    /\ VersionOf \in [Collectors -> Nat \ {0}]
    /\ \A c, d \in Collectors : VersionOf[c] = VersionOf[d] => c = d
ASSUME KeysAssumption ==
    NoKey \notin {MessageKey, RequestKey} /\ MessageKey # RequestKey
ASSUME BoundsAssumption ==
    LeaseTicks \in Nat \ {0} /\ MaxFaults \in Nat /\ MaxBuilds \in Nat

VARIABLES
    seal,      \* the seal columns of the run row
    row,       \* the rows of evidence_objects
    files,     \* the files: their version, and whether they are read-only
    marker,    \* seal.json
    capsule,   \* the capsule columns of the run row, and its directory
    pc,        \* what each process does next
    my,        \* its claim and what it has read
    late,      \* what each late collector does next
    crashes, overruns

evidence == <<seal, row, files, marker>>
procs == <<pc, my>>
faults == <<crashes, overruns>>
vars == <<seal, row, files, marker, capsule, pc, my, late, crashes, overruns>>

-----------------------------------------------------------------------------

Versions == {0} \cup {VersionOf[c] : c \in Collectors}
Mark == [rows: Versions, digest: Versions]   \* the contents of a seal marker
NoMark == [rows |-> -1, digest |-> -1]
Unset == -1

PC == {"idle", "facts", "prints", "markRead", "markWrite", "unchanged", "tree",
       "marker", "look", "replace", "reread", "before", "readOnly", "complete",
       "invalidate",
       "gate", "receipt", "begin", "lock", "copy", "publish", "assert",
       "ready", "failed", "unclaimed", "reclaim", "giveUp"}

\* What a process is at: the seal, the gate of an agent task, a build for a
\* message that has attempts left, one for its last attempt, one on request.
Builds == {"build", "lastBuild", "request"}
Jobs == {"seal", "gate"} \cup Builds

KeyOf(job) == IF job = "request" THEN RequestKey ELSE MessageKey

NoClaim == [job |-> "none", fence |-> 0, file |-> Unset, digest |-> Unset,
            rows |-> Unset, token |-> 0]

TypeOK ==
    /\ seal \in [state: {"open", "preparing", "sealed", "invalid"},
                 owner: Processes \cup {NoProcess}, fence: Nat,
                 leaseLeft: 0..LeaseTicks, mark: Mark \cup {NoMark}]
    /\ row \in [version: Versions, checked: BOOLEAN, invalidated: BOOLEAN,
                digest: Versions \cup {Unset}]
    /\ files \in [version: Versions, readOnly: BOOLEAN]
    /\ marker \in Mark \cup {NoMark}
    /\ capsule \in [state: {"pending", "running", "ready", "failed"},
                    key: {NoKey, MessageKey, RequestKey}, fence: Nat,
                    dir: Versions \cup {Unset}]
    /\ pc \in [Processes -> PC]
    /\ my \in [Processes -> [job: Jobs \cup {"none"}, fence: Nat,
                             file: Versions \cup {Unset}, digest: Versions \cup {Unset},
                             rows: Versions \cup {Unset}, token: Nat]]
    /\ late \in [Collectors -> {"file", "check", "row", "done"}]
    /\ crashes + overruns <= MaxFaults
    /\ seal.state = "preparing" <=> seal.owner # NoProcess
    /\ \A p \in Processes : pc[p] = "idle" <=> my[p] = NoClaim

\* The collection has succeeded; what a collector that is late wrote before was
\* overwritten by it.
Init ==
    /\ seal = [state |-> "open", owner |-> NoProcess, fence |-> 0,
               leaseLeft |-> 0, mark |-> NoMark]
    /\ row = [version |-> 0, checked |-> FALSE, invalidated |-> FALSE, digest |-> Unset]
    /\ files = [version |-> 0, readOnly |-> FALSE]
    /\ marker = NoMark
    /\ capsule = [state |-> "pending", key |-> NoKey, fence |-> 0, dir |-> Unset]
    /\ pc = [p \in Processes |-> "idle"]
    /\ my = [p \in Processes |-> NoClaim]
    /\ late \in [Collectors -> {"file", "check"}]
    /\ crashes = 0 /\ overruns = 0

Goto(p, place) == pc' = [pc EXCEPT ![p] = place] /\ UNCHANGED my

Leave(p) ==
    /\ pc' = [pc EXCEPT ![p] = "idle"]
    /\ my' = [my EXCEPT ![p] = NoClaim]

Keep(p, field, value, place) ==
    /\ my' = [my EXCEPT ![p] = [@ EXCEPT ![field] = value]]
    /\ pc' = [pc EXCEPT ![p] = place]

\* renew_claim, complete_evidence_seal and invalidate_evidence_seal.
HoldsSeal(p) ==
    /\ seal.state = "preparing" /\ seal.owner = p
    /\ seal.fence = my[p].fence /\ seal.leaseLeft > 0

-----------------------------------------------------------------------------
\* A collector whose claim is over: write_json writes the file, which fails
\* once it is read-only; upsert_evidence_objects reads the seal state, and only
\* then begins to write.

LateFile(c) ==
    /\ late[c] = "file"
    /\ IF files.readOnly THEN late' = [late EXCEPT ![c] = "done"] /\ UNCHANGED files
       ELSE /\ late' = [late EXCEPT ![c] = "check"]
            /\ files' = [files EXCEPT !.version = VersionOf[c]]
    /\ UNCHANGED <<seal, row, marker, capsule, procs, faults>>

LateCheck(c) ==
    /\ late[c] = "check"
    /\ late' = [late EXCEPT ![c] =
                  IF seal.state = "open" /\ ~row.checked THEN "row" ELSE "done"]
    /\ UNCHANGED <<evidence, capsule, procs, faults>>

\* (Mutant) A database without evidence_objects_integrity_guard.
FrozenNever == FALSE

\* evidence_objects_integrity_guard refuses the update of a frozen row.
Frozen == row.checked \/ row.invalidated

LateRow(c) ==
    /\ late[c] = "row"
    /\ late' = [late EXCEPT ![c] = "done"]
    /\ row' = IF Frozen THEN row ELSE [row EXCEPT !.version = VersionOf[c]]
    /\ UNCHANGED <<seal, files, marker, capsule, procs, faults>>

-----------------------------------------------------------------------------
\* seal_terminal_evidence.

\* (Mutant) No claim is taken over.
BeginnableOpen == seal.state = "open"

Beginnable ==
    \/ seal.state = "open"
    \/ seal.state = "preparing" /\ seal.leaseLeft = 0

\* begin_evidence_seal by a process with a claim owner of its own (a new uuid).
BeginSeal(p) ==
    /\ pc[p] = "idle" /\ Beginnable
    /\ seal' = [seal EXCEPT !.state = "preparing", !.owner = p,
                            !.fence = @ + 1, !.leaseLeft = LeaseTicks]
    /\ pc' = [pc EXCEPT ![p] = "facts"]
    /\ my' = [my EXCEPT ![p] = [NoClaim EXCEPT !.job = "seal", !.fence = seal'.fence]]
    /\ UNCHANGED <<row, files, marker, capsule, late, faults>>

\* A process that finds the evidence sealed goes on to the gate: that of the
\* agent task, or that of build_raw_capsule.
BeginGate(p, job) ==
    /\ pc[p] = "idle" /\ seal.state = "sealed"
    /\ pc' = [pc EXCEPT ![p] = "facts"]
    /\ my' = [my EXCEPT ![p] = [NoClaim EXCEPT !.job = job]]
    /\ UNCHANGED <<evidence, capsule, late, faults>>

\* An error no handler of the seal catches; a build fails before it has a claim.
Raise(p) == IF my[p].job \in Builds THEN Goto(p, "unclaimed") ELSE Leave(p)

\* A fact that does not hold: the seal is invalidated, or the gate refuses.
Refused(p) == IF my[p].job = "seal" THEN Goto(p, "invalidate") ELSE Raise(p)

\* renew_claim; without the claim it raises evidence_seal_awaiting.
Renewed(p) == HoldsSeal(p) /\ seal' = [seal EXCEPT !.leaseLeft = LeaseTicks]

\* (Mutant) A registered object is taken for its file.
BoundAlways == TRUE

\* bind: every file has the digest of its row.
Bound == row.version = files.version

\* _verify_terminal_gate_facts; then the fingerprints of the files.
VerifyFacts(p) ==
    /\ pc[p] = "facts"
    /\ IF Bound THEN Goto(p, "prints") ELSE Refused(p)
    /\ UNCHANGED <<evidence, capsule, late, faults>>

TakeFingerprints(p) ==
    /\ pc[p] = "prints"
    /\ Keep(p, "file", files.version, "markRead")
    /\ UNCHANGED <<evidence, capsule, late, faults>>

\* mark_evidence_integrity_checked: its SELECTs, and the digest of what they
\* return; a digest that is there already must be the same.
MarkRead(p) ==
    /\ pc[p] = "markRead"
    /\ IF row.invalidated \/ row.digest \notin {Unset, row.version} THEN Refused(p)
       ELSE Keep(p, "digest", row.version, "markWrite")
    /\ UNCHANGED <<evidence, capsule, late, faults>>

\* Its UPDATEs.  The guard may refuse them.
MarkWrite(p) ==
    /\ pc[p] = "markWrite"
    /\ IF row.invalidated \/ row.digest \notin {Unset, my[p].digest}
       THEN Raise(p) /\ UNCHANGED row
       ELSE /\ row' = [row EXCEPT !.checked = TRUE, !.digest = my[p].digest]
            /\ Goto(p, "unchanged")
    /\ UNCHANGED <<seal, files, marker, capsule, late, faults>>

\* The fingerprints again; revoke_evidence_integrity if they differ.
CheckUnchanged(p) ==
    /\ pc[p] = "unchanged"
    /\ IF files.version = my[p].file
       THEN /\ Goto(p, IF my[p].job = "seal" THEN "tree" ELSE "gate")
            /\ UNCHANGED row
       ELSE /\ row' = [row EXCEPT !.checked = FALSE, !.digest = Unset,
                                  !.invalidated = TRUE]
            /\ Refused(p)
    /\ UNCHANGED <<seal, files, marker, capsule, late, faults>>

\* Renewed, the registered tree is compared with the files once more.  One step:
\* a process that loses its claim before it reads has lost it for good, and
\* what it then reads makes no difference.  The same holds of Fingerprint.
ValidateTree(p) ==
    /\ pc[p] = "tree"
    /\ \/ ~HoldsSeal(p) /\ Leave(p) /\ UNCHANGED seal
       \/ /\ Renewed(p)
          /\ IF Bound THEN Keep(p, "rows", row.version, "marker") ELSE Refused(p)
    /\ UNCHANGED <<row, files, marker, capsule, late, faults>>

MarkOf(p) == [rows |-> my[p].rows, digest |-> my[p].digest]

RenewForMarker(p) ==
    /\ pc[p] = "marker"
    /\ \/ ~HoldsSeal(p) /\ Leave(p) /\ UNCHANGED seal
       \/ Renewed(p) /\ Goto(p, "look")
    /\ UNCHANGED <<row, files, marker, capsule, late, faults>>

\* _write_seal_marker, which asks for no claim: a marker that is there must be
\* the same.  Two processes may both find none; the second then replaces the
\* first one's, even when it has lost its claim and the seal is complete.
ReadMarker(p) ==
    /\ pc[p] = "look"
    /\ CASE marker = NoMark    -> Goto(p, "replace")
         [] marker = MarkOf(p) -> Goto(p, "before")
         [] OTHER              -> Refused(p)
    /\ UNCHANGED <<evidence, capsule, late, faults>>

\* os.replace.  It may fail: the directory can be read-only by then.
ReplaceMarker(p) ==
    /\ pc[p] = "replace"
    /\ \/ marker' = MarkOf(p) /\ Goto(p, "reread")
       \/ UNCHANGED marker /\ Refused(p)
    /\ UNCHANGED <<seal, row, files, capsule, late, faults>>

RereadMarker(p) ==
    /\ pc[p] = "reread"
    /\ IF marker = MarkOf(p) THEN Goto(p, "before") ELSE Refused(p)
    /\ UNCHANGED <<evidence, capsule, late, faults>>

Fingerprint(p) ==
    /\ pc[p] = "before"
    /\ \/ ~HoldsSeal(p) /\ Leave(p) /\ UNCHANGED seal
       \/ Renewed(p) /\ Keep(p, "file", files.version, "readOnly")
    /\ UNCHANGED <<row, files, marker, capsule, late, faults>>

MakeReadOnly(p) ==
    /\ pc[p] = "readOnly"
    /\ files' = [files EXCEPT !.readOnly = TRUE]
    /\ IF files.version = my[p].file THEN Goto(p, "complete") ELSE Refused(p)
    /\ UNCHANGED <<seal, row, marker, capsule, late, faults>>

\* (Mutant) The claim is not given back.
EndSealHolding(state, mark) ==
    seal' = [seal EXCEPT !.state = state, !.leaseLeft = 0, !.mark = mark]

EndSeal(state, mark) ==
    seal' = [seal EXCEPT !.state = state, !.owner = NoProcess,
                         !.leaseLeft = 0, !.mark = mark]

\* complete_evidence_seal; then verify_terminal_gate.  Replayed on a sealed
\* row, it needs the same facts.
CompleteSeal(p) ==
    /\ pc[p] = "complete"
    /\ \/ /\ HoldsSeal(p)
          /\ EndSeal("sealed", MarkOf(p))
          /\ pc' = [pc EXCEPT ![p] = "facts"]
          /\ my' = [my EXCEPT ![p] = [NoClaim EXCEPT !.job = "gate"]]
       \/ ~HoldsSeal(p) /\ Leave(p) /\ UNCHANGED seal
    /\ UNCHANGED <<row, files, marker, capsule, late, faults>>

InvalidateSeal(p) ==
    /\ pc[p] = "invalidate"
    /\ IF HoldsSeal(p) THEN EndSeal("invalid", NoMark) ELSE UNCHANGED seal
    /\ Leave(p)
    /\ UNCHANGED <<row, files, marker, capsule, late, faults>>

\* verify_terminal_gate, its last part: the marker as it is now, made of the
\* rows as they are now, against the one on disk and the digest in the seal.
PassGate(p) ==
    /\ pc[p] = "gate"
    /\ IF [rows |-> row.version, digest |-> my[p].digest] = marker /\ marker = seal.mark
       THEN Keep(p, "rows", row.version,
                 IF my[p].job \in Builds THEN "begin" ELSE "receipt")
       ELSE Refused(p)
    /\ UNCHANGED <<evidence, capsule, late, faults>>

\* The agent task is finalized with the receipt.
UseReceipt(p) ==
    /\ pc[p] = "receipt"
    /\ Leave(p)
    /\ UNCHANGED <<evidence, capsule, late, faults>>

-----------------------------------------------------------------------------
\* build_raw_capsule, for a process whose gate gave it an authority.

HoldsBuild(p) == capsule.key = KeyOf(my[p].job) /\ capsule.fence = my[p].token

\* begin_capsule_build, for the build or to record that it failed.  Another
\* operation_key is refused; a Capsule that is ready stays so.
BeginBuild(p) ==
    /\ pc[p] \in {"begin", "reclaim"} /\ capsule.fence < MaxBuilds
    /\ IF capsule.key \in {NoKey, KeyOf(my[p].job)}
       THEN /\ capsule' = [capsule EXCEPT !.fence = @ + 1, !.key = KeyOf(my[p].job),
                             !.state = IF @ = "ready" THEN @ ELSE "running"]
            /\ Keep(p, "token", capsule'.fence,
                    IF pc[p] = "begin" THEN "lock" ELSE "giveUp")
       ELSE /\ IF pc[p] = "begin" THEN Goto(p, "unclaimed") ELSE Leave(p)
            /\ UNCHANGED capsule
    /\ UNCHANGED <<evidence, late, faults>>

\* _capsule_build_lock.  A directory that is there is verified, and reused.
LockBuild(p) ==
    /\ pc[p] = "lock" /\ \A q \in Processes : pc[q] \notin {"copy", "publish"}
    /\ Goto(p, CASE capsule.dir = Unset -> "copy"
                 [] capsule.dir = files.version /\ files.version = my[p].rows -> "assert"
                 [] OTHER -> "failed")
    /\ UNCHANGED <<evidence, capsule, late, faults>>

\* assert_capsule_build.
AssertBuild(p) == capsule.state \in {"running", "ready"} /\ HoldsBuild(p)

\* The files are copied, what was copied is verified, the claim asserted; or
\* one of these fails.
CopyFiles(p) ==
    /\ pc[p] = "copy"
    /\ \/ files.version = my[p].rows /\ AssertBuild(p) /\ Goto(p, "publish")
       \/ Goto(p, "failed")
    /\ UNCHANGED <<evidence, capsule, late, faults>>

Publish(p) ==
    /\ pc[p] = "publish"
    /\ capsule' = [capsule EXCEPT !.dir = my[p].rows]
    /\ Goto(p, "assert")
    /\ UNCHANGED <<evidence, late, faults>>

AssertClaim(p) ==
    /\ pc[p] = "assert"
    /\ Goto(p, IF AssertBuild(p) THEN "ready" ELSE "failed")
    /\ UNCHANGED <<evidence, capsule, late, faults>>

Finishable(p) == capsule.state = "running" /\ HoldsBuild(p)

\* finish_capsule_build; ready again under the same claim is a replay.
FinishReady(p) ==
    /\ pc[p] = "ready"
    /\ capsule' = IF Finishable(p) THEN [capsule EXCEPT !.state = "ready"] ELSE capsule
    /\ IF capsule'.state = "ready" /\ HoldsBuild(p) THEN Leave(p) ELSE Goto(p, "unclaimed")
    /\ UNCHANGED <<evidence, late, faults>>

\* (Mutant) failure_state is not validated.
FailureStateAny(p) == IF my[p].job = "build" THEN "pending" ELSE "ready"

FailureState(p) == IF my[p].job = "build" THEN "pending" ELSE "failed"

FinishFailed(p) ==
    /\ pc[p] \in {"failed", "giveUp"}
    /\ capsule' = IF Finishable(p) THEN [capsule EXCEPT !.state = FailureState(p)]
                                  ELSE capsule
    /\ IF pc[p] = "failed" THEN Goto(p, "unclaimed") ELSE Leave(p)
    /\ UNCHANGED <<evidence, late, faults>>

\* _finish_unclaimed_capsule_failure: it reads, and then claims the build to
\* give it up.  Without its lease on the message, or from the endpoint, it does
\* nothing.
FinishUnclaimed(p) ==
    /\ pc[p] = "unclaimed"
    /\ \/ /\ capsule.state \in {"pending", "failed"}
          /\ ~(capsule.key = KeyOf(my[p].job) /\ capsule.state = FailureState(p))
          /\ Goto(p, "reclaim")
       \/ Leave(p)
    /\ UNCHANGED <<evidence, capsule, late, faults>>

-----------------------------------------------------------------------------

Crash(p) ==
    /\ pc[p] # "idle" /\ crashes + overruns < MaxFaults
    /\ crashes' = crashes + 1
    /\ Leave(p)
    /\ UNCHANGED <<evidence, capsule, late, overruns>>

\* Claims of a process at work that run out by the next unit of time.
Overrun == {p \in Processes : pc[p] # "idle" /\ HoldsSeal(p) /\ seal.leaseLeft = 1}

Tick ==
    /\ seal.leaseLeft > 0
    /\ crashes + overruns + Cardinality(Overrun) <= MaxFaults
    /\ overruns' = overruns + Cardinality(Overrun)
    /\ seal' = [seal EXCEPT !.leaseLeft = @ - 1]
    /\ UNCHANGED <<row, files, marker, capsule, procs, late, crashes>>

Seal(p) ==
    \/ BeginSeal(p) \/ BeginGate(p, "gate")
    \/ VerifyFacts(p) \/ TakeFingerprints(p)
    \/ MarkRead(p) \/ MarkWrite(p) \/ CheckUnchanged(p) \/ ValidateTree(p)
    \/ RenewForMarker(p) \/ ReadMarker(p) \/ ReplaceMarker(p) \/ RereadMarker(p)
    \/ Fingerprint(p) \/ MakeReadOnly(p) \/ CompleteSeal(p) \/ InvalidateSeal(p)
    \/ PassGate(p) \/ UseReceipt(p)

Build(p) ==
    \/ \E job \in Builds : BeginGate(p, job)
    \/ BeginBuild(p) \/ LockBuild(p) \/ CopyFiles(p) \/ Publish(p)
    \/ AssertClaim(p) \/ FinishReady(p) \/ FinishFailed(p) \/ FinishUnclaimed(p)

Next ==
    \/ \E p \in Processes : Seal(p) \/ Build(p) \/ Crash(p)
    \/ \E c \in Collectors : LateFile(c) \/ LateCheck(c) \/ LateRow(c)
    \/ Tick

Spec == Init /\ [][Next]_vars

\* The agent task is reconciled until the seal is decided, each attempt runs to
\* its end, and the clock runs.
Fairness == WF_vars(Tick) /\ \A p \in Processes : WF_vars(Seal(p))

FairSpec == Spec /\ Fairness

-----------------------------------------------------------------------------
\* Properties.

\* A receipt, or a Capsule's authority, is given only for evidence that is
\* sealed, whose files are what the seal says and can no longer change - with
\* late collectors writing between any two steps of the sealing, and processes
\* that lost their claim still sealing (verify_terminal_gate).
ReceiptMatchesEvidence ==
    \A p \in Processes :
        pc[p] \in {"receipt", "begin", "lock", "copy", "publish", "assert", "ready"} =>
            /\ seal.state = "sealed"
            /\ seal.mark = [rows |-> my[p].rows, digest |-> my[p].digest]
            /\ files = [version |-> my[p].rows, readOnly |-> TRUE]

\* The marker on disk is the one the seal was completed with, and its rows are
\* those of the database, although _write_seal_marker asks for no claim: a
\* process overtaken since it found no marker may replace the one on disk
\* before, between or after the steps of the process that completes the seal.
SealMatchesMarker ==
    seal.state = "sealed" => marker = seal.mark /\ row.version = seal.mark.rows

\* A Capsule is ready only with a directory, of the sealed contents.
ReadyMeansBuilt ==
    capsule.state = "ready" =>
        capsule.dir = files.version /\ seal.state = "sealed" /\ capsule.dir = seal.mark.rows

\* A seal that was begun is completed or invalidated, although processes die or
\* lose their claim in between.
SealSettles == seal.state = "preparing" ~> seal.state \in {"sealed", "invalid"}

=============================================================================
