----------------------------- MODULE EvidenceProofs -----------------------------
(***************************************************************************)
(* What EvidenceSeal promises for any number of processes and of late      *)
(* collectors, crashes, claims that run out in use and builds: a seal is   *)
(* that of the marker on disk, an authority is given only for sealed       *)
(* evidence that can no longer change, and a Capsule that is ready was     *)
(* made from it.                                                           *)
(*                                                                         *)
(* Who writes the marker need not hold the claim.  It is the same marker   *)
(* nevertheless: the first process to mark the rows freezes them, and no   *)
(* other marks them with another digest (OneDigest).                       *)
(***************************************************************************)
EXTENDS EvidenceSeal, FiniteSetTheorems, TLAPS

Gates == {"gate"} \cup Builds

\* Where a process has an authority: the gate has passed.
Authority == {"receipt", "begin", "lock", "copy", "publish", "assert", "ready"}

\* Where a process has marked the rows, and goes by the digest it marked them with.
Past == {"unchanged", "tree", "marker", "look", "replace", "reread", "before",
         "readOnly", "complete", "gate"} \cup Authority

\* A process is where its job may take it, and a gate is begun only on a seal.
JobInPlace(p) ==
    /\ pc[p] # "idle" => my[p].job # "none"
    /\ pc[p] \in {"gate"} \cup Authority => my[p].job \in Gates
    /\ my[p].job \in Gates => seal.state = "sealed"

\* What it has read: a digest, and the version of rows that are frozen.
ReadKept(p) ==
    /\ pc[p] \in {"markWrite"} \cup Past => my[p].digest \in Versions
    /\ pc[p] \in Past => Frozen
    /\ pc[p] \in {"marker", "look", "replace", "reread", "before", "readOnly",
                  "complete"} \cup Authority => my[p].rows = row.version

\* From where it has found its marker, or written it, the marker is that; and the
\* files are read-only by the time the seal is completed.
MarkerKept(p) ==
    /\ pc[p] \in {"reread", "before", "readOnly", "complete"} => marker = MarkOf(p)
    /\ pc[p] = "complete" => files.readOnly

\* A gate that has compared the files with their rows stays right.
GateBound(p) ==
    my[p].job \in Gates
      /\ pc[p] \in {"prints", "markRead", "markWrite", "unchanged", "gate"} \cup Authority
        => Bound

\* An authority is that of the seal; a build that is through has its directory.
AuthorityKept(p) ==
    /\ pc[p] \in Authority => seal.mark = [rows |-> my[p].rows, digest |-> my[p].digest]
    /\ pc[p] \in {"assert", "ready"} => capsule.dir # Unset

ProcessInv(p) ==
    JobInPlace(p) /\ ReadKept(p) /\ MarkerKept(p) /\ GateBound(p) /\ AuthorityKept(p)

\* A seal is of files and rows that can no longer change.
SealedKept ==
    seal.state = "sealed" =>
        /\ files.readOnly /\ Frozen
        /\ marker = seal.mark /\ row.version = seal.mark.rows

\* A directory is made from sealed contents, and a build is ready after it.
DirectoryKept ==
    /\ capsule.dir # Unset => /\ seal.state = "sealed"
                              /\ capsule.dir = files.version
                              /\ capsule.dir = seal.mark.rows
    /\ capsule.state = "ready" => capsule.dir # Unset

\* The rows are marked with one digest, whichever processes mark them, so the
\* markers of all processes are the same.
OneDigest ==
    /\ \A p, q \in Processes :
          pc[p] \in Past /\ pc[q] \in Past => my[p].digest = my[q].digest
    /\ \A p \in Processes : pc[p] \in Past =>
          /\ row.invalidated \/ row.digest = my[p].digest
          /\ marker # NoMark => marker.digest = my[p].digest
    /\ marker # NoMark =>
          /\ Frozen /\ marker.rows = row.version
          /\ row.invalidated \/ row.digest = marker.digest

Counted == crashes \in Nat /\ overruns \in Nat

SealInv ==
    /\ TypeOK /\ Counted /\ SealedKept /\ DirectoryKept /\ OneDigest
    /\ \A p \in Processes : ProcessInv(p)

-----------------------------------------------------------------------------
\* How processes move.

Claim == [job: Jobs \cup {"none"}, fence: Nat, file: Versions \cup {Unset},
          digest: Versions \cup {Unset}, rows: Versions \cup {Unset}, token: Nat]

\* The part of the types that is about processes.
ProcsTyped ==
    /\ pc \in [Processes -> PC] /\ my \in [Processes -> Claim]
    /\ \A p \in Processes : pc[p] = "idle" <=> my[p] = NoClaim

\* The others stay where they are.
OthersStay(p) ==
    \A q \in Processes : q # p => pc'[q] = pc[q] /\ my'[q] = my[q]

\* Goto, Leave and Keep move one process, and leave the types as they are.
LEMMA GotoMoves ==
    ASSUME ProcsTyped, NEW p \in Processes, NEW place \in PC \ {"idle"},
           pc[p] # "idle", Goto(p, place)
    PROVE  ProcsTyped' /\ OthersStay(p) /\ pc'[p] = place /\ my'[p] = my[p]
  BY DEF ProcsTyped, OthersStay, Goto

\* A process that leaves forgets its claim.
LEMMA LeaveMoves ==
    ASSUME ProcsTyped, NEW p \in Processes, Leave(p)
    PROVE  ProcsTyped' /\ OthersStay(p) /\ pc'[p] = "idle" /\ my'[p] = NoClaim
<1>1. NoClaim \in Claim /\ "idle" \in PC
  BY DEF NoClaim, Claim, PC
<1> HIDE DEF NoClaim
<1> QED
  BY <1>1 DEF ProcsTyped, OthersStay, Leave

\* A process that keeps a value changes that field of its claim only.
LEMMA KeepMoves ==
    ASSUME ProcsTyped, NEW p \in Processes, my[p].job # "none",
           NEW place \in PC \ {"idle"}, NEW field, NEW value,
           \/ field \in {"file", "digest", "rows"} /\ value \in Versions
           \/ field = "token" /\ value \in Nat,
           Keep(p, field, value, place)
    PROVE  /\ ProcsTyped' /\ OthersStay(p) /\ pc'[p] = place
           /\ my'[p].job = my[p].job /\ my'[p].fence = my[p].fence
           /\ my'[p].file = IF field = "file" THEN value ELSE my[p].file
           /\ my'[p].digest = IF field = "digest" THEN value ELSE my[p].digest
           /\ my'[p].rows = IF field = "rows" THEN value ELSE my[p].rows
           /\ my'[p].token = IF field = "token" THEN value ELSE my[p].token
<1> DEFINE kept == [my[p] EXCEPT ![field] = value]
<1>1. my[p] \in Claim
  BY DEF ProcsTyped
<1>2. /\ kept \in Claim /\ kept.job = my[p].job /\ kept.fence = my[p].fence
      /\ kept.file = IF field = "file" THEN value ELSE my[p].file
      /\ kept.digest = IF field = "digest" THEN value ELSE my[p].digest
      /\ kept.rows = IF field = "rows" THEN value ELSE my[p].rows
      /\ kept.token = IF field = "token" THEN value ELSE my[p].token
  <2>1. CASE field = "file"
    BY <1>1, <2>1 DEF Claim
  <2>2. CASE field = "digest"
    BY <1>1, <2>2 DEF Claim
  <2>3. CASE field = "rows"
    BY <1>1, <2>3 DEF Claim
  <2>4. CASE field = "token"
    BY <1>1, <2>4 DEF Claim
  <2> QED
    BY <2>1, <2>2, <2>3, <2>4
<1>3. my' = [my EXCEPT ![p] = kept] /\ pc' = [pc EXCEPT ![p] = place]
  BY DEF Keep
<1>4. kept # NoClaim
  BY <1>2 DEF NoClaim
<1> HIDE DEF kept
<1> QED
  BY <1>2, <1>3, <1>4 DEF ProcsTyped, OthersStay

\* A job begins with a claim in which nothing has been read.
LEMMA BeginMoves ==
    ASSUME ProcsTyped, NEW p \in Processes, NEW job \in Jobs, NEW n \in Nat,
           NEW new, new \in {[NoClaim EXCEPT !.job = job],
                             [NoClaim EXCEPT !.job = job, !.fence = n]},
           pc' = [pc EXCEPT ![p] = "facts"], my' = [my EXCEPT ![p] = new]
    PROVE  ProcsTyped' /\ OthersStay(p) /\ pc'[p] = "facts" /\ my'[p].job = job
<1>1. /\ job # "none" /\ job \in Jobs \cup {"none"} /\ n \in Nat /\ NoClaim \in Claim
      /\ NoClaim.job = "none" /\ "facts" \in PC \ {"idle"}
  BY DEF Jobs, Builds, NoClaim, Claim, PC
<1> HIDE DEF NoClaim
<1>2. new \in Claim /\ new.job = job
  BY <1>1 DEF Claim
<1> QED
  BY <1>1, <1>2 DEF ProcsTyped, OthersStay

\* Which steps write what.
LEMMA Writers ==
    ASSUME [Next]_vars
    PROVE  /\ \/ UNCHANGED seal
              \/ \E p \in Processes :
                    \/ BeginSeal(p) \/ CompleteSeal(p) \/ InvalidateSeal(p)
                    \/ ValidateTree(p) \/ RenewForMarker(p) \/ Fingerprint(p)
              \/ Tick
           /\ \/ UNCHANGED row
              \/ \E p \in Processes : MarkWrite(p) \/ CheckUnchanged(p)
              \/ \E c \in Collectors : LateRow(c)
           /\ \/ UNCHANGED files
              \/ \E p \in Processes : MakeReadOnly(p)
              \/ \E c \in Collectors : LateFile(c)
           /\ UNCHANGED marker \/ \E p \in Processes : ReplaceMarker(p)
           /\ \/ UNCHANGED capsule
              \/ \E p \in Processes :
                    BeginBuild(p) \/ Publish(p) \/ FinishReady(p) \/ FinishFailed(p)
<1>1. ASSUME NEW p \in Processes, Seal(p)
      PROVE  /\ \/ UNCHANGED seal \/ BeginSeal(p) \/ CompleteSeal(p) \/ InvalidateSeal(p)
                \/ ValidateTree(p) \/ RenewForMarker(p) \/ Fingerprint(p)
             /\ UNCHANGED row \/ MarkWrite(p) \/ CheckUnchanged(p)
             /\ UNCHANGED files \/ MakeReadOnly(p)
             /\ UNCHANGED marker \/ ReplaceMarker(p)
             /\ UNCHANGED capsule
  <2>1. CASE BeginGate(p, "gate") \/ VerifyFacts(p) \/ TakeFingerprints(p) \/ MarkRead(p)
             \/ ReadMarker(p) \/ RereadMarker(p) \/ PassGate(p) \/ UseReceipt(p)
    BY <2>1 DEF BeginGate, VerifyFacts, TakeFingerprints, MarkRead, ReadMarker,
       RereadMarker, PassGate, UseReceipt, evidence
  <2>2. CASE BeginSeal(p) \/ CompleteSeal(p) \/ InvalidateSeal(p) \/ ValidateTree(p)
             \/ RenewForMarker(p) \/ Fingerprint(p)
    BY <2>2 DEF BeginSeal, CompleteSeal, InvalidateSeal, ValidateTree, RenewForMarker,
       Fingerprint
  <2>3. CASE MarkWrite(p) \/ CheckUnchanged(p)
    BY <2>3 DEF MarkWrite, CheckUnchanged
  <2>4. CASE ReplaceMarker(p) \/ MakeReadOnly(p)
    BY <2>4 DEF ReplaceMarker, MakeReadOnly
  <2> QED
    BY <1>1, <2>1, <2>2, <2>3, <2>4 DEF Seal
<1>2. ASSUME NEW p \in Processes, Build(p) \/ Crash(p)
      PROVE  /\ UNCHANGED evidence
             /\ \/ UNCHANGED capsule
                \/ BeginBuild(p) \/ Publish(p) \/ FinishReady(p) \/ FinishFailed(p)
  BY <1>2 DEF Build, Crash, BeginGate, BeginBuild, LockBuild, CopyFiles, Publish,
     AssertClaim, FinishReady, FinishFailed, FinishUnclaimed
<1>3. ASSUME NEW c \in Collectors, LateFile(c) \/ LateCheck(c) \/ LateRow(c)
      PROVE  /\ UNCHANGED <<seal, marker, capsule>>
             /\ UNCHANGED row \/ LateRow(c)
             /\ UNCHANGED files \/ LateFile(c)
  BY <1>3 DEF LateFile, LateCheck, LateRow, evidence
<1>4. CASE Tick
  BY <1>4 DEF Tick
<1>5. CASE UNCHANGED vars
  BY <1>5 DEF vars
<1> QED
  BY <1>1, <1>2, <1>3, <1>4, <1>5 DEF Next, evidence

\* What never goes back: rows once frozen, files once read-only, and a seal.
LEMMA Forward ==
    ASSUME TypeOK, [Next]_vars
    PROVE  /\ Frozen => Frozen' /\ row'.version = row.version
           /\ files.readOnly => files'.readOnly /\ files'.version = files.version
           /\ seal.state = "sealed" => seal'.state = "sealed" /\ seal'.mark = seal.mark
<1> USE DEF TypeOK
<1>1. ASSUME Frozen PROVE Frozen' /\ row'.version = row.version
  <2>1. CASE UNCHANGED row
    BY <1>1, <2>1 DEF Frozen
  <2>2. ASSUME NEW p \in Processes, MarkWrite(p)
        PROVE  Frozen' /\ row'.version = row.version
    BY <1>1, <2>2 DEF MarkWrite, Frozen
  <2>3. ASSUME NEW p \in Processes, CheckUnchanged(p)
        PROVE  Frozen' /\ row'.version = row.version
    BY <1>1, <2>3 DEF CheckUnchanged, Frozen
  <2>4. ASSUME NEW c \in Collectors, LateRow(c) PROVE UNCHANGED row
    BY <1>1, <2>4 DEF LateRow
  <2> QED
    BY <2>1, <2>2, <2>3, <2>4, Writers
<1>2. ASSUME files.readOnly PROVE files'.readOnly /\ files'.version = files.version
  <2>1. ASSUME NEW p \in Processes, MakeReadOnly(p)
        PROVE  files'.readOnly /\ files'.version = files.version
    BY <2>1 DEF MakeReadOnly
  <2>2. ASSUME NEW c \in Collectors, LateFile(c) PROVE UNCHANGED files
    BY <1>2, <2>2 DEF LateFile
  <2> QED
    BY <1>2, <2>1, <2>2, Writers
<1>3. ASSUME seal.state = "sealed"
      PROVE  seal'.state = "sealed" /\ seal'.mark = seal.mark
  <2>1. CASE Tick
    BY <1>3, <2>1 DEF Tick
  <2>2. ASSUME NEW p \in Processes
        PROVE  ~BeginSeal(p) /\ ~HoldsSeal(p)
    BY <1>3 DEF BeginSeal, Beginnable, HoldsSeal
  <2>3. ASSUME NEW p \in Processes,
               \/ CompleteSeal(p) \/ InvalidateSeal(p) \/ ValidateTree(p)
               \/ RenewForMarker(p) \/ Fingerprint(p)
        PROVE  UNCHANGED seal
    BY <2>2, <2>3 DEF CompleteSeal, InvalidateSeal, ValidateTree, RenewForMarker,
       Fingerprint, Renewed
  <2> QED
    BY <1>3, <2>1, <2>2, <2>3, Writers
<1> QED
  BY <1>1, <1>2, <1>3

\* A marker that is there may be replaced, by the same.
LEMMA MarkerStays ==
    ASSUME SealInv, [Next]_vars, marker # NoMark PROVE marker' = marker
<1>1. ASSUME NEW p \in Processes, ReplaceMarker(p) PROVE marker' = marker
  <2>1. CASE UNCHANGED marker
    BY <2>1
  <2>2. CASE marker' = MarkOf(p)
    <3>1. pc[p] = "replace"
      BY <1>1 DEF ReplaceMarker
    <3>2. marker.digest = my[p].digest /\ marker.rows = my[p].rows
      BY <3>1 DEF SealInv, OneDigest, Past, ProcessInv, ReadKept
    <3>3. marker \in [rows: Versions, digest: Versions]
      BY DEF SealInv, TypeOK, Mark
    <3> QED
      BY <2>2, <3>2, <3>3 DEF MarkOf
  <2> QED
    BY <1>1, <2>1, <2>2 DEF ReplaceMarker
<1> QED
  BY <1>1, Writers

\* A process whose marker is on disk finds it there.
LEMMA MarkIsThere ==
    ASSUME SealInv, NEW p \in Processes, marker = MarkOf(p),
           pc[p] \in {"reread", "before", "readOnly", "complete"}
    PROVE  marker # NoMark
<1>1. my[p].digest \in Versions
  BY DEF SealInv, ProcessInv, ReadKept, Past
<1> QED
  BY <1>1, CollectorsAssumption DEF MarkOf, NoMark, Versions

\* A directory, once made, is there.
LEMMA DirectoryStays ==
    ASSUME SealInv, [Next]_vars, capsule.dir # Unset PROVE capsule'.dir # Unset
<1>1. ASSUME NEW p \in Processes, Publish(p) PROVE capsule'.dir # Unset
  <2>1. capsule'.dir = my[p].rows
    BY <1>1 DEF Publish, SealInv, TypeOK
  <2>2. my[p].rows = row.version
    BY <1>1 DEF Publish, SealInv, ProcessInv, ReadKept, Past, Authority
  <2>3. row.version \in Versions
    BY DEF SealInv, TypeOK
  <2> QED
    BY <2>1, <2>2, <2>3, CollectorsAssumption DEF Versions, Unset
<1>2. ASSUME NEW p \in Processes, BeginBuild(p) PROVE capsule'.dir = capsule.dir
  BY <1>2 DEF BeginBuild, SealInv, TypeOK
<1>3. ASSUME NEW p \in Processes, FinishReady(p) \/ FinishFailed(p)
      PROVE  capsule'.dir = capsule.dir
  BY <1>3 DEF FinishReady, FinishFailed, SealInv, TypeOK
<1> QED
  BY <1>1, <1>2, <1>3, Writers

\* A process that stays where it is keeps what it had.
LEMMA StayingProcess ==
    ASSUME SealInv, [Next]_vars, NEW p \in Processes, pc'[p] = pc[p], my'[p] = my[p]
    PROVE  ProcessInv(p)'
<1>0. TypeOK /\ SealedKept /\ ProcessInv(p)
  BY DEF SealInv
<1>1. JobInPlace(p)'
  BY <1>0, Forward DEF ProcessInv, JobInPlace
<1>2. ReadKept(p)'
  BY <1>0, Forward DEF ProcessInv, ReadKept, Past
<1>3. MarkerKept(p)'
  BY <1>0, Forward, MarkerStays, MarkIsThere DEF ProcessInv, MarkerKept, MarkOf
<1>4. GateBound(p)'
  BY <1>0, Forward DEF ProcessInv, JobInPlace, GateBound, SealedKept, Bound
<1>5. AuthorityKept(p)'
  BY <1>0, Forward, DirectoryStays DEF ProcessInv, JobInPlace, AuthorityKept
<1> QED
  BY <1>1, <1>2, <1>3, <1>4, <1>5 DEF ProcessInv

-----------------------------------------------------------------------------
\* What each step does for the process that takes it.

Moved(p) == ProcsTyped' /\ OthersStay(p) /\ ProcessInv(p)'

\* The types of the state include those of its processes.
LEMMA Typed == ASSUME TypeOK PROVE ProcsTyped
  BY DEF TypeOK, ProcsTyped, Claim

\* A process that leaves has nothing to keep.
LEMMA LeavingProcess ==
    ASSUME SealInv, [Next]_vars, NEW p \in Processes, Leave(p)
    PROVE  Moved(p)
<1>1. ProcsTyped' /\ OthersStay(p) /\ pc'[p] = "idle" /\ my'[p] = NoClaim
  BY Typed, LeaveMoves DEF SealInv
<1> QED
  BY <1>1 DEF Moved, ProcessInv, JobInPlace, ReadKept, Past, MarkerKept, GateBound,
     AuthorityKept, Authority, Gates, Builds, NoClaim

\* Nor has one that gives its job up, but for the job.
LEMMA FailingProcess ==
    ASSUME SealInv, [Next]_vars, NEW p \in Processes, pc[p] # "idle",
           \/ Refused(p) \/ Raise(p)
           \/ \E place \in {"invalidate", "failed", "unclaimed", "reclaim", "giveUp"} :
                 Goto(p, place)
    PROVE  Moved(p)
<1>1. CASE Leave(p)
  BY <1>1, LeavingProcess
<1>2. ASSUME NEW place \in {"invalidate", "failed", "unclaimed", "reclaim", "giveUp"},
             Goto(p, place)
      PROVE  Moved(p)
  <2>1. place \in PC \ {"idle"}
    BY DEF PC
  <2>2. ProcsTyped' /\ OthersStay(p) /\ pc'[p] = place /\ my'[p] = my[p]
    BY <1>2, <2>1, Typed, GotoMoves DEF SealInv
  <2>3. JobInPlace(p)'
    BY <2>2, Forward DEF SealInv, ProcessInv, JobInPlace, Authority
  <2> QED
    BY <2>2, <2>3 DEF Moved, ProcessInv, ReadKept, Past, MarkerKept, GateBound,
       AuthorityKept, Authority
<1> QED
  BY <1>1, <1>2 DEF Refused, Raise

\* One that begins a job has read nothing; a gate is begun on a seal.
LEMMA BeginningProcess ==
    ASSUME SealInv, [Next]_vars, NEW p \in Processes, NEW job \in Jobs, NEW n \in Nat,
           NEW new, new \in {[NoClaim EXCEPT !.job = job],
                             [NoClaim EXCEPT !.job = job, !.fence = n]},
           pc' = [pc EXCEPT ![p] = "facts"], my' = [my EXCEPT ![p] = new],
           job \in Gates => seal'.state = "sealed"
    PROVE  Moved(p)
<1>1. ProcsTyped' /\ OthersStay(p) /\ pc'[p] = "facts" /\ my'[p].job = job
  BY Typed, BeginMoves DEF SealInv
<1>2. job # "none"
  BY DEF Jobs, Builds
<1> QED
  BY <1>1, <1>2 DEF Moved, ProcessInv, JobInPlace, ReadKept, Past, MarkerKept, GateBound,
     AuthorityKept, Authority

\* Elsewhere the process keeps its job, and every part of its invariant is to be
\* shown for the place it comes to.
LEMMA WorkingProcess ==
    ASSUME SealInv, [Next]_vars, NEW p \in Processes, pc[p] # "idle",
           NEW place \in PC \ {"idle"},
           \/ Goto(p, place)
           \/ \E v \in Versions : \/ Keep(p, "file", v, place) \/ Keep(p, "digest", v, place)
                                  \/ Keep(p, "rows", v, place)
           \/ \E n \in Nat : Keep(p, "token", n, place),
           place \in {"gate"} \cup Authority => my[p].job \in Gates,
           ReadKept(p)', MarkerKept(p)', GateBound(p)', AuthorityKept(p)'
    PROVE  Moved(p)
<1>1. my[p].job # "none" /\ ProcsTyped
  BY Typed DEF SealInv, ProcessInv, JobInPlace
<1>2. ProcsTyped' /\ OthersStay(p) /\ pc'[p] = place /\ my'[p].job = my[p].job
  <2>1. CASE Goto(p, place)
    BY <1>1, <2>1, GotoMoves
  <2>2. ASSUME NEW v \in Versions, NEW field \in {"file", "digest", "rows"},
               Keep(p, field, v, place)
        PROVE  ProcsTyped' /\ OthersStay(p) /\ pc'[p] = place /\ my'[p].job = my[p].job
    BY <1>1, <2>2, KeepMoves
  <2>3. ASSUME NEW n \in Nat, Keep(p, "token", n, place)
        PROVE  ProcsTyped' /\ OthersStay(p) /\ pc'[p] = place /\ my'[p].job = my[p].job
    BY <1>1, <2>3, KeepMoves
  <2> QED
    BY <2>1, <2>2, <2>3
<1>3. JobInPlace(p)'
  BY <1>1, <1>2, Forward DEF SealInv, ProcessInv, JobInPlace
<1> QED
  BY <1>2, <1>3 DEF Moved, ProcessInv

\* The process that seals.
LEMMA SealingProcess ==
    ASSUME SealInv, [Next]_vars, NEW p \in Processes, Seal(p)
    PROVE  Moved(p)
<1> DEFINE Keeps == ReadKept(p)' /\ MarkerKept(p)' /\ GateBound(p)' /\ AuthorityKept(p)'
<1>0. /\ TypeOK /\ ProcsTyped /\ SealedKept
      /\ ProcessInv(p) /\ my[p] \in Claim
      /\ row.version \in Versions /\ files.version \in Versions
  BY Typed DEF SealInv, TypeOK, ProcsTyped
<1>f. /\ Frozen => Frozen' /\ row'.version = row.version
      /\ files.readOnly => files'.readOnly /\ files'.version = files.version
      /\ seal.state = "sealed" => seal'.state = "sealed" /\ seal'.mark = seal.mark
  BY <1>0, Forward
<1>j. pc[p] # "idle" => my[p].job \in Jobs
  BY <1>0 DEF ProcessInv, JobInPlace, Claim
<1>1. CASE BeginSeal(p)
  <2>1. seal'.fence \in Nat /\ "seal" \in Jobs /\ "seal" \notin Gates
    BY <1>0, <1>1 DEF BeginSeal, TypeOK, Jobs, Gates, Builds
  <2> QED
    BY <1>1, <2>1, BeginningProcess DEF BeginSeal
<1>2. CASE BeginGate(p, "gate")
  <2>1. "gate" \in Jobs /\ seal'.state = "sealed"
    BY <1>f, <1>2 DEF BeginGate, Jobs
  <2> QED
    BY <1>2, <2>1, BeginningProcess DEF BeginGate
<1>3. CASE VerifyFacts(p)
  <2>1. CASE Bound
    <3>1. Goto(p, "prints") /\ pc[p] = "facts" /\ UNCHANGED <<row, files>>
      BY <1>3, <2>1 DEF VerifyFacts, evidence
    <3>2. pc'[p] = "prints"
      BY <1>0, <3>1 DEF Goto, ProcsTyped
    <3>3. Keeps
      BY <2>1, <3>1, <3>2 DEF ReadKept, Past, MarkerKept, GateBound, AuthorityKept,
         Authority, Bound
    <3> QED
      BY <3>1, <3>3, WorkingProcess DEF PC, Authority
  <2>2. CASE ~Bound
    BY <1>3, <2>2, FailingProcess DEF VerifyFacts
  <2> QED
    BY <2>1, <2>2
<1>4. CASE TakeFingerprints(p)
  <2>1. /\ Keep(p, "file", files.version, "markRead") /\ pc[p] = "prints"
        /\ UNCHANGED <<row, files>>
    BY <1>4 DEF TakeFingerprints, evidence
  <2>2. pc'[p] = "markRead" /\ my'[p].job = my[p].job
    BY <1>0, <1>j, <2>1, KeepMoves DEF PC, Jobs, Builds
  <2>3. Keeps
    BY <1>0, <2>1, <2>2 DEF ProcessInv, ReadKept, Past, MarkerKept, GateBound,
       AuthorityKept, Authority, Bound
  <2> QED
    BY <1>0, <2>1, <2>3, WorkingProcess DEF PC, Authority
<1>5. CASE MarkRead(p)
  <2>1. CASE row.invalidated \/ row.digest \notin {Unset, row.version}
    BY <1>5, <2>1, FailingProcess DEF MarkRead
  <2>2. CASE ~(row.invalidated \/ row.digest \notin {Unset, row.version})
    <3>1. /\ Keep(p, "digest", row.version, "markWrite") /\ pc[p] = "markRead"
          /\ UNCHANGED <<row, files>>
      BY <1>5, <2>2 DEF MarkRead, evidence
    <3>2. /\ pc'[p] = "markWrite" /\ my'[p].job = my[p].job
          /\ my'[p].digest = row.version
      BY <1>0, <1>j, <3>1, KeepMoves DEF PC, Jobs, Builds
    <3>3. Keeps
      BY <1>0, <3>1, <3>2 DEF ProcessInv, ReadKept, Past, MarkerKept, GateBound,
         AuthorityKept, Authority, Bound
    <3> QED
      BY <1>0, <3>1, <3>3, WorkingProcess DEF PC, Authority
  <2> QED
    BY <2>1, <2>2
<1>6. CASE MarkWrite(p)
  <2>1. CASE row.invalidated \/ row.digest \notin {Unset, my[p].digest}
    BY <1>6, <2>1, FailingProcess DEF MarkWrite
  <2>2. CASE ~(row.invalidated \/ row.digest \notin {Unset, my[p].digest})
    <3>1. /\ Goto(p, "unchanged") /\ pc[p] = "markWrite" /\ files' = files
          /\ row'.checked /\ row'.version = row.version
      BY <1>0, <1>6, <2>2 DEF MarkWrite, TypeOK
    <3>2. pc'[p] = "unchanged" /\ my' = my
      BY <1>0, <3>1 DEF Goto, ProcsTyped
    <3>3. Keeps
      BY <1>0, <3>1, <3>2 DEF ProcessInv, ReadKept, Past, MarkerKept, GateBound,
         AuthorityKept, Authority, Bound, Frozen
    <3> QED
      BY <3>1, <3>3, WorkingProcess DEF PC, Authority
  <2> QED
    BY <2>1, <2>2
<1>7. CASE CheckUnchanged(p)
  <2>1. CASE files.version = my[p].file
    <3>1. /\ Goto(p, IF my[p].job = "seal" THEN "tree" ELSE "gate")
          /\ pc[p] = "unchanged" /\ UNCHANGED <<row, files>>
      BY <1>7, <2>1 DEF CheckUnchanged
    <3>2. my' = my /\ pc'[p] = IF my[p].job = "seal" THEN "tree" ELSE "gate"
      BY <1>0, <3>1 DEF Goto, ProcsTyped
    <3>3. Keeps
      BY <1>0, <1>f, <3>1, <3>2 DEF ProcessInv, ReadKept, Past, MarkerKept, GateBound,
         AuthorityKept, Authority, Bound
    <3>4. my[p].job # "seal" => my[p].job \in Gates
      BY <1>j, <3>1 DEF Jobs, Gates
    <3> QED
      BY <3>1, <3>3, <3>4, WorkingProcess DEF PC, Authority
  <2>2. CASE files.version # my[p].file
    BY <1>7, <2>2, FailingProcess DEF CheckUnchanged
  <2> QED
    BY <2>1, <2>2
<1>8. CASE ValidateTree(p)
  <2>1. CASE Leave(p)
    BY <2>1, LeavingProcess
  <2>2. CASE Refused(p)
    BY <1>8, <2>2, FailingProcess DEF ValidateTree
  <2>3. CASE Keep(p, "rows", row.version, "marker")
    <3>1. pc[p] = "tree" /\ row' = row
      BY <1>8 DEF ValidateTree
    <3>2. /\ pc'[p] = "marker" /\ my'[p].job = my[p].job
          /\ my'[p].digest = my[p].digest /\ my'[p].rows = row.version
      BY <1>0, <1>j, <2>3, <3>1, KeepMoves DEF PC, Jobs, Builds
    <3>3. Keeps
      BY <1>0, <1>f, <3>1, <3>2 DEF ProcessInv, ReadKept, Past, MarkerKept, GateBound,
         AuthorityKept, Authority
    <3> QED
      BY <1>0, <2>3, <3>1, <3>3, WorkingProcess DEF PC, Authority
  <2> QED
    BY <1>8, <2>1, <2>2, <2>3 DEF ValidateTree
<1>9. CASE RenewForMarker(p) \/ ReadMarker(p) \/ ReplaceMarker(p) \/ RereadMarker(p)
  <2>0. pc[p] \in {"marker", "look", "replace", "reread"} /\ row' = row
    BY <1>9 DEF RenewForMarker, ReadMarker, ReplaceMarker, RereadMarker, evidence
  <2>1. CASE Leave(p)
    BY <2>1, LeavingProcess
  <2>2. CASE Refused(p)
    BY <2>0, <2>2, FailingProcess
  <2>3. ASSUME NEW place \in {"look", "replace", "reread", "before"}, Goto(p, place),
               place \in {"reread", "before"} => marker' = MarkOf(p)
        PROVE  Moved(p)
    <3>1. pc'[p] = place /\ my' = my
      BY <1>0, <2>0, <2>3 DEF Goto, ProcsTyped
    <3>2. Keeps
      BY <1>0, <1>f, <2>0, <2>3, <3>1 DEF ProcessInv, ReadKept, MarkerKept, GateBound,
         AuthorityKept, Authority, Past, MarkOf
    <3> QED
      BY <2>0, <2>3, <3>2, WorkingProcess DEF PC, Authority
  <2> QED
    BY <1>9, <2>1, <2>2, <2>3
       DEF RenewForMarker, ReadMarker, ReplaceMarker, RereadMarker, evidence
<1>10. CASE Fingerprint(p)
  <2>1. CASE Leave(p)
    BY <2>1, LeavingProcess
  <2>2. CASE Renewed(p) /\ Keep(p, "file", files.version, "readOnly")
    <3>1. /\ pc[p] = "before" /\ UNCHANGED <<row, marker>> /\ seal'.owner = seal.owner
      BY <1>0, <1>10, <2>2 DEF Fingerprint, Renewed, TypeOK
    <3>2. /\ pc'[p] = "readOnly" /\ my'[p].job = my[p].job
          /\ my'[p].digest = my[p].digest /\ my'[p].rows = my[p].rows
      BY <1>0, <1>j, <2>2, <3>1, KeepMoves DEF PC, Jobs, Builds
    <3>3. Keeps
      BY <1>0, <1>f, <3>1, <3>2 DEF ProcessInv, ReadKept, Past, MarkerKept, GateBound,
         AuthorityKept, Authority, MarkOf
    <3> QED
      BY <1>0, <2>2, <3>1, <3>3, WorkingProcess DEF PC, Authority
  <2> QED
    BY <1>10, <2>1, <2>2 DEF Fingerprint
<1>11. CASE MakeReadOnly(p)
  <2>1. CASE files.version = my[p].file
    <3>1. /\ Goto(p, "complete") /\ pc[p] = "readOnly" /\ UNCHANGED <<seal, row, marker>>
          /\ files'.readOnly
      BY <1>0, <1>11, <2>1 DEF MakeReadOnly, TypeOK
    <3>2. pc'[p] = "complete" /\ my' = my
      BY <1>0, <3>1 DEF Goto, ProcsTyped
    <3>3. Keeps
      BY <1>0, <1>f, <3>1, <3>2 DEF ProcessInv, ReadKept, Past, MarkerKept, GateBound,
         AuthorityKept, Authority, MarkOf
    <3> QED
      BY <3>1, <3>3, WorkingProcess DEF PC, Authority
  <2>2. CASE files.version # my[p].file
    BY <1>11, <2>2, FailingProcess DEF MakeReadOnly
  <2> QED
    BY <2>1, <2>2
<1>12. CASE CompleteSeal(p)
  <2>1. CASE Leave(p)
    BY <2>1, LeavingProcess
  <2>2. CASE ~Leave(p)
    <3>1. /\ EndSeal("sealed", MarkOf(p)) /\ pc' = [pc EXCEPT ![p] = "facts"]
          /\ my' = [my EXCEPT ![p] = [NoClaim EXCEPT !.job = "gate"]]
      BY <1>12, <2>2 DEF CompleteSeal
    <3>2. seal'.state = "sealed" /\ "gate" \in Jobs
      BY <1>0, <3>1 DEF EndSeal, TypeOK, Jobs
    <3> QED
      BY <3>1, <3>2, BeginningProcess
  <2> QED
    BY <2>1, <2>2
<1>13. CASE InvalidateSeal(p) \/ UseReceipt(p)
  BY <1>13, LeavingProcess DEF InvalidateSeal, UseReceipt
<1>14. CASE PassGate(p)
  <2>1. CASE Refused(p)
    BY <1>14, <2>1, FailingProcess DEF PassGate
  <2>2. CASE ~Refused(p)
    <3> DEFINE place == IF my[p].job \in Builds THEN "begin" ELSE "receipt"
    <3>1. /\ Keep(p, "rows", row.version, place) /\ pc[p] = "gate"
          /\ UNCHANGED <<row, files, seal>>
          /\ seal.mark = [rows |-> row.version, digest |-> my[p].digest]
      BY <1>14, <2>2 DEF PassGate, evidence
    <3>2. /\ pc'[p] = place /\ my'[p].job = my[p].job
          /\ my'[p].digest = my[p].digest /\ my'[p].rows = row.version
      BY <1>0, <1>j, <3>1, KeepMoves DEF PC, Jobs, Builds
    <3>3. Keeps
      BY <1>0, <1>f, <3>1, <3>2 DEF ProcessInv, JobInPlace, ReadKept, Past, MarkerKept,
         GateBound, AuthorityKept, Authority, Bound
    <3>4. my[p].job \in Gates
      BY <1>0, <3>1 DEF ProcessInv, JobInPlace
    <3> QED
      BY <1>0, <3>1, <3>3, <3>4, WorkingProcess DEF PC, Authority
  <2> QED
    BY <2>1, <2>2
<1> QED
  BY <1>1, <1>2, <1>3, <1>4, <1>5, <1>6, <1>7, <1>8, <1>9, <1>10, <1>11, <1>12, <1>13,
     <1>14 DEF Seal

\* The process that builds the Capsule.
LEMMA BuildingProcess ==
    ASSUME SealInv, [Next]_vars, NEW p \in Processes, Build(p)
    PROVE  Moved(p)
<1> DEFINE Keeps == ReadKept(p)' /\ MarkerKept(p)' /\ GateBound(p)' /\ AuthorityKept(p)'
<1>0. /\ TypeOK /\ ProcsTyped /\ SealedKept
      /\ ProcessInv(p) /\ my[p] \in Claim
      /\ row.version \in Versions /\ -1 \notin Versions
  BY Typed, CollectorsAssumption DEF SealInv, TypeOK, ProcsTyped, Versions
<1>f. \A job \in Gates : seal.state = "sealed" => seal'.state = "sealed"
  BY <1>0, Forward
<1>a. ASSUME pc[p] \in Authority \ {"receipt"}, NEW place \in {"lock", "copy", "publish"},
             UNCHANGED <<seal, row, files>>, pc'[p] = place, my'[p].job = my[p].job,
             my'[p].digest = my[p].digest, my'[p].rows = my[p].rows
      PROVE  Keeps
  BY <1>0, <1>a DEF ProcessInv, JobInPlace, ReadKept, Past, MarkerKept, GateBound,
     AuthorityKept, Authority, Bound, Frozen
<1>b. ASSUME pc[p] \in Authority \ {"receipt"}, NEW place \in {"assert", "ready"},
             UNCHANGED <<seal, row, files>>, pc'[p] = place, my' = my,
             capsule'.dir # Unset
      PROVE  Keeps
  BY <1>0, <1>b DEF ProcessInv, JobInPlace, ReadKept, Past, MarkerKept, GateBound,
     AuthorityKept, Authority, Bound, Frozen
<1>g. pc[p] \in Authority \ {"receipt"} =>
         my[p].job \in Gates /\ pc[p] # "idle" /\ my[p].rows \in Versions
  BY <1>0 DEF ProcessInv, JobInPlace, ReadKept, Past, Authority
<1>1. ASSUME NEW job \in Builds, BeginGate(p, job) PROVE Moved(p)
  <2>1. job \in Jobs /\ seal'.state = "sealed" /\ 0 \in Nat
    BY <1>1 DEF BeginGate, Jobs, evidence
  <2> QED
    BY <1>1, <2>1, BeginningProcess DEF BeginGate
<1>2. CASE BeginBuild(p)
  <2>0. pc[p] # "idle" /\ my[p].job \in Jobs
    BY <1>0, <1>2 DEF BeginBuild, ProcessInv, JobInPlace, Claim
  <2> DEFINE state == IF capsule.state = "ready" THEN capsule.state ELSE "running"
             key == KeyOf(my[p].job)
  <2>f. ASSUME capsule.key \in {NoKey, KeyOf(my[p].job)} PROVE capsule'.fence \in Nat
    <3>1. capsule' = [capsule EXCEPT !.fence = capsule.fence + 1, !.key = key, !.state = state]
      BY <1>2, <2>f DEF BeginBuild
    <3>2. /\ capsule \in [state: {"pending", "running", "ready", "failed"},
                          key: {NoKey, MessageKey, RequestKey}, fence: Nat,
                          dir: Versions \cup {Unset}]
          /\ capsule.fence \in Nat
      BY <1>0 DEF TypeOK
    <3> HIDE DEF state, key
    <3>3. capsule'.fence = capsule.fence + 1
      BY <3>1, <3>2
    <3> QED
      BY <3>2, <3>3
  <2>1. CASE capsule.key \in {NoKey, KeyOf(my[p].job)} /\ pc[p] = "begin"
    <3>1. /\ Keep(p, "token", capsule'.fence, "lock") /\ UNCHANGED <<seal, row, files>>
          /\ capsule'.fence \in Nat
      BY <1>2, <2>f, <2>1 DEF BeginBuild, evidence
    <3>2. /\ pc'[p] = "lock" /\ my'[p].job = my[p].job
          /\ my'[p].digest = my[p].digest /\ my'[p].rows = my[p].rows
      BY <1>0, <2>0, <3>1, KeepMoves DEF PC, Jobs, Builds
    <3>3. Keeps
      BY <1>a, <2>1, <3>1, <3>2 DEF Authority
    <3> QED
      BY <1>g, <2>0, <2>1, <3>1, <3>3, WorkingProcess DEF PC, Authority
  <2>2. CASE capsule.key \in {NoKey, KeyOf(my[p].job)} /\ pc[p] # "begin"
    <3>1. /\ Keep(p, "token", capsule'.fence, "giveUp") /\ capsule'.fence \in Nat
      BY <1>2, <2>f, <2>2 DEF BeginBuild
    <3>2. pc'[p] = "giveUp"
      BY <1>0, <2>0, <3>1, KeepMoves DEF PC, Jobs, Builds
    <3>3. Keeps
      BY <3>2 DEF ReadKept, Past, MarkerKept, GateBound, AuthorityKept, Authority
    <3> QED
      BY <2>0, <3>1, <3>3, WorkingProcess DEF PC, Authority
  <2>3. CASE capsule.key \notin {NoKey, KeyOf(my[p].job)}
    BY <1>2, <2>0, <2>3, FailingProcess, LeavingProcess DEF BeginBuild
  <2> QED
    BY <2>1, <2>2, <2>3
<1>3. CASE LockBuild(p)
  <2>0. pc[p] = "lock" /\ UNCHANGED <<seal, row, files, capsule>>
    BY <1>3 DEF LockBuild, evidence
  <2>1. CASE Goto(p, "copy")
    <3>1. pc'[p] = "copy" /\ my' = my
      BY <1>0, <2>0, <2>1 DEF Goto, ProcsTyped
    <3> QED
      BY <1>a, <1>g, <2>0, <2>1, <3>1, WorkingProcess DEF PC, Authority
  <2>2. CASE Goto(p, "assert") /\ files.version = my[p].rows /\ capsule.dir = files.version
    <3>1. pc'[p] = "assert" /\ my' = my /\ capsule'.dir # Unset
      BY <1>0, <1>g, <2>0, <2>2 DEF Goto, ProcsTyped, Authority, Unset
    <3> QED
      BY <1>b, <1>g, <2>0, <2>2, <3>1, WorkingProcess DEF PC, Authority
  <2>3. CASE Goto(p, "failed")
    BY <2>0, <2>3, FailingProcess
  <2> QED
    BY <1>3, <2>1, <2>2, <2>3 DEF LockBuild
<1>4. CASE CopyFiles(p)
  <2>0. pc[p] = "copy" /\ UNCHANGED <<seal, row, files, capsule>>
    BY <1>4 DEF CopyFiles, evidence
  <2>1. CASE Goto(p, "publish")
    <3>1. pc'[p] = "publish" /\ my' = my
      BY <1>0, <2>0, <2>1 DEF Goto, ProcsTyped
    <3> QED
      BY <1>a, <1>g, <2>0, <2>1, <3>1, WorkingProcess DEF PC, Authority
  <2>2. CASE Goto(p, "failed")
    BY <2>0, <2>2, FailingProcess
  <2> QED
    BY <1>4, <2>1, <2>2 DEF CopyFiles
<1>5. CASE Publish(p)
  <2>0. /\ pc[p] = "publish" /\ UNCHANGED <<seal, row, files>> /\ Goto(p, "assert")
        /\ capsule'.dir = my[p].rows
    BY <1>0, <1>5 DEF Publish, evidence, TypeOK
  <2>1. pc'[p] = "assert" /\ my' = my /\ capsule'.dir # Unset
    BY <1>0, <1>g, <2>0 DEF Goto, ProcsTyped, Authority, Unset
  <2> QED
    BY <1>b, <1>g, <2>0, <2>1, WorkingProcess DEF PC, Authority
<1>6. CASE AssertClaim(p)
  <2>0. pc[p] = "assert" /\ UNCHANGED <<seal, row, files, capsule>>
    BY <1>6 DEF AssertClaim, evidence
  <2>1. CASE Goto(p, "ready")
    <3>1. pc'[p] = "ready" /\ my' = my /\ capsule'.dir # Unset
      BY <1>0, <2>0, <2>1 DEF Goto, ProcsTyped, ProcessInv, AuthorityKept
    <3> QED
      BY <1>b, <1>g, <2>0, <2>1, <3>1, WorkingProcess DEF PC, Authority
  <2>2. CASE Goto(p, "failed")
    BY <2>0, <2>2, FailingProcess
  <2> QED
    BY <1>6, <2>1, <2>2 DEF AssertClaim
<1>7. CASE FinishReady(p) \/ FinishFailed(p) \/ FinishUnclaimed(p)
  BY <1>7, FailingProcess, LeavingProcess DEF FinishReady, FinishFailed, FinishUnclaimed
<1> QED
  BY <1>1, <1>2, <1>3, <1>4, <1>5, <1>6, <1>7 DEF Build

\* Every process keeps its invariant, and stays well typed.
LEMMA ProcessesInductive ==
    ASSUME SealInv, [Next]_vars
    PROVE  ProcsTyped' /\ \A p \in Processes : ProcessInv(p)'
<1>1. ASSUME NEW p \in Processes, Moved(p)
      PROVE  ProcsTyped' /\ \A q \in Processes : ProcessInv(q)'
  BY <1>1, StayingProcess DEF Moved, OthersStay
<1>2. ASSUME NEW p \in Processes, Seal(p) \/ Build(p) PROVE Moved(p)
  BY <1>2, SealingProcess, BuildingProcess
<1>3. ASSUME NEW p \in Processes, Crash(p) PROVE Moved(p)
  BY <1>3, LeavingProcess DEF Crash
<1>4. CASE UNCHANGED procs
  <2>1. pc' = pc /\ my' = my
    BY <1>4 DEF procs
  <2>2. ProcsTyped'
    BY <2>1, Typed DEF SealInv, ProcsTyped
  <2> QED
    BY <2>1, <2>2, StayingProcess
<1> QED
  BY <1>1, <1>2, <1>3, <1>4 DEF Next, vars, procs, LateFile, LateCheck, LateRow, Tick

-----------------------------------------------------------------------------
\* The one digest.

\* A process is past marking because it was, or because it marks the rows now.
LEMMA PastMoves ==
    ASSUME SealInv, [Next]_vars, NEW p \in Processes, pc'[p] \in Past, ~MarkWrite(p)
    PROVE  pc[p] \in Past /\ my'[p].digest = my[p].digest
<1>0. ProcsTyped /\ row.version \in Versions /\ files.version \in Versions
  BY Typed DEF SealInv, TypeOK
<1>j. pc[p] # "idle" => my[p].job # "none"
  BY DEF SealInv, ProcessInv, JobInPlace
<1>1. ASSUME NEW q \in Processes, Moved(q), q # p PROVE pc'[p] = pc[p] /\ my'[p] = my[p]
  BY <1>1 DEF Moved, OthersStay
<1>2. CASE Leave(p)
  BY <1>0, <1>2, LeaveMoves DEF Past, Authority
<1>3. ASSUME NEW place, Goto(p, place), place \in Past => pc[p] \in Past
      PROVE  pc[p] \in Past /\ my'[p].digest = my[p].digest
  BY <1>0, <1>3 DEF Goto, ProcsTyped
<1>4. ASSUME NEW field \in {"file", "rows", "digest"}, NEW v \in Versions,
             NEW place \in PC \ {"idle"}, Keep(p, field, v, place), pc[p] # "idle",
             place \in Past => pc[p] \in Past /\ field # "digest"
      PROVE  pc[p] \in Past /\ my'[p].digest = my[p].digest
  BY <1>0, <1>j, <1>4, KeepMoves
<1>5. CASE Refused(p) \/ Raise(p)
  BY <1>2, <1>3, <1>5 DEF Refused, Raise, Past, Authority
<1>6. CASE Seal(p)
  <2>1. CASE BeginSeal(p) \/ BeginGate(p, "gate")
    BY <1>0, <2>1 DEF BeginSeal, BeginGate, ProcsTyped, Past, Authority
  <2>2. CASE VerifyFacts(p) \/ CheckUnchanged(p) \/ RenewForMarker(p) \/ ReadMarker(p)
             \/ ReplaceMarker(p) \/ RereadMarker(p) \/ MakeReadOnly(p)
    BY <1>2, <1>3, <1>5, <2>2 DEF VerifyFacts, CheckUnchanged, RenewForMarker, ReadMarker,
       ReplaceMarker, RereadMarker, MakeReadOnly, Past, Authority
  <2>3. CASE TakeFingerprints(p)
    BY <1>0, <1>4, <2>3 DEF TakeFingerprints, PC, Past, Authority
  <2>4. CASE MarkRead(p)
    BY <1>0, <1>4, <1>5, <2>4 DEF MarkRead, PC, Past, Authority
  <2>5. CASE ValidateTree(p)
    BY <1>0, <1>2, <1>4, <1>5, <2>5 DEF ValidateTree, PC, Past
  <2>6. CASE Fingerprint(p)
    BY <1>0, <1>2, <1>4, <2>6 DEF Fingerprint, PC, Past
  <2>7. CASE PassGate(p)
    BY <1>0, <1>4, <1>5, <2>7 DEF PassGate, PC, Past
  <2>8. CASE CompleteSeal(p)
    BY <1>0, <1>2, <2>8 DEF CompleteSeal, ProcsTyped, Past, Authority
  <2>9. CASE InvalidateSeal(p) \/ UseReceipt(p)
    BY <1>2, <2>9 DEF InvalidateSeal, UseReceipt
  <2> QED
    BY <1>6, <2>1, <2>2, <2>3, <2>4, <2>5, <2>6, <2>7, <2>8, <2>9 DEF Seal
<1>7. CASE Build(p)
  <2>1. ASSUME NEW job \in Builds, BeginGate(p, job) PROVE FALSE
    BY <1>0, <2>1 DEF BeginGate, ProcsTyped, Past, Authority
  <2>2. CASE BeginBuild(p)
    <3>1. ASSUME capsule.key \in {NoKey, KeyOf(my[p].job)} PROVE capsule'.fence \in Nat
      <4>1. capsule \in [state: {"pending", "running", "ready", "failed"},
                         key: {NoKey, MessageKey, RequestKey}, fence: Nat,
                         dir: Versions \cup {Unset}]
        BY DEF SealInv, TypeOK
      <4>2. capsule'.fence = capsule.fence + 1
        BY <2>2, <3>1, <4>1 DEF BeginBuild
      <4> QED
        BY <4>1, <4>2
    <3>2. CASE capsule.key \in {NoKey, KeyOf(my[p].job)}
      <4> DEFINE place == IF pc[p] = "begin" THEN "lock" ELSE "giveUp"
      <4>1. Keep(p, "token", capsule'.fence, place) /\ pc[p] \in {"begin", "reclaim"}
        BY <2>2, <3>2 DEF BeginBuild
      <4>2. pc'[p] = place /\ my'[p].digest = my[p].digest
        BY <1>0, <1>j, <3>1, <3>2, <4>1, KeepMoves DEF PC
      <4> QED
        BY <4>1, <4>2 DEF Past, Authority
    <3>3. CASE capsule.key \notin {NoKey, KeyOf(my[p].job)}
      BY <1>2, <1>3, <2>2, <3>3 DEF BeginBuild, Past, Authority
    <3> QED
      BY <3>2, <3>3
  <2>3. CASE LockBuild(p) \/ CopyFiles(p) \/ Publish(p) \/ AssertClaim(p)
             \/ FinishReady(p) \/ FinishFailed(p) \/ FinishUnclaimed(p)
    BY <1>2, <1>3, <2>3 DEF LockBuild, CopyFiles, Publish, AssertClaim, FinishReady,
       FinishFailed, FinishUnclaimed, Past, Authority
  <2> QED
    BY <1>7, <2>1, <2>2, <2>3 DEF Build
<1>8. ASSUME NEW q \in Processes, q # p, Seal(q) \/ Build(q) \/ Crash(q)
      PROVE  pc'[p] = pc[p] /\ my'[p] = my[p]
  BY <1>1, <1>8, SealingProcess, BuildingProcess, LeavingProcess DEF Crash
<1>9. CASE UNCHANGED procs
  BY <1>9 DEF procs
<1> QED
  BY <1>2, <1>6, <1>7, <1>8, <1>9
     DEF Next, vars, procs, Crash, LateFile, LateCheck, LateRow, Tick

\* All digests in use stay one.
LEMMA DigestInductive ==
    ASSUME SealInv, [Next]_vars PROVE OneDigest'
<1>0. /\ TypeOK /\ OneDigest /\ -1 \notin Versions
      /\ \A p \in Processes : ProcessInv(p)
  BY CollectorsAssumption DEF SealInv, Versions
<1>f. Frozen => Frozen' /\ row'.version = row.version
  BY <1>0, Forward
<1>1. ASSUME UNCHANGED <<row, marker>>,
             \A p \in Processes : pc'[p] \in Past =>
                pc[p] \in Past /\ my'[p].digest = my[p].digest
      PROVE  OneDigest'
  BY <1>0, <1>1 DEF OneDigest, Frozen
<1>2. ASSUME NEW w \in Processes, MarkWrite(w) PROVE OneDigest'
  <2>0. /\ pc[w] = "markWrite" /\ marker' = marker
        /\ my[w].digest \in Versions /\ Unset \notin Versions
    BY <1>0, <1>2 DEF MarkWrite, ProcessInv, ReadKept, Unset
  <2>1. CASE row.invalidated \/ row.digest \notin {Unset, my[w].digest}
    <3>1. row' = row /\ Raise(w)
      BY <1>2, <2>1 DEF MarkWrite
    <3>2. /\ pc'[w] \notin Past
          /\ \A p \in Processes : p # w => pc'[p] = pc[p] /\ my'[p] = my[p]
      BY <1>0, <3>1 DEF TypeOK, Raise, Goto, Leave, Past, Authority
    <3> QED
      BY <1>1, <2>0, <3>1, <3>2
  <2>2. CASE ~(row.invalidated \/ row.digest \notin {Unset, my[w].digest})
    <3>1. /\ row' = [row EXCEPT !.checked = TRUE, !.digest = my[w].digest]
          /\ my' = my /\ \A p \in Processes : p # w => pc'[p] = pc[p]
      BY <1>0, <1>2, <2>2 DEF MarkWrite, Goto, TypeOK
    <3>2. /\ row'.digest = my[w].digest /\ row'.version = row.version
          /\ ~row.invalidated /\ Frozen'
      BY <1>0, <2>2, <3>1 DEF TypeOK, Frozen
    <3>3. \A p \in Processes : pc'[p] \in Past => my[p].digest = my[w].digest
      <4>1. ASSUME NEW p \in Processes, p # w, pc[p] \in Past
            PROVE  my[p].digest = my[w].digest
        BY <1>0, <2>0, <2>2, <4>1 DEF OneDigest, ProcessInv, ReadKept
      <4> QED
        BY <3>1, <4>1
    <3>4. marker # NoMark => marker.digest = my[w].digest
      BY <1>0, <2>0, <2>2 DEF OneDigest, TypeOK, Mark
    <3> QED
      BY <1>0, <2>0, <3>1, <3>2, <3>3, <3>4 DEF OneDigest
  <2> QED
    BY <2>1, <2>2
<1>3. ASSUME \A p \in Processes : ~MarkWrite(p)
      PROVE  \A p \in Processes : pc'[p] \in Past =>
                pc[p] \in Past /\ my'[p].digest = my[p].digest
  BY <1>3, PastMoves
<1>4. ASSUME NEW w \in Processes, ReplaceMarker(w) PROVE OneDigest'
  <2>1. /\ pc[w] = "replace" /\ row' = row
        /\ marker' = marker \/ marker' = MarkOf(w)
    BY <1>4 DEF ReplaceMarker
  <2>2. \A p \in Processes : ~MarkWrite(p)
    <3>1. ASSUME NEW p \in Processes, MarkWrite(p) PROVE FALSE
      <4>1. pc[p] = "markWrite" /\ pc'[w] # pc[w]
        BY <1>0, <1>4, <3>1 DEF MarkWrite, ReplaceMarker, Goto, Refused, Raise,
           Leave, TypeOK
      <4> QED
        BY <1>0, <2>1, <3>1, <4>1 DEF MarkWrite, Goto, Raise, Leave, TypeOK
    <3> QED
      BY <3>1
  <2>3. CASE marker' = marker
    BY <1>1, <1>3, <2>1, <2>2, <2>3
  <2>4. CASE marker' = MarkOf(w)
    <3>1. /\ Frozen /\ my[w].rows = row.version /\ pc[w] \in Past
      BY <1>0, <2>1 DEF ProcessInv, ReadKept, Past
    <3> QED
      BY <1>0, <1>3, <2>1, <2>2, <2>4, <3>1 DEF OneDigest, MarkOf, Frozen
  <2> QED
    BY <2>1, <2>3, <2>4
<1>5. ASSUME NEW w \in Processes, CheckUnchanged(w), ~UNCHANGED row PROVE OneDigest'
  <2>1. /\ row' = [row EXCEPT !.checked = FALSE, !.digest = Unset, !.invalidated = TRUE]
        /\ pc[w] = "unchanged" /\ marker' = marker
    BY <1>5 DEF CheckUnchanged
  <2>2. row'.invalidated /\ row'.version = row.version
    BY <1>0, <2>1 DEF TypeOK
  <2>3. ASSUME NEW p \in Processes, MarkWrite(p) PROVE FALSE
    <3>1. ~row.invalidated /\ row' = [row EXCEPT !.checked = TRUE, !.digest = my[p].digest]
      BY <1>5, <2>3 DEF MarkWrite
    <3> QED
      BY <1>0, <2>2, <3>1 DEF TypeOK
  <2> QED
    BY <1>0, <1>3, <2>1, <2>2, <2>3 DEF OneDigest, Frozen
<1>6. ASSUME NEW c \in Collectors, LateRow(c), ~UNCHANGED row PROVE OneDigest'
  <2>1. ~Frozen /\ pc' = pc /\ my' = my /\ marker' = marker
    BY <1>6 DEF LateRow, procs
  <2> QED
    BY <1>0, <2>1 DEF OneDigest, ProcessInv, ReadKept
<1> QED
  BY <1>1, <1>2, <1>3, <1>4, <1>5, <1>6, Writers

-----------------------------------------------------------------------------
\* The seal, the files and the Capsule.

\* What is sealed is what the marker says, and can no longer change.
LEMMA SealedInductive ==
    ASSUME SealInv, [Next]_vars PROVE SealedKept'
<1>0. TypeOK /\ SealedKept
  BY DEF SealInv
<1>1. CASE seal.state = "sealed"
  <2>1. marker # NoMark
    BY <1>0, <1>1, CollectorsAssumption DEF SealedKept, TypeOK, NoMark, Versions
  <2> QED
    BY <1>0, <1>1, <2>1, Forward, MarkerStays DEF SealedKept
<1>2. ASSUME NEW p \in Processes, CompleteSeal(p), seal'.state = "sealed",
             seal.state # "sealed"
      PROVE  SealedKept'
  <2>1. /\ HoldsSeal(p) /\ EndSeal("sealed", MarkOf(p)) /\ pc[p] = "complete"
        /\ UNCHANGED <<row, files, marker>>
    BY <1>2 DEF CompleteSeal
  <2>2. seal'.mark = MarkOf(p)
    BY <1>0, <2>1 DEF EndSeal, TypeOK
  <2>3. /\ marker = MarkOf(p) /\ files.readOnly /\ Frozen /\ my[p].rows = row.version
    BY <2>1 DEF SealInv, ProcessInv, ReadKept, Past, MarkerKept, HoldsSeal
  <2> QED
    BY <2>1, <2>2, <2>3 DEF SealedKept, MarkOf, Frozen
<1>3. ASSUME NEW p \in Processes,
             \/ BeginSeal(p) \/ InvalidateSeal(p) \/ ValidateTree(p)
             \/ RenewForMarker(p) \/ Fingerprint(p),
             seal.state # "sealed"
      PROVE  seal'.state # "sealed"
  BY <1>0, <1>3 DEF BeginSeal, InvalidateSeal, EndSeal, ValidateTree, RenewForMarker,
     Fingerprint, Renewed, TypeOK
<1>4. CASE Tick
  BY <1>0, <1>4 DEF Tick, TypeOK, SealedKept, Frozen
<1> QED
  BY <1>1, <1>2, <1>3, <1>4, Writers DEF SealedKept

\* A directory is of what is sealed, and a Capsule ready with one.
LEMMA DirectoryInductive ==
    ASSUME SealInv, [Next]_vars PROVE DirectoryKept'
<1>0. TypeOK /\ SealedKept /\ DirectoryKept
  BY DEF SealInv
<1>1. CASE capsule'.dir = capsule.dir /\ (capsule'.state = "ready" => capsule'.dir # Unset)
  BY <1>0, <1>1, Forward DEF SealedKept, DirectoryKept
<1>2. ASSUME NEW p \in Processes, Publish(p) PROVE DirectoryKept'
  <2>1. /\ capsule'.dir = my[p].rows /\ UNCHANGED <<seal, row, files>>
        /\ pc[p] = "publish"
    BY <1>0, <1>2 DEF Publish, evidence, TypeOK
  <2>2. /\ seal.state = "sealed" /\ my[p].rows = row.version /\ row.version = files.version
        /\ seal.mark = [rows |-> my[p].rows, digest |-> my[p].digest]
    BY <2>1 DEF SealInv, ProcessInv, JobInPlace, ReadKept, Past, GateBound, AuthorityKept,
       Authority, Bound
  <2>3. my[p].rows # Unset
    BY <1>0, <2>2, CollectorsAssumption DEF TypeOK, Versions, Unset
  <2> QED
    BY <2>1, <2>2, <2>3 DEF DirectoryKept
<1>3. ASSUME NEW p \in Processes, BeginBuild(p) \/ FinishFailed(p)
      PROVE  capsule'.dir = capsule.dir /\ (capsule'.state = "ready" => capsule.dir # Unset)
  BY <1>0, <1>3 DEF BeginBuild, FinishFailed, FailureState, TypeOK, DirectoryKept
<1>4. ASSUME NEW p \in Processes, FinishReady(p)
      PROVE  capsule'.dir = capsule.dir /\ capsule.dir # Unset
  BY <1>0, <1>4 DEF FinishReady, TypeOK, SealInv, ProcessInv, AuthorityKept
<1> QED
  BY <1>0, <1>1, <1>2, <1>3, <1>4, Writers DEF DirectoryKept

\* Types are kept.
LEMMA TypesInductive ==
    ASSUME SealInv, [Next]_vars PROVE TypeOK' /\ Counted'
<1>0. TypeOK /\ Counted /\ ProcsTyped'
  BY ProcessesInductive DEF SealInv
<1> DEFINE SealTyped == /\ seal \in [state: {"open", "preparing", "sealed", "invalid"},
                                     owner: Processes \cup {NoProcess}, fence: Nat,
                                     leaseLeft: 0..LeaseTicks, mark: Mark \cup {NoMark}]
                        /\ seal.state = "preparing" <=> seal.owner # NoProcess
           CapsuleTyped == capsule \in [state: {"pending", "running", "ready", "failed"},
                                        key: {NoKey, MessageKey, RequestKey}, fence: Nat,
                                        dir: Versions \cup {Unset}]
<1>1. SealTyped'
  <2>0. SealTyped
    BY <1>0 DEF TypeOK
  <2>b. LeaseTicks \in 0..LeaseTicks /\ 0 \in 0..LeaseTicks
    BY BoundsAssumption
  <2>e. ASSUME NEW state \in {"sealed", "invalid"}, NEW mark \in Mark \cup {NoMark},
               EndSeal(state, mark)
        PROVE  SealTyped'
    <3>1. seal' = [state |-> state, owner |-> NoProcess, fence |-> seal.fence,
                   leaseLeft |-> 0, mark |-> mark]
      BY <2>0, <2>e DEF EndSeal
    <3> QED
      BY <2>0, <2>b, <2>e, <3>1
  <2>1. ASSUME NEW p \in Processes, BeginSeal(p) PROVE SealTyped'
    <3>1. seal' = [state |-> "preparing", owner |-> p, fence |-> seal.fence + 1,
                   leaseLeft |-> LeaseTicks, mark |-> seal.mark]
      BY <2>0, <2>1 DEF BeginSeal
    <3>2. /\ seal.fence + 1 \in Nat /\ seal.mark \in Mark \cup {NoMark}
          /\ p \in Processes \cup {NoProcess} /\ p # NoProcess
      BY <2>0, <2>1, ProcessesAssumption
    <3> QED
      BY <2>b, <3>1, <3>2
  <2>2. ASSUME NEW p \in Processes, ValidateTree(p) \/ RenewForMarker(p) \/ Fingerprint(p)
        PROVE  SealTyped'
    <3>1. UNCHANGED seal \/ seal' = [seal EXCEPT !.leaseLeft = LeaseTicks]
      BY <2>2 DEF ValidateTree, RenewForMarker, Fingerprint, Renewed
    <3> QED
      BY <2>0, <3>1, BoundsAssumption
  <2>3. ASSUME NEW p \in Processes, CompleteSeal(p) PROVE SealTyped'
    <3>1. MarkOf(p) \in Mark
      BY <1>0, <2>3 DEF CompleteSeal, SealInv, ProcessInv, ReadKept, Past, MarkOf, Mark,
         TypeOK
    <3>2. UNCHANGED seal \/ EndSeal("sealed", MarkOf(p))
      BY <2>3 DEF CompleteSeal
    <3> QED
      BY <2>0, <2>e, <3>1, <3>2
  <2>4. ASSUME NEW p \in Processes, InvalidateSeal(p) PROVE SealTyped'
    <3>1. UNCHANGED seal \/ EndSeal("invalid", NoMark)
      BY <2>4 DEF InvalidateSeal
    <3> QED
      BY <2>0, <2>e, <3>1
  <2>5. CASE Tick
    BY <2>0, <2>5, BoundsAssumption DEF Tick
  <2> QED
    BY <2>0, <2>1, <2>2, <2>3, <2>4, <2>5, Writers
<1>2. row' \in [version: Versions, checked: BOOLEAN, invalidated: BOOLEAN,
                digest: Versions \cup {Unset}]
  <2>1. ASSUME NEW p \in Processes, MarkWrite(p)
        PROVE  UNCHANGED row \/ row' = [row EXCEPT !.checked = TRUE, !.digest = my[p].digest]
    BY <2>1 DEF MarkWrite
  <2>2. ASSUME NEW p \in Processes
        PROVE  my[p].digest \in Versions \cup {Unset}
    BY <1>0 DEF TypeOK
  <2>3. ASSUME NEW p \in Processes, CheckUnchanged(p)
        PROVE  UNCHANGED row \/ row' = [row EXCEPT !.checked = FALSE, !.digest = Unset,
                                                   !.invalidated = TRUE]
    BY <2>3 DEF CheckUnchanged
  <2>4. ASSUME NEW c \in Collectors, LateRow(c)
        PROVE  \/ UNCHANGED row
               \/ row' = [row EXCEPT !.version = VersionOf[c]] /\ VersionOf[c] \in Versions
    BY <2>4 DEF LateRow, Versions
  <2>5. row \in [version: Versions, checked: BOOLEAN, invalidated: BOOLEAN,
                 digest: Versions \cup {Unset}]
    BY <1>0 DEF TypeOK
  <2> QED
    BY <2>1, <2>2, <2>3, <2>4, <2>5, Writers
<1>3. files' \in [version: Versions, readOnly: BOOLEAN]
  <2>1. ASSUME NEW c \in Collectors PROVE VersionOf[c] \in Versions
    BY DEF Versions
  <2> QED
    BY <1>0, <2>1, Writers DEF TypeOK, MakeReadOnly, LateFile
<1>4. marker' \in Mark \cup {NoMark}
  <2>1. ASSUME NEW p \in Processes, ReplaceMarker(p)
        PROVE  \/ UNCHANGED marker
               \/ marker' = MarkOf(p) /\ MarkOf(p) \in Mark
    BY <1>0, <2>1 DEF ReplaceMarker, SealInv, ProcessInv, ReadKept, Past, MarkOf, Mark,
       TypeOK
  <2> QED
    BY <1>0, <2>1, Writers DEF TypeOK
<1>5. CapsuleTyped'
  <2>0. CapsuleTyped
    BY <1>0 DEF TypeOK
  <2>1. ASSUME NEW p \in Processes, BeginBuild(p) PROVE CapsuleTyped'
    <3> DEFINE state == IF capsule.state = "ready" THEN capsule.state ELSE "running"
               key == KeyOf(my[p].job)
    <3>1. /\ state \in {"pending", "running", "ready", "failed"}
          /\ key \in {NoKey, MessageKey, RequestKey} /\ capsule.fence + 1 \in Nat
      BY <2>0 DEF KeyOf
    <3>2. \/ UNCHANGED capsule
          \/ capsule' = [capsule EXCEPT !.fence = capsule.fence + 1, !.key = key,
                                        !.state = state]
      BY <2>1 DEF BeginBuild
    <3> HIDE DEF state, key
    <3>3. \/ UNCHANGED capsule
          \/ capsule' = [state |-> state, key |-> key, fence |-> capsule.fence + 1,
                         dir |-> capsule.dir]
      BY <2>0, <3>2
    <3> QED
      BY <2>0, <3>1, <3>3
  <2>2. ASSUME NEW p \in Processes, Publish(p) PROVE CapsuleTyped'
    BY <1>0, <2>0, <2>2 DEF Publish, TypeOK
  <2>3. ASSUME NEW p \in Processes, FinishReady(p) \/ FinishFailed(p) PROVE CapsuleTyped'
    BY <2>0, <2>3 DEF FinishReady, FinishFailed, FailureState
  <2> QED
    BY <2>0, <2>1, <2>2, <2>3, Writers
<1>6. late' \in [Collectors -> {"file", "check", "row", "done"}]
  BY <1>0 DEF TypeOK, Next, vars, Seal, Build, Crash, BeginSeal, BeginGate, VerifyFacts,
     TakeFingerprints, MarkRead, MarkWrite, CheckUnchanged, ValidateTree,
     RenewForMarker, ReadMarker, ReplaceMarker, RereadMarker, Fingerprint, MakeReadOnly,
     CompleteSeal, InvalidateSeal, PassGate, UseReceipt, BeginBuild, LockBuild,
     CopyFiles, Publish, AssertClaim, FinishReady, FinishFailed, FinishUnclaimed,
     LateFile, LateCheck, LateRow, Tick
<1>7. crashes' \in Nat /\ overruns' \in Nat /\ crashes' + overruns' <= MaxFaults
  <2>1. CASE UNCHANGED faults
    BY <1>0, <2>1 DEF faults, TypeOK, Counted
  <2>2. ASSUME NEW p \in Processes, Crash(p)
        PROVE  crashes' \in Nat /\ overruns' \in Nat /\ crashes' + overruns' <= MaxFaults
    BY <1>0, <2>2, BoundsAssumption DEF Crash, Counted
  <2>3. CASE Tick
    <3>1. IsFiniteSet(Overrun)
      BY ProcessesAssumption, FS_Subset DEF Overrun
    <3>2. Cardinality(Overrun) \in Nat
      BY <3>1, FS_CardinalityType
    <3> QED
      BY <1>0, <2>3, <3>2, BoundsAssumption DEF Tick, Counted
  <2> QED
    BY <2>1, <2>2, <2>3 DEF Next, vars, faults, Seal, Build, BeginSeal, BeginGate,
       VerifyFacts, TakeFingerprints, MarkRead, MarkWrite, CheckUnchanged, ValidateTree,
       RenewForMarker, ReadMarker, ReplaceMarker, RereadMarker, Fingerprint,
       MakeReadOnly, CompleteSeal, InvalidateSeal, PassGate,
       UseReceipt, BeginBuild, LockBuild, CopyFiles, Publish, AssertClaim, FinishReady,
       FinishFailed, FinishUnclaimed, LateFile, LateCheck, LateRow
<1> QED
  BY <1>0, <1>1, <1>2, <1>3, <1>4, <1>5, <1>6, <1>7 DEF TypeOK, Counted, ProcsTyped, Claim

-----------------------------------------------------------------------------
\* The theorems.

\* The invariant holds at the start ...
LEMMA InitSealInv == Init => SealInv
<1> SUFFICES ASSUME Init PROVE SealInv
  OBVIOUS
<1>1. \A p \in Processes : pc[p] = "idle" /\ my[p] = NoClaim
  BY DEF Init
<1>2. \A p \in Processes : ProcessInv(p)
  BY <1>1 DEF ProcessInv, JobInPlace, ReadKept, Past, MarkerKept, GateBound,
     AuthorityKept, Authority, Gates, Builds, NoClaim
<1>3. TypeOK /\ Counted
  <2>1. 0 \in Versions /\ NoClaim \in Claim /\ NoMark \in Mark \cup {NoMark}
    BY DEF Versions, NoClaim, Claim
  <2>2. pc \in [Processes -> PC] /\ my \in [Processes -> Claim]
    <3> HIDE DEF NoClaim
    <3> QED
      BY <2>1 DEF Init, PC
  <2>3. seal \in [state: {"open", "preparing", "sealed", "invalid"},
                  owner: Processes \cup {NoProcess}, fence: Nat,
                  leaseLeft: 0..LeaseTicks, mark: Mark \cup {NoMark}]
    BY BoundsAssumption DEF Init
  <2> QED
    BY <1>1, <2>1, <2>2, <2>3, BoundsAssumption DEF Init, TypeOK, Counted, Claim
<1>4. SealedKept /\ DirectoryKept /\ OneDigest
  BY <1>1 DEF Init, SealedKept, DirectoryKept, OneDigest, Past, Authority
<1> QED
  BY <1>2, <1>3, <1>4 DEF SealInv

\* ... and in every reachable state.
LEMMA SealInvariant == Spec => []SealInv
<1>1. SealInv /\ [Next]_vars => SealInv'
  BY ProcessesInductive, SealedInductive, DirectoryInductive, DigestInductive,
     TypesInductive DEF SealInv
<1> QED
  BY InitSealInv, <1>1, PTL DEF Spec

\* Every reachable state is well typed, for any processes and late collectors.
THEOREM TypeInvariant == Spec => []TypeOK
<1>1. SealInv => TypeOK
  BY DEF SealInv
<1> QED
  BY <1>1, SealInvariant, PTL

\* The marker on disk is the one the seal was completed with, although processes
\* that lost their claim may replace it at any time, before and after that
\* (_write_seal_marker).
THEOREM SealMatchesMarkerAlways == Spec => []SealMatchesMarker
<1>1. SealInv => SealMatchesMarker
  BY DEF SealInv, SealedKept, SealMatchesMarker
<1> QED
  BY <1>1, SealInvariant, PTL

\* A receipt and a Capsule's authority are given only for sealed evidence whose
\* files are what the seal says and can no longer change (verify_terminal_gate).
THEOREM ReceiptMatchesEvidenceAlways == Spec => []ReceiptMatchesEvidence
<1>1. SealInv => ReceiptMatchesEvidence
  <2> SUFFICES ASSUME SealInv, NEW p \in Processes, pc[p] \in Authority
               PROVE  /\ seal.state = "sealed"
                      /\ seal.mark = [rows |-> my[p].rows, digest |-> my[p].digest]
                      /\ files = [version |-> my[p].rows, readOnly |-> TRUE]
    BY DEF ReceiptMatchesEvidence, Authority
  <2>1. /\ my[p].job \in Gates /\ seal.state = "sealed" /\ my[p].rows = row.version
        /\ seal.mark = [rows |-> my[p].rows, digest |-> my[p].digest]
        /\ files.version = row.version /\ files.readOnly
    BY DEF SealInv, ProcessInv, JobInPlace, ReadKept, Past, GateBound, AuthorityKept,
       SealedKept, Bound
  <2> QED
    BY <2>1 DEF SealInv, TypeOK
<1> QED
  BY <1>1, SealInvariant, PTL

\* A Capsule is ready only with a directory, made of the sealed contents
\* (finish_capsule_build).
THEOREM ReadyMeansBuiltAlways == Spec => []ReadyMeansBuilt
<1>1. SealInv => ReadyMeansBuilt
  BY DEF SealInv, DirectoryKept, ReadyMeansBuilt
<1> QED
  BY <1>1, SealInvariant, PTL

=============================================================================
