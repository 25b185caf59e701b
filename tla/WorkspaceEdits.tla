----------------------------- MODULE WorkspaceEdits -----------------------------
(***************************************************************************)
(* Editing the files of one agent workspace: the editor of                 *)
(* agent/postgres_workspace_atomic.py, the file operations it takes from   *)
(* agent/durable_workspace.py, and the live head and mutation journal of   *)
(* agent/postgres_workspace_durability.py.                                 *)
(*                                                                         *)
(* The database holds the head (a revision and the digest of the files it  *)
(* stands for, with a writer lease) and a journal of mutations; the file   *)
(* system holds the files and the backups.  No transaction spans both.  An *)
(* edit takes the lock of the workspace, settles the journals a dead edit  *)
(* left open, and then: lease, backup, journal, files, and one transaction *)
(* that moves the head and commits the journal.                            *)
(*                                                                         *)
(* A digest is what it digests: the contents of the files, and whether a   *)
(* temporary file lies among them.                                         *)
(***************************************************************************)
EXTENDS Naturals, Sequences, FiniteSets

CONSTANTS
    Editors,       \* the calls of apply_patches that may run at once
    Files,         \* the paths of the workspace
    Values,        \* what a file may hold
    NoFile,        \* the path does not exist
    NoEditor,      \* the lock is free
    LeaseTicks,    \* lease_seconds
    MaxEdits,      \* bound: mutations journalled
    MaxClaims,     \* bound: writer leases claimed
    MaxOutside,    \* bound: files changed by something else than an edit
    MaxFaults      \* bound: processes that die and transactions that fail

ASSUME EditorsAssumption == NoEditor \notin Editors
ASSUME FilesAssumption == IsFiniteSet(Files) /\ Files # {}
ASSUME ValuesAssumption == NoFile \notin Values
ASSUME BoundsAssumption ==
    /\ LeaseTicks \in Nat \ {0}
    /\ {MaxEdits, MaxClaims, MaxOutside, MaxFaults} \subseteq Nat

VARIABLES
    tree,      \* the content of every path
    stray,     \* a temporary file lies in the workspace
    foreign,   \* what was changed from outside since an edit last found the
               \* files as the head says, and has not been overwritten
    head,      \* agent_workspace_live_heads
    journal,   \* agent_workspace_mutation_journal, in the order of creation
    backups,   \* the backup directories: from which revision, for which patch
    lock,      \* who holds the lock file of the workspace
    pc, my,    \* what each editor does next, and what it has read
    outside, faults

files == <<tree, stray, foreign>>
procs == <<lock, pc, my>>
vars == <<tree, stray, foreign, head, journal, backups, lock, pc, my, outside, faults>>

-----------------------------------------------------------------------------

Trees == [Files -> Values \cup {NoFile}]
Patches == UNION {[touched -> Values \cup {NoFile}] : touched \in SUBSET Files \ {{}}}
Backups == [rev: 1..(MaxEdits + 1), patch: Patches]

NoPatch == [f \in {} |-> NoFile]
Nothing == [patch |-> NoPatch, token |-> 0, at |-> 0, todo |-> {},
            back |-> "none", conflicted |-> FALSE]

PC == {"idle", "recover", "undo", "look", "claim", "fence", "backup", "prepare",
       "apply", "finalize", "rollback", "drop", "release"}

TypeOK ==
    /\ tree \in Trees
    /\ stray \in BOOLEAN
    /\ foreign \subseteq Files
    /\ head \in [rev: 0..(MaxEdits + 1), tree: Trees, token: 0..MaxClaims,
                 lease: 0..LeaseTicks]
    /\ journal \in Seq([state: {"prepared", "committed", "rolled_back", "conflicted"},
                        rev: 1..(MaxEdits + 1), from: Trees, patch: Patches,
                        token: 1..MaxClaims])
    /\ Len(journal) <= MaxEdits
    /\ backups \subseteq Backups
    /\ lock \in Editors \cup {NoEditor}
    /\ pc \in [Editors -> PC]
    /\ my \in [Editors -> [patch: Patches \cup {NoPatch}, token: 0..MaxClaims,
                           at: 0..MaxEdits, todo: SUBSET Files,
                           back: {"none", "recover", "release"}, conflicted: BOOLEAN]]
    /\ outside \in 0..MaxOutside /\ faults \in 0..MaxFaults
    /\ \A e \in Editors : pc[e] # "idle" <=> lock = e

\* The workspace is imported; its head is not there yet.
Init ==
    /\ tree \in Trees
    /\ stray = FALSE /\ foreign = {}
    /\ head = [rev |-> 0, tree |-> tree, token |-> 0, lease |-> 0]
    /\ journal = <<>> /\ backups = {}
    /\ lock = NoEditor
    /\ pc = [e \in Editors |-> "idle"]
    /\ my = [e \in Editors |-> Nothing]
    /\ outside = 0 /\ faults = 0

-----------------------------------------------------------------------------
(* What the file operations and the queries say                            *)

Goto(e, label) == pc' = [pc EXCEPT ![e] = label] /\ UNCHANGED <<lock, my>>

Leave(e) ==
    /\ lock' = NoEditor
    /\ pc' = [pc EXCEPT ![e] = "idle"]
    /\ my' = [my EXCEPT ![e] = Nothing]

\* The manifest of the workspace is that of t.
Holds(t) == tree = t /\ ~stray

Open == {i \in DOMAIN journal : journal[i].state = "prepared"}

Touched(j) == DOMAIN j.patch
Before(j, f) == j.from[f]
After(j) == [f \in Files |-> IF f \in Touched(j) THEN j.patch[f] ELSE j.from[f]]
BackupOf(j) == [rev |-> j.rev, patch |-> j.patch]

Mark(i, state) == journal' = [journal EXCEPT ![i].state = state]

\* Every touched path is as it was before the mutation, or as it is after it.
TouchedPathsKnown(j) == \A f \in Touched(j) : tree[f] \in {Before(j, f), j.patch[f]}

\* The editor's lease is the one the head names, and has not run out.
Fenced(e) == head.token = my[e].token /\ head.lease > 0

\* mark_rolled_back, and the backup is removed
RolledBack(i) ==
    /\ Holds(journal[i].from)
    /\ head.rev = journal[i].rev /\ head.tree = journal[i].from
    /\ Mark(i, "rolled_back")
    /\ backups' = backups \ {BackupOf(journal[i])}

Conflicted(i) == Mark(i, "conflicted") /\ UNCHANGED backups

\* _atomic_write, or the removal of the file
WriteFile(f, v) ==
    /\ tree' = [tree EXCEPT ![f] = v]
    /\ foreign' = foreign \ {f}
    /\ UNCHANGED stray

-----------------------------------------------------------------------------
(* Taking the lock and settling what was left open                         *)

\* The lock is taken; a workspace without a head gets one for the files it has.
Begin(e) ==
    /\ pc[e] = "idle" /\ lock = NoEditor
    /\ lock' = e
    /\ pc' = [pc EXCEPT ![e] = "recover"]
    /\ head' = IF head.rev = 0 THEN [head EXCEPT !.rev = 1, !.tree = tree] ELSE head
    /\ foreign' = IF head.rev = 0 THEN {} ELSE foreign
    /\ UNCHANGED <<tree, stray, journal, backups, my, outside, faults>>

\* A journal is open: nothing was written, or not everything written is known,
\* or the files are put back first.
SettleJournal(e) ==
    /\ pc[e] = "recover"
    /\ \E i \in Open : LET j == journal[i] IN
        \/ RolledBack(i) /\ UNCHANGED procs
        \/ /\ ~Holds(j.from) /\ ~TouchedPathsKnown(j)
           /\ Conflicted(i)
           /\ my' = [my EXCEPT ![e].conflicted = TRUE]
           /\ UNCHANGED <<lock, pc>>
        \/ /\ ~Holds(j.from) /\ TouchedPathsKnown(j)
           /\ my' = [my EXCEPT ![e].at = i, ![e].todo = Touched(j), ![e].back = "recover"]
           /\ pc' = [pc EXCEPT ![e] = "undo"]
           /\ UNCHANGED <<lock, journal, backups>>
    /\ UNCHANGED <<files, head, outside, faults>>

\* (Mutant) An edit starts whatever journals are open.
RecoveredAnyway(e) ==
    /\ pc[e] = "recover"
    /\ backups' = {b \in backups : \E i \in DOMAIN journal :
                      journal[i].state = "conflicted" /\ b = BackupOf(journal[i])}
    /\ \/ Leave(e)
       \/ ~my[e].conflicted /\ Goto(e, "look")
    /\ UNCHANGED <<files, head, journal, outside, faults>>

\* None is open: the backups no journal needs are removed.  A conflict ends the
\* call, and so does recover_workspace.
Recovered(e) ==
    /\ pc[e] = "recover" /\ Open = {}
    /\ backups' = {b \in backups : \E i \in DOMAIN journal :
                      journal[i].state = "conflicted" /\ b = BackupOf(journal[i])}
    /\ \/ Leave(e)
       \/ ~my[e].conflicted /\ Goto(e, "look")
    /\ UNCHANGED <<files, head, journal, outside, faults>>

\* (Mutant) The branch of _restore_backup for a path that did not exist is forgotten.
UndoFileExisting(e) ==
    /\ pc[e] = "undo"
    /\ LET j == journal[my[e].at] IN
       /\ BackupOf(j) \in backups
       /\ \E f \in my[e].todo :
             /\ IF Before(j, f) # NoFile THEN WriteFile(f, Before(j, f)) ELSE UNCHANGED files
             /\ my' = [my EXCEPT ![e].todo = @ \ {f}]
    /\ UNCHANGED <<head, journal, backups, lock, pc, outside, faults>>

\* Restoring the files from the backup, one at a time.
UndoFile(e) ==
    /\ pc[e] = "undo"
    /\ LET j == journal[my[e].at] IN
       /\ BackupOf(j) \in backups
       /\ \E f \in my[e].todo :
             /\ WriteFile(f, Before(j, f))
             /\ my' = [my EXCEPT ![e].todo = @ \ {f}]
    /\ UNCHANGED <<head, journal, backups, lock, pc, outside, faults>>

\* All are restored: the manifest must be what it was before the mutation.
Undone(e) ==
    /\ pc[e] = "undo" /\ my[e].todo = {}
    /\ pc' = [pc EXCEPT ![e] = my[e].back]
    /\ LET i == my[e].at IN
       \/ /\ RolledBack(i)
          /\ my' = [my EXCEPT ![e].at = 0, ![e].back = "none"]
       \/ /\ ~Holds(journal[i].from)
          /\ Conflicted(i)
          /\ my' = [my EXCEPT ![e].at = 0, ![e].back = "none", ![e].conflicted = TRUE]
    /\ UNCHANGED <<files, head, lock, outside, faults>>

-----------------------------------------------------------------------------
(* An edit                                                                  *)

\* The files must be what the head says; a patch creates a path that does not
\* exist, and changes or deletes one that does.
Look(e) ==
    /\ pc[e] = "look"
    /\ \/ /\ Holds(head.tree)
          /\ Len(journal) < MaxEdits /\ head.token < MaxClaims
          /\ \E patch \in Patches :
                /\ \A f \in DOMAIN patch : tree[f] = NoFile => patch[f] # NoFile
                /\ my' = [my EXCEPT ![e].patch = patch]
          /\ pc' = [pc EXCEPT ![e] = "claim"]
          /\ foreign' = {}
          /\ UNCHANGED lock
       \/ Leave(e) /\ UNCHANGED foreign
    /\ UNCHANGED <<tree, stray, head, journal, backups, outside, faults>>

\* The lease of an editor that died keeps the others out until it runs out.
ClaimWriter(e) ==
    /\ pc[e] = "claim"
    /\ IF head.lease = 0
       THEN /\ head' = [head EXCEPT !.token = @ + 1, !.lease = LeaseTicks]
            /\ my' = [my EXCEPT ![e].token = head.token + 1]
            /\ pc' = [pc EXCEPT ![e] = "fence"]
            /\ UNCHANGED lock
       ELSE Leave(e) /\ UNCHANGED head
    /\ UNCHANGED <<files, journal, backups, outside, faults>>

\* Under the lease the files are compared once more.
CheckFence(e) ==
    /\ pc[e] = "fence"
    /\ Goto(e, IF Holds(head.tree) THEN "backup" ELSE "release")
    /\ UNCHANGED <<files, head, journal, backups, outside, faults>>

WriteBackup(e) ==
    /\ pc[e] = "backup"
    /\ backups' = backups \cup {[rev |-> head.rev, patch |-> my[e].patch]}
    /\ Goto(e, "prepare")
    /\ UNCHANGED <<files, head, journal, outside, faults>>

\* The journal is written while the lease holds; else the backup goes.
Prepare(e) ==
    /\ pc[e] = "prepare"
    /\ IF Fenced(e)
       THEN /\ journal' = Append(journal,
                   [state |-> "prepared", rev |-> head.rev, from |-> head.tree,
                    patch |-> my[e].patch, token |-> my[e].token])
            /\ my' = [my EXCEPT ![e].at = Len(journal) + 1,
                                ![e].todo = DOMAIN my[e].patch]
            /\ pc' = [pc EXCEPT ![e] = "apply"]
            /\ UNCHANGED <<lock, backups>>
       ELSE /\ backups' = backups \ {[rev |-> head.rev, patch |-> my[e].patch]}
            /\ Goto(e, "release")
            /\ UNCHANGED journal
    /\ UNCHANGED <<files, head, outside, faults>>

\* The lease is renewed before every file, and the file must be what it was.
Apply(e) ==
    /\ pc[e] = "apply"
    /\ \E f \in my[e].todo :
        \/ /\ Fenced(e) /\ tree[f] = Before(journal[my[e].at], f)
           /\ WriteFile(f, my[e].patch[f])
           /\ my' = [my EXCEPT ![e].todo = @ \ {f}]
           /\ UNCHANGED <<lock, pc>>
        \/ /\ ~(Fenced(e) /\ tree[f] = Before(journal[my[e].at], f))
           /\ Goto(e, "rollback")
           /\ UNCHANGED files
    /\ head' = IF Fenced(e) THEN [head EXCEPT !.lease = LeaseTicks] ELSE head
    /\ UNCHANGED <<journal, backups, outside, faults>>

\* All files are written: the manifest must be what the patch makes of them.
Verify(e) ==
    /\ pc[e] = "apply" /\ my[e].todo = {}
    /\ Goto(e, IF Holds(After(journal[my[e].at])) THEN "finalize" ELSE "rollback")
    /\ UNCHANGED <<files, head, journal, backups, outside, faults>>

\* (Mutant) The journal is committed in a transaction of its own, which may fail.
PublishInTwo(e) ==
    /\ Fenced(e) /\ journal[my[e].at].state = "prepared"
    /\ head' = [head EXCEPT !.rev = @ + 1, !.lease = LeaseTicks,
                            !.tree = After(journal[my[e].at])]
    /\ Mark(my[e].at, "committed") \/ UNCHANGED journal

\* The head moves to the files as they were verified, and the journal is committed.
Publish(e) ==
    /\ Fenced(e) /\ journal[my[e].at].state = "prepared"
    /\ head' = [head EXCEPT !.rev = @ + 1, !.lease = LeaseTicks,
                            !.tree = After(journal[my[e].at])]
    /\ Mark(my[e].at, "committed")

\* One transaction; when it fails, or its answer is lost, the editor rolls back.
Finalize(e) ==
    /\ pc[e] = "finalize"
    /\ \/ Publish(e) /\ Goto(e, "drop") /\ UNCHANGED faults
       \/ /\ faults < MaxFaults /\ faults' = faults + 1
          /\ Publish(e) /\ Goto(e, "rollback")
       \/ /\ faults < MaxFaults /\ faults' = faults + 1
          /\ Fenced(e) /\ head' = [head EXCEPT !.lease = LeaseTicks]
          /\ Goto(e, "rollback") /\ UNCHANGED journal
       \/ /\ ~Fenced(e)
          /\ Goto(e, "rollback") /\ UNCHANGED <<head, journal, faults>>
    /\ UNCHANGED <<files, backups, outside>>

\* (Mutant) The editor trusts the record it prepared.
RollbackUnread(e) ==
    /\ pc[e] = "rollback"
    /\ LET i == my[e].at
           j == journal[i] IN
       \/ ~TouchedPathsKnown(j) /\ Conflicted(i) /\ Goto(e, "release")
       \/ /\ TouchedPathsKnown(j)
          /\ my' = [my EXCEPT ![e].todo = Touched(j), ![e].back = "release"]
          /\ pc' = [pc EXCEPT ![e] = "undo"]
          /\ UNCHANGED <<lock, journal, backups>>
    /\ UNCHANGED <<files, head, outside, faults>>

\* The journal is read again: what is committed stays.
Rollback(e) ==
    /\ pc[e] = "rollback"
    /\ LET i == my[e].at
           j == journal[i] IN
       \/ /\ j.state # "prepared"
          /\ Goto(e, "release") /\ UNCHANGED <<journal, backups>>
       \/ /\ j.state = "prepared" /\ ~TouchedPathsKnown(j)
          /\ Conflicted(i) /\ Goto(e, "release")
       \/ /\ j.state = "prepared" /\ TouchedPathsKnown(j)
          /\ my' = [my EXCEPT ![e].todo = Touched(j), ![e].back = "release"]
          /\ pc' = [pc EXCEPT ![e] = "undo"]
          /\ UNCHANGED <<lock, journal, backups>>
    /\ UNCHANGED <<files, head, outside, faults>>

DropBackup(e) ==
    /\ pc[e] = "drop"
    /\ backups' = backups \ {BackupOf(journal[my[e].at])}
    /\ Goto(e, "release")
    /\ UNCHANGED <<files, head, journal, outside, faults>>

\* The lease is given back, if it is still this editor's, and the lock.
Release(e) ==
    /\ pc[e] = "release"
    /\ head' = IF head.token = my[e].token THEN [head EXCEPT !.lease = 0] ELSE head
    /\ Leave(e)
    /\ UNCHANGED <<files, journal, backups, outside, faults>>

-----------------------------------------------------------------------------

\* A process dies and its lock goes with it.  In the middle of writing a file it
\* leaves the temporary file the content was written to.
Writing(e) ==
    \/ pc[e] = "apply" /\ \E f \in my[e].todo : my[e].patch[f] # NoFile
    \/ pc[e] = "undo" /\ \E f \in my[e].todo : Before(journal[my[e].at], f) # NoFile

\* (Mutant) The lock is a file that exists, and stays when its process dies.
CrashLocked(e) ==
    /\ pc[e] # "idle"
    /\ faults < MaxFaults /\ faults' = faults + 1
    /\ pc' = [pc EXCEPT ![e] = "idle"]
    /\ my' = [my EXCEPT ![e] = Nothing]
    /\ UNCHANGED <<files, head, journal, backups, lock, outside>>

Crash(e) ==
    /\ pc[e] # "idle"
    /\ faults < MaxFaults /\ faults' = faults + 1
    /\ \/ UNCHANGED stray
       \/ Writing(e) /\ stray' = TRUE
    /\ Leave(e)
    /\ UNCHANGED <<tree, foreign, head, journal, backups, outside>>

\* Something else than an editor changes a file.
Outside ==
    /\ outside < MaxOutside /\ outside' = outside + 1
    /\ \E f \in Files, v \in Values \cup {NoFile} :
          /\ v # tree[f]
          /\ tree' = [tree EXCEPT ![f] = v]
          /\ foreign' = foreign \cup {f}
    /\ UNCHANGED <<stray, head, journal, backups, procs, faults>>

Tick ==
    /\ head.lease > 0
    /\ head' = [head EXCEPT !.lease = @ - 1]
    /\ UNCHANGED <<files, journal, backups, procs, outside, faults>>

Next ==
    \/ \E e \in Editors :
          \/ Begin(e) \/ SettleJournal(e) \/ Recovered(e) \/ UndoFile(e) \/ Undone(e)
          \/ Look(e) \/ ClaimWriter(e) \/ CheckFence(e) \/ WriteBackup(e) \/ Prepare(e)
          \/ Apply(e) \/ Verify(e) \/ Finalize(e) \/ Rollback(e) \/ DropBackup(e)
          \/ Release(e) \/ Crash(e)
    \/ Outside
    \/ Tick

Spec == Init /\ [][Next]_vars

-----------------------------------------------------------------------------
(* Properties                                                               *)

\* A file that is not as the head says was changed from outside, or an open or
\* conflicted mutation of this very revision touches it, and it is as before or as
\* after that mutation: whatever step an editor died at, what is in the workspace
\* can be told from the database.
FilesAccountedFor ==
    head.rev > 0 =>
        \A f \in Files \ foreign :
            \/ tree[f] = head.tree[f]
            \/ \E i \in DOMAIN journal : LET j == journal[i] IN
                  /\ j.state \in {"prepared", "conflicted"} /\ j.rev = head.rev
                  /\ f \in Touched(j) /\ tree[f] \in {Before(j, f), j.patch[f]}

\* A mutation that is open can be undone: there is only one, its backup is there and
\* the head is where it was, so mark_rolled_back will not refuse.
OpenCanBeUndone ==
    /\ Cardinality(Open) <= 1
    /\ \A i \in Open :
          /\ BackupOf(journal[i]) \in backups
          /\ head.rev = journal[i].rev /\ head.tree = journal[i].from

\* The revisions are the committed mutations: every one before the head's was left
\* by exactly one, whose files are those the next one started from.
RevisionsAreCommits ==
    \A r \in 1..(head.rev - 1) : \E i \in DOMAIN journal :
        LET j == journal[i] IN
        /\ j.state = "committed" /\ j.rev = r
        /\ r + 1 = head.rev => After(j) = head.tree
        /\ \A k \in DOMAIN journal : LET other == journal[k] IN
              /\ k # i /\ other.state = "committed" => other.rev # r
              /\ other.rev = r + 1 => other.from = After(j)

\* A mutation becomes a conflict only while something from outside is in the files,
\* or a temporary file that a dying process left: a crash between two steps of an
\* edit never costs the workspace.
ConflictHasACause ==
    [][\A i \in DOMAIN journal :
          journal'[i].state = "conflicted" /\ journal[i].state # "conflicted"
             => foreign # {} \/ stray]_vars
=============================================================================
