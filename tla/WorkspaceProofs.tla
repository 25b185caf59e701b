----------------------------- MODULE WorkspaceProofs -----------------------------
(***************************************************************************)
(* What WorkspaceEdits promises for any number of editors, files, contents *)
(* and edits, wherever an edit dies and whatever else writes: the files    *)
(* can be told from the database, what is open can be undone, the          *)
(* revisions are the committed mutations, and a conflict has a cause.      *)
(***************************************************************************)
EXTENDS WorkspaceEdits, FiniteSetTheorems, SequenceTheorems, TLAPS

JournalState == {"prepared", "committed", "rolled_back", "conflicted"}

Entry == [state: JournalState, rev: 1..(MaxEdits + 1), from: Trees, patch: Patches,
          token: 1..MaxClaims]

\* What an editor has read.
Mine == [patch: Patches \cup {NoPatch}, token: 0..MaxClaims, at: 0..MaxEdits,
         todo: SUBSET Files, back: {"none", "recover", "release"}, conflicted: BOOLEAN]

\* Where an editor may stand while a mutation is open, and where it works on one.
Working == {"apply", "finalize", "rollback", "undo"}
Ahead == {"claim", "fence", "backup", "prepare"}

-----------------------------------------------------------------------------
\* The journal and the head.

\* Only the last mutation can be open; it started from the head as it is, and the
\* backup for it is there.
OpenIsLast ==
    \A i \in Open : /\ i = Len(journal)
                    /\ journal[i].rev = head.rev /\ journal[i].from = head.tree
                    /\ BackupOf(journal[i]) \in backups

\* Revisions are no more than mutations; those committed are of earlier ones, and
\* those of the head's started from its files.
JournalUpToHead ==
    /\ head.rev <= Len(journal) + 1
    /\ head.rev = 0 => journal = <<>>
    /\ \A i \in DOMAIN journal :
          /\ journal[i].rev <= head.rev /\ journal[i].rev <= i
          /\ journal[i].state = "committed" => journal[i].rev < head.rev
          /\ journal[i].rev = head.rev => journal[i].from = head.tree

\* What is not from outside is as the head says, or as the open mutation makes it.
OpenAccounts ==
    \A i \in Open : \A f \in Files \ foreign :
        \/ tree[f] = head.tree[f]
        \/ f \in Touched(journal[i]) /\ tree[f] = journal[i].patch[f]

-----------------------------------------------------------------------------
\* An editor.

\* There is a head for it, and nothing is open where it does not work on it.
InPlace(e) ==
    /\ pc[e] # "idle" => head.rev > 0
    /\ pc[e] \in PC \ (Working \cup {"idle", "recover"}) => Open = {}

\* Before the journal is written, it has room, and the files are those of the head.
Preparing(e) ==
    /\ pc[e] \in Ahead => /\ my[e].patch \in Patches /\ Len(journal) < MaxEdits
                            /\ \A f \in Files \ foreign : tree[f] = head.tree[f]
    /\ pc[e] = "claim" => head.token < MaxClaims
    /\ pc[e] \in {"fence", "backup", "prepare"} => my[e].token > 0
    /\ pc[e] = "prepare" => [rev |-> head.rev, patch |-> my[e].patch] \in backups

\* The mutation it works on is open, unless it was just committed.
WorkingOn(e) ==
    /\ pc[e] \in Working \cup {"drop"} => my[e].at \in DOMAIN journal
    /\ pc[e] \in {"apply", "finalize", "undo"} => journal[my[e].at].state = "prepared"
    /\ pc[e] \in {"apply", "undo"} => my[e].todo \subseteq Touched(journal[my[e].at])
    /\ pc[e] = "apply" => my[e].patch = journal[my[e].at].patch
    /\ pc[e] = "rollback" => journal[my[e].at].state \in {"prepared", "committed"}
    /\ pc[e] = "rollback" /\ journal[my[e].at].state = "committed" => Open = {}
    /\ pc[e] = "undo" => my[e].back # "none"

\* What it has written, or restored, is there unless something else wrote it.
Written(e) ==
    /\ pc[e] = "finalize" =>
          \A f \in Files \ foreign : tree[f] = After(journal[my[e].at])[f]
    /\ pc[e] = "undo" =>
          \A f \in Touched(journal[my[e].at]) \ (my[e].todo \cup foreign) :
              tree[f] = Before(journal[my[e].at], f)

EditorInv(e) == InPlace(e) /\ Preparing(e) /\ WorkingOn(e) /\ Written(e)

\* The types, of the state and of the editors: the lock is held by whoever is at work.
HeadRow == [rev: 0..(MaxEdits + 1), tree: Trees, token: 0..MaxClaims, lease: 0..LeaseTicks]

StateTyped ==
    /\ tree \in Trees /\ stray \in BOOLEAN /\ foreign \subseteq Files
    /\ head \in HeadRow
    /\ journal \in Seq(Entry) /\ Len(journal) <= MaxEdits
    /\ backups \subseteq Backups
    /\ outside \in 0..MaxOutside /\ faults \in 0..MaxFaults

EditorsTyped ==
    /\ lock \in Editors \cup {NoEditor}
    /\ pc \in [Editors -> PC] /\ my \in [Editors -> Mine]
    /\ \A e \in Editors : pc[e] # "idle" <=> lock = e

SharedInv ==
    /\ OpenIsLast /\ JournalUpToHead /\ OpenAccounts
    /\ FilesAccountedFor /\ RevisionsAreCommits

WorkspaceInv ==
    /\ StateTyped /\ EditorsTyped /\ SharedInv
    /\ \A e \in Editors : EditorInv(e)

-----------------------------------------------------------------------------
\* The journal.

\* Patches and trees: what a patch makes of a tree is a tree.
LEMMA PatchFacts ==
    ASSUME NEW patch \in Patches, NEW from \in Trees
    PROVE  /\ DOMAIN patch \subseteq Files
           /\ \A f \in DOMAIN patch : patch[f] \in Values \cup {NoFile}
           /\ [f \in Files |-> IF f \in DOMAIN patch THEN patch[f] ELSE from[f]] \in Trees
<1>1. PICK touched \in SUBSET Files : patch \in [touched -> Values \cup {NoFile}]
  BY DEF Patches
<1>2. DOMAIN patch = touched /\ \A f \in touched : patch[f] \in Values \cup {NoFile}
  BY <1>1
<1> QED
  BY <1>1, <1>2 DEF Trees

\* What the journal holds.
LEMMA JournalFacts ==
    ASSUME StateTyped
    PROVE  /\ Len(journal) \in Nat /\ DOMAIN journal = 1..Len(journal)
           /\ \A i \in DOMAIN journal :
                 /\ journal[i] \in Entry /\ After(journal[i]) \in Trees
                 /\ Touched(journal[i]) \subseteq Files
                 /\ \A f \in Touched(journal[i]) :
                       journal[i].patch[f] \in Values \cup {NoFile}
<1>1. Len(journal) \in Nat /\ DOMAIN journal = 1..Len(journal)
  BY LenProperties DEF StateTyped
<1>2. ASSUME NEW i \in DOMAIN journal
      PROVE  /\ journal[i] \in Entry /\ After(journal[i]) \in Trees
             /\ Touched(journal[i]) \subseteq Files
             /\ \A f \in Touched(journal[i]) :
                   journal[i].patch[f] \in Values \cup {NoFile}
  <2>1. journal[i] \in Entry
    BY <1>1, <1>2, ElementOfSeq DEF StateTyped
  <2>2. journal[i].patch \in Patches /\ journal[i].from \in Trees
    BY <2>1 DEF Entry
  <2> QED
    BY <2>1, <2>2, PatchFacts DEF After, Touched
<1> QED
  BY <1>1, <1>2

\* A mutation changes its state, and nothing else.
LEMMA Marking ==
    ASSUME StateTyped, NEW i \in DOMAIN journal, NEW state \in JournalState, Mark(i, state)
    PROVE  /\ journal' \in Seq(Entry) /\ Len(journal') = Len(journal)
           /\ DOMAIN journal' = DOMAIN journal
           /\ \A k \in DOMAIN journal :
                 /\ k # i => journal'[k] = journal[k]
                 /\ journal'[k].rev = journal[k].rev /\ journal'[k].from = journal[k].from
                 /\ journal'[k].patch = journal[k].patch
                 /\ journal'[k].token = journal[k].token
           /\ journal'[i].state = state
<1> DEFINE marked == [journal[i] EXCEPT !.state = state]
<1>1. /\ journal \in Seq(Entry) /\ i \in 1..Len(journal) /\ journal[i] \in Entry
      /\ DOMAIN journal = 1..Len(journal)
  BY JournalFacts DEF StateTyped
<1>2. /\ marked \in Entry /\ marked.rev = journal[i].rev /\ marked.from = journal[i].from
      /\ marked.patch = journal[i].patch /\ marked.token = journal[i].token
      /\ marked.state = state
  BY <1>1 DEF Entry
<1>3. journal' = [journal EXCEPT ![i] = marked]
  BY DEF Mark
<1> HIDE DEF marked
<1>4. /\ journal' \in Seq(Entry) /\ Len(journal') = Len(journal)
      /\ \A k \in 1..Len(journal) : journal'[k] = IF k = i THEN marked ELSE journal[k]
  BY <1>1, <1>2, <1>3, ExceptSeq
<1>5. DOMAIN journal' = DOMAIN journal
  BY <1>3
<1> QED
  BY <1>1, <1>2, <1>4, <1>5

\* A mutation is added at the end.
LEMMA Appending ==
    ASSUME StateTyped, NEW entry \in Entry, journal' = Append(journal, entry)
    PROVE  /\ journal' \in Seq(Entry) /\ Len(journal') = Len(journal) + 1
           /\ DOMAIN journal' = 1..(Len(journal) + 1)
           /\ \A k \in DOMAIN journal : journal'[k] = journal[k]
           /\ journal'[Len(journal) + 1] = entry
  BY JournalFacts DEF StateTyped

\* How editors move.

\* An editor goes on, and the others wait for the lock.
LEMMA Moves ==
    ASSUME EditorsTyped, NEW e \in Editors, NEW place \in PC \ {"idle"}, NEW new \in Mine,
           pc[e] # "idle" \/ lock = NoEditor, lock' = e,
           pc' = [pc EXCEPT ![e] = place], my' = [my EXCEPT ![e] = new]
    PROVE  /\ EditorsTyped' /\ pc'[e] = place /\ my'[e] = new
           /\ \A q \in Editors : q # e => pc'[q] = "idle"
  BY EditorsAssumption DEF EditorsTyped

\* Goto is such a move, which reads nothing.
LEMMA GotoMoves ==
    ASSUME EditorsTyped, NEW e \in Editors, NEW place \in PC \ {"idle"},
           pc[e] # "idle", Goto(e, place)
    PROVE  /\ EditorsTyped' /\ pc'[e] = place /\ my'[e] = my[e]
           /\ \A q \in Editors : q # e => pc'[q] = "idle"
  BY EditorsAssumption DEF EditorsTyped, Goto

\* After Leave, nobody is at work.
LEMMA LeaveMoves ==
    ASSUME EditorsTyped, NEW e \in Editors, pc[e] # "idle", Leave(e)
    PROVE  EditorsTyped' /\ \A q \in Editors : pc'[q] = "idle"
<1>1. Nothing \in Mine
  <2>1. 0 \in 0..MaxClaims /\ 0 \in 0..MaxEdits /\ {} \in SUBSET Files
    BY BoundsAssumption
  <2> QED
    BY <2>1 DEF Nothing, Mine
<1> HIDE DEF Nothing
<1> QED
  BY <1>1, EditorsAssumption DEF EditorsTyped, Leave, PC

-----------------------------------------------------------------------------
\* What files, head and journal say of each other.

\* At most one mutation is open.
LEMMA OpenIsOne ==
    ASSUME OpenIsLast, NEW i \in Open, NEW k \in Open PROVE i = k
  BY DEF OpenIsLast

\* Steps that leave the journal and the head's revision alone, and write a file only
\* as it was or as the open mutation has it.
LEMMA SharedQuiet ==
    ASSUME SharedInv, journal' = journal,
           head'.rev = head.rev, head'.tree = head.tree,
           Open = {} \/ backups \subseteq backups',
           \A f \in Files \ foreign' :
              \/ f \notin foreign /\ tree'[f] = tree[f]
              \/ tree'[f] = head.tree[f]
              \/ \E i \in Open :
                    f \in Touched(journal[i]) /\ tree'[f] = journal[i].patch[f]
    PROVE  SharedInv' /\ Open' = Open
<1>1. Open' = Open
  BY DEF Open
<1>2. OpenIsLast'
  BY <1>1 DEF SharedInv, OpenIsLast, BackupOf
<1>3. JournalUpToHead'
  BY DEF SharedInv, JournalUpToHead
<1>4. OpenAccounts'
  <2> SUFFICES ASSUME NEW i \in Open, NEW f \in Files \ foreign'
               PROVE  \/ tree'[f] = head.tree[f]
                      \/ f \in Touched(journal[i]) /\ tree'[f] = journal[i].patch[f]
    BY <1>1 DEF OpenAccounts, Touched
  <2>1. ASSUME NEW k \in Open PROVE i = k
    BY <2>1, OpenIsOne DEF SharedInv
  <2> QED
    BY <2>1 DEF SharedInv, OpenAccounts
<1>5. FilesAccountedFor'
  <2> SUFFICES ASSUME head.rev > 0, NEW f \in Files \ foreign'
               PROVE  \/ tree'[f] = head.tree[f]
                      \/ \E i \in DOMAIN journal :
                            /\ journal[i].state \in {"prepared", "conflicted"}
                            /\ journal[i].rev = head.rev /\ f \in Touched(journal[i])
                            /\ tree'[f] \in {Before(journal[i], f), journal[i].patch[f]}
    BY DEF FilesAccountedFor, Touched, Before
  <2>1. CASE f \notin foreign /\ tree'[f] = tree[f]
    BY <2>1 DEF SharedInv, FilesAccountedFor
  <2>2. ASSUME NEW i \in Open, f \in Touched(journal[i]), tree'[f] = journal[i].patch[f]
        PROVE  /\ i \in DOMAIN journal /\ journal[i].state = "prepared"
               /\ journal[i].rev = head.rev
    BY <2>2 DEF SharedInv, OpenIsLast, Open
  <2> QED
    BY <2>1, <2>2
<1>6. RevisionsAreCommits'
  BY DEF SharedInv, RevisionsAreCommits, After, Touched
<1> QED
  BY <1>1, <1>2, <1>3, <1>4, <1>5, <1>6 DEF SharedInv

\* The open mutation is rolled back, its files being as before, or a conflict.
LEMMA SharedMarked ==
    ASSUME StateTyped, SharedInv, NEW i \in Open, NEW state \in {"rolled_back", "conflicted"},
           Mark(i, state), UNCHANGED <<tree, foreign, head>>,
           state = "rolled_back" => Holds(journal[i].from)
    PROVE  SharedInv' /\ Open' = {}
<1>0. /\ i \in DOMAIN journal /\ state \in JournalState /\ journal[i].state = "prepared"
      /\ Len(journal) \in Nat
  BY JournalFacts DEF Open, JournalState
<1>1. /\ Len(journal') = Len(journal) /\ DOMAIN journal' = DOMAIN journal
      /\ \A k \in DOMAIN journal :
            /\ k # i => journal'[k] = journal[k]
            /\ journal'[k].rev = journal[k].rev /\ journal'[k].from = journal[k].from
            /\ journal'[k].patch = journal[k].patch
      /\ journal'[i].state = state
  BY <1>0, Marking
<1>2. Open' = {}
  <2>1. ASSUME NEW k \in DOMAIN journal, k # i PROVE journal[k].state # "prepared"
    BY <2>1, OpenIsOne DEF SharedInv, Open
  <2> QED
    BY <1>1, <2>1 DEF Open
<1>3. OpenIsLast' /\ OpenAccounts'
  BY <1>2 DEF OpenIsLast, OpenAccounts
<1>4. JournalUpToHead'
  <2>1. journal = <<>> => FALSE
    BY <1>0
  <2>2. ASSUME NEW k \in DOMAIN journal
        PROVE  journal'[k].state = "committed" => journal[k].state = "committed"
    BY <1>1
  <2> QED
    BY <1>1, <2>1, <2>2 DEF SharedInv, JournalUpToHead
<1>5. FilesAccountedFor'
  <2> SUFFICES ASSUME head.rev > 0, NEW f \in Files \ foreign
               PROVE  \/ tree[f] = head.tree[f]
                      \/ \E k \in DOMAIN journal :
                            /\ journal'[k].state \in {"prepared", "conflicted"}
                            /\ journal[k].rev = head.rev /\ f \in Touched(journal[k])
                            /\ tree[f] \in {Before(journal[k], f), journal[k].patch[f]}
    BY <1>1 DEF FilesAccountedFor, Touched, Before
  <2>1. CASE state = "rolled_back"
    BY <2>1 DEF Holds, SharedInv, OpenIsLast
  <2>2. CASE state = "conflicted"
    BY <1>1, <2>2 DEF SharedInv, FilesAccountedFor
  <2> QED
    BY <2>1, <2>2
<1>6. RevisionsAreCommits'
  <2>1. \A k \in DOMAIN journal :
           /\ journal'[k].state = "committed" <=> journal[k].state = "committed"
           /\ After(journal[k])' = After(journal[k])
    BY <1>0, <1>1 DEF After, Touched
  <2> QED
    BY <1>1, <2>1 DEF SharedInv, RevisionsAreCommits
<1> QED
  BY <1>2, <1>3, <1>4, <1>5, <1>6 DEF SharedInv

\* The open mutation is published: the head moves to what it makes of the files.
LEMMA SharedPublished ==
    ASSUME StateTyped, SharedInv, NEW i \in Open, Mark(i, "committed"),
           head'.rev = head.rev + 1, head'.tree = After(journal[i]),
           UNCHANGED <<tree, foreign>>,
           \A f \in Files \ foreign : tree[f] = After(journal[i])[f]
    PROVE  SharedInv' /\ Open' = {} /\ head'.rev \in 1..(MaxEdits + 1)
<1>0. /\ i \in DOMAIN journal /\ "committed" \in JournalState
      /\ journal[i].state = "prepared" /\ i = Len(journal)
      /\ journal[i].rev = head.rev /\ head.rev <= i
      /\ Len(journal) \in Nat /\ head.rev \in Nat /\ Len(journal) <= MaxEdits
      /\ MaxEdits \in Nat
  BY JournalFacts, BoundsAssumption
     DEF Open, JournalState, SharedInv, OpenIsLast, JournalUpToHead, StateTyped, HeadRow
<1>1. /\ Len(journal') = Len(journal) /\ DOMAIN journal' = DOMAIN journal
      /\ \A k \in DOMAIN journal :
            /\ k # i => journal'[k] = journal[k]
            /\ journal'[k].rev = journal[k].rev /\ journal'[k].from = journal[k].from
            /\ journal'[k].patch = journal[k].patch
      /\ journal'[i].state = "committed"
  BY <1>0, Marking
<1>2. Open' = {}
  <2>1. ASSUME NEW k \in DOMAIN journal, k # i PROVE journal[k].state # "prepared"
    BY <2>1, OpenIsOne DEF SharedInv, Open
  <2> QED
    BY <1>1, <2>1 DEF Open
<1>3. OpenIsLast' /\ OpenAccounts'
  BY <1>2 DEF OpenIsLast, OpenAccounts
<1>r. \A k \in DOMAIN journal : journal[k].rev \in Nat
  BY JournalFacts DEF Entry
<1>4. JournalUpToHead'
  <2>1. head'.rev # 0 /\ head'.rev <= Len(journal) + 1
    BY <1>0
  <2>2. ASSUME NEW k \in DOMAIN journal
        PROVE  /\ journal'[k].rev <= head'.rev /\ journal'[k].rev <= k
               /\ journal'[k].state = "committed" => journal'[k].rev < head'.rev
               /\ journal'[k].rev # head'.rev
    BY <1>0, <1>1, <1>r DEF SharedInv, JournalUpToHead
  <2> QED
    BY <1>1, <2>1, <2>2 DEF JournalUpToHead
<1>5. FilesAccountedFor'
  BY DEF FilesAccountedFor
<1>a. \A k \in DOMAIN journal : After(journal[k])' = After(journal[k])
  BY <1>1 DEF After, Touched
<1>6. RevisionsAreCommits'
  <2> SUFFICES ASSUME NEW r \in 1..(head'.rev - 1)
               PROVE  \E k \in DOMAIN journal :
                         /\ journal'[k].state = "committed" /\ journal[k].rev = r
                         /\ r + 1 = head'.rev => After(journal[k]) = head'.tree
                         /\ \A l \in DOMAIN journal :
                               /\ l # k /\ journal'[l].state = "committed"
                                    => journal[l].rev # r
                               /\ journal[l].rev = r + 1
                                    => journal[l].from = After(journal[k])
    BY <1>1, <1>a DEF RevisionsAreCommits
  <2>1. CASE r = head.rev
    <3>1. ASSUME NEW l \in DOMAIN journal
          PROVE  /\ l # i /\ journal'[l].state = "committed" => journal[l].rev # r
                 /\ journal[l].rev # r + 1
      BY <1>0, <1>1, <1>r, <2>1 DEF SharedInv, JournalUpToHead
    <3> QED
      BY <1>0, <1>1, <2>1, <3>1
  <2>2. CASE r # head.rev
    <3>1. r \in 1..(head.rev - 1) /\ r + 1 # head'.rev
      BY <1>0, <2>2
    <3>2. PICK k \in DOMAIN journal :
             /\ journal[k].state = "committed" /\ journal[k].rev = r
             /\ \A l \in DOMAIN journal :
                   /\ l # k /\ journal[l].state = "committed" => journal[l].rev # r
                   /\ journal[l].rev = r + 1 => journal[l].from = After(journal[k])
      BY <3>1 DEF SharedInv, RevisionsAreCommits
    <3>3. k # i /\ journal'[k].state = "committed"
      BY <1>0, <1>1, <3>2
    <3>4. ASSUME NEW l \in DOMAIN journal, l # k, journal'[l].state = "committed"
          PROVE  journal[l].rev # r
      BY <1>0, <1>1, <2>2, <3>2, <3>4
    <3> QED
      BY <3>1, <3>2, <3>3, <3>4
  <2> QED
    BY <2>1, <2>2
<1>7. head'.rev \in 1..(MaxEdits + 1)
  BY <1>0
<1> QED
  BY <1>2, <1>3, <1>4, <1>5, <1>6, <1>7 DEF SharedInv

\* A mutation is journalled while none is open and the files are those of the head.
LEMMA SharedPrepared ==
    ASSUME StateTyped, SharedInv, Open = {}, head.rev > 0, NEW entry \in Entry,
           entry.state = "prepared", entry.rev = head.rev, entry.from = head.tree,
           BackupOf(entry) \in backups, journal' = Append(journal, entry),
           UNCHANGED <<tree, foreign, head, backups>>,
           \A f \in Files \ foreign : tree[f] = head.tree[f]
    PROVE  SharedInv' /\ Open' = {Len(journal) + 1}
<1> DEFINE last == Len(journal) + 1
<1>0. /\ Len(journal) \in Nat /\ DOMAIN journal = 1..Len(journal) /\ head.rev \in Nat
      /\ \A k \in DOMAIN journal : journal[k].rev \in Nat
  BY JournalFacts DEF StateTyped, HeadRow, Entry
<1>1. /\ Len(journal') = last /\ DOMAIN journal' = 1..last
      /\ \A k \in DOMAIN journal : journal'[k] = journal[k]
      /\ journal'[last] = entry
  BY Appending
<1>k. ASSUME NEW k \in DOMAIN journal' PROVE k \in DOMAIN journal \/ k = last
  BY <1>0, <1>1
<1>l. last \in DOMAIN journal' /\ last \notin DOMAIN journal /\ last \in Nat
      /\ DOMAIN journal \subseteq DOMAIN journal'
  BY <1>0, <1>1
<1> HIDE DEF last
<1>2. Open' = {last}
  BY <1>1, <1>k, <1>l DEF Open
<1>3. OpenIsLast' /\ OpenAccounts'
  BY <1>1, <1>2 DEF OpenIsLast, OpenAccounts, BackupOf
<1>4. JournalUpToHead'
  <2>1. head.rev # 0 /\ head.rev <= last /\ last + 1 \in Nat /\ last <= last + 1
    BY <1>0 DEF SharedInv, JournalUpToHead, last
  <2>2. ASSUME NEW k \in DOMAIN journal'
        PROVE  /\ journal'[k].rev <= head.rev /\ journal'[k].rev <= k
               /\ journal'[k].state = "committed" => journal'[k].rev < head.rev
               /\ journal'[k].rev = head.rev => journal'[k].from = head.tree
    BY <1>0, <1>1, <1>k, <2>1 DEF SharedInv, JournalUpToHead
  <2> QED
    BY <1>0, <1>1, <1>l, <2>1, <2>2 DEF JournalUpToHead
<1>5. FilesAccountedFor'
  BY DEF FilesAccountedFor
<1>a. \A k \in DOMAIN journal' : After(journal[k])' = After(journal'[k])
  BY DEF After, Touched
<1>6. RevisionsAreCommits'
  <2> SUFFICES ASSUME NEW r \in 1..(head.rev - 1)
               PROVE  \E k \in DOMAIN journal' :
                         /\ journal'[k].state = "committed" /\ journal'[k].rev = r
                         /\ r + 1 = head.rev => After(journal'[k]) = head.tree
                         /\ \A l \in DOMAIN journal' :
                               /\ l # k /\ journal'[l].state = "committed"
                                    => journal'[l].rev # r
                               /\ journal'[l].rev = r + 1
                                    => journal'[l].from = After(journal'[k])
    BY <1>a DEF RevisionsAreCommits
  <2>1. PICK k \in DOMAIN journal :
             /\ journal[k].state = "committed" /\ journal[k].rev = r
             /\ r + 1 = head.rev => After(journal[k]) = head.tree
             /\ \A l \in DOMAIN journal :
                   /\ l # k /\ journal[l].state = "committed" => journal[l].rev # r
                   /\ journal[l].rev = r + 1 => journal[l].from = After(journal[k])
    BY DEF SharedInv, RevisionsAreCommits
  <2>2. k \in DOMAIN journal' /\ journal'[k] = journal[k]
    BY <1>1, <1>l
  <2>3. ASSUME NEW l \in DOMAIN journal'
        PROVE  /\ l # k /\ journal'[l].state = "committed" => journal'[l].rev # r
               /\ journal'[l].rev = r + 1 => journal'[l].from = After(journal[k])
    BY <1>1, <1>k, <2>1
  <2> QED
    BY <2>1, <2>2, <2>3
<1> QED
  BY <1>2, <1>3, <1>4, <1>5, <1>6 DEF SharedInv, last

\* A workspace gets the head for the files it has.
LEMMA SharedBegun ==
    ASSUME StateTyped, SharedInv, head.rev = 0, head'.rev = 1, head'.tree = tree,
           UNCHANGED <<tree, journal>>
    PROVE  SharedInv' /\ Open' = {} /\ Open = {}
<1>1. journal = <<>> /\ Len(journal) = 0 /\ DOMAIN journal = {}
  BY DEF SharedInv, JournalUpToHead
<1>2. Open' = {} /\ Open = {}
  BY <1>1 DEF Open
<1> QED
  BY <1>1, <1>2 DEF SharedInv, OpenIsLast, JournalUpToHead, OpenAccounts,
     FilesAccountedFor, RevisionsAreCommits

\* A touched path that is neither as before the open mutation nor as after it was
\* changed from outside.
LEMMA UnknownIsForeign ==
    ASSUME SharedInv, NEW i \in Open, Touched(journal[i]) \subseteq Files,
           ~TouchedPathsKnown(journal[i])
    PROVE  foreign # {}
  BY DEF SharedInv, OpenIsLast, OpenAccounts, TouchedPathsKnown, Before

-----------------------------------------------------------------------------
\* One lemma per step of an editor.

\* What an editor at work knows.
LEMMA AtWork ==
    ASSUME WorkspaceInv, NEW e \in Editors
    PROVE  /\ StateTyped /\ EditorsTyped /\ SharedInv /\ EditorInv(e)
           /\ my[e] \in Mine /\ head \in HeadRow
           /\ head.rev \in Nat /\ head.tree \in Trees /\ head.token \in 0..MaxClaims
           /\ head.lease \in 0..LeaseTicks
           /\ Len(journal) \in Nat /\ DOMAIN journal = 1..Len(journal)
  BY JournalFacts DEF WorkspaceInv, StateTyped, EditorsTyped, HeadRow

\* The others being idle, the editor is all there is to look at.
LEMMA OneAtWork ==
    ASSUME NEW e \in Editors, \A q \in Editors : q # e => pc'[q] = "idle",
           StateTyped', EditorsTyped', SharedInv', EditorInv(e)'
    PROVE  WorkspaceInv'
<1>1. ASSUME NEW q \in Editors, q # e PROVE EditorInv(q)'
  BY <1>1 DEF EditorInv, InPlace, Preparing, WorkingOn, Written, Working, Ahead
<1> QED
  BY <1>1 DEF WorkspaceInv

\* After it has left, nobody is.
LEMMA NoneAtWork ==
    ASSUME \A q \in Editors : pc'[q] = "idle", StateTyped', EditorsTyped', SharedInv'
    PROVE  WorkspaceInv'
<1>1. ASSUME NEW q \in Editors PROVE EditorInv(q)'
  BY <1>1 DEF EditorInv, InPlace, Preparing, WorkingOn, Written, Working, Ahead
<1> QED
  BY <1>1 DEF WorkspaceInv

\* The lock is taken.
LEMMA BeginKeeps ==
    ASSUME WorkspaceInv, NEW e \in Editors, Begin(e) PROVE WorkspaceInv'
<1>0. /\ StateTyped /\ EditorsTyped /\ SharedInv /\ head \in HeadRow /\ head.rev \in Nat
      /\ UNCHANGED <<tree, stray, journal, backups, my, outside, faults>>
      /\ lock = NoEditor /\ lock' = e /\ pc' = [pc EXCEPT ![e] = "recover"]
      /\ "recover" \in PC \ {"idle"}
  BY AtWork DEF Begin, PC
<1>1. /\ EditorsTyped' /\ pc'[e] = "recover" /\ my'[e] = my[e]
      /\ \A q \in Editors : q # e => pc'[q] = "idle"
  BY <1>0, EditorsAssumption DEF EditorsTyped
<1>2. CASE head.rev = 0
  <2>1. /\ head'.rev = 1 /\ head'.tree = tree /\ head' = [head EXCEPT !.rev = 1, !.tree = tree]
        /\ foreign' = {}
    BY <1>0, <1>2 DEF Begin, HeadRow
  <2>2. SharedInv'
    BY <1>0, <1>2, <2>1, SharedBegun
  <2>3. tree \in Trees /\ 1 \in 0..(MaxEdits + 1)
    BY <1>0, BoundsAssumption DEF StateTyped
  <2>4. head' \in HeadRow
    BY <1>0, <2>1, <2>3 DEF HeadRow
  <2>5. StateTyped'
    BY <1>0, <2>1, <2>4 DEF StateTyped
  <2>6. EditorInv(e)'
    BY <1>1, <2>1 DEF EditorInv, InPlace, Preparing, WorkingOn, Written, Working, Ahead
  <2> QED
    BY <1>1, <2>2, <2>5, <2>6, OneAtWork
<1>3. CASE head.rev # 0
  <2>1. UNCHANGED <<head, foreign>>
    BY <1>3 DEF Begin
  <2>2. SharedInv'
    BY <1>0, <2>1, SharedQuiet
  <2>3. StateTyped'
    BY <1>0, <2>1 DEF StateTyped
  <2>4. EditorInv(e)'
    BY <1>0, <1>1, <1>3, <2>1
       DEF EditorInv, InPlace, Preparing, WorkingOn, Written, Working, Ahead
  <2> QED
    BY <1>1, <2>2, <2>3, <2>4, OneAtWork
<1> QED
  BY <1>2, <1>3

\* An open journal is settled, or its files are to be put back.
LEMMA SettleKeeps ==
    ASSUME WorkspaceInv, NEW e \in Editors, SettleJournal(e) PROVE WorkspaceInv'
<1>0. /\ StateTyped /\ EditorsTyped /\ SharedInv /\ EditorInv(e) /\ my[e] \in Mine
      /\ UNCHANGED <<tree, stray, foreign, head, outside, faults>>
      /\ pc[e] = "recover" /\ lock = e
      /\ head.rev > 0
  BY AtWork DEF SettleJournal, files, EditorsTyped, EditorInv, InPlace
<1>1. PICK i \in Open :
         \/ RolledBack(i) /\ UNCHANGED procs
         \/ /\ Conflicted(i)
            /\ my' = [my EXCEPT ![e].conflicted = TRUE]
            /\ UNCHANGED <<lock, pc>>
         \/ /\ my' = [my EXCEPT ![e].at = i, ![e].todo = Touched(journal[i]),
                                ![e].back = "recover"]
            /\ pc' = [pc EXCEPT ![e] = "undo"]
            /\ UNCHANGED <<lock, journal, backups>>
  BY DEF SettleJournal
<1>l. Len(journal) <= MaxEdits /\ MaxEdits \in Nat
  BY <1>0, BoundsAssumption DEF StateTyped
<1>i. /\ i \in DOMAIN journal /\ journal[i].state = "prepared" /\ i \in 0..MaxEdits
      /\ Touched(journal[i]) \subseteq Files
  BY <1>0, <1>l, JournalFacts DEF Open
<1>2. CASE RolledBack(i) /\ UNCHANGED procs
  <2>1. /\ Holds(journal[i].from) /\ Mark(i, "rolled_back") /\ backups' \subseteq backups
        /\ UNCHANGED <<lock, pc, my>>
    BY <1>2 DEF RolledBack, procs
  <2>2. SharedInv'
    BY <1>0, <2>1, SharedMarked
  <2>3. journal' \in Seq(Entry) /\ Len(journal') = Len(journal)
    BY <1>0, <1>i, <2>1, Marking DEF JournalState
  <2>4. StateTyped' /\ EditorsTyped' /\ pc'[e] = "recover"
        /\ \A q \in Editors : q # e => pc'[q] = "idle"
    BY <1>0, <2>1, <2>3 DEF StateTyped, EditorsTyped
  <2>5. EditorInv(e)'
    BY <1>0, <2>4 DEF EditorInv, InPlace, Preparing, WorkingOn, Written, Working, Ahead
  <2> QED
    BY <2>2, <2>4, <2>5, OneAtWork
<1>3. CASE Conflicted(i) /\ my' = [my EXCEPT ![e].conflicted = TRUE] /\ UNCHANGED <<lock, pc>>
  <2>1. Mark(i, "conflicted") /\ UNCHANGED backups
    BY <1>3 DEF Conflicted
  <2>2. SharedInv'
    BY <1>0, <2>1, SharedMarked
  <2>3. journal' \in Seq(Entry) /\ Len(journal') = Len(journal)
    BY <1>0, <1>i, <2>1, Marking DEF JournalState
  <2>4. my' \in [Editors -> Mine]
    <3>1. [my[e] EXCEPT !.conflicted = TRUE] \in Mine
      BY <1>0 DEF Mine
    <3> QED
      BY <1>0, <1>3, <3>1 DEF EditorsTyped
  <2>5. StateTyped' /\ EditorsTyped' /\ pc'[e] = "recover"
        /\ \A q \in Editors : q # e => pc'[q] = "idle"
    BY <1>0, <1>3, <2>1, <2>3, <2>4 DEF StateTyped, EditorsTyped
  <2>6. EditorInv(e)'
    BY <1>0, <2>5 DEF EditorInv, InPlace, Preparing, WorkingOn, Written, Working, Ahead
  <2> QED
    BY <2>2, <2>5, <2>6, OneAtWork
<1>4. CASE /\ my' = [my EXCEPT ![e].at = i, ![e].todo = Touched(journal[i]),
                               ![e].back = "recover"]
           /\ pc' = [pc EXCEPT ![e] = "undo"]
           /\ UNCHANGED <<lock, journal, backups>>
  <2> DEFINE new == [my[e] EXCEPT !.at = i, !.todo = Touched(journal[i]),
                                  !.back = "recover"]
  <2>1. /\ new \in Mine /\ new.at = i /\ new.todo = Touched(journal[i])
        /\ new.back = "recover"
    <3>1. Touched(journal[i]) \in SUBSET Files
      BY <1>i
    <3> HIDE DEF Touched
    <3> QED
      BY <1>0, <1>i, <3>1 DEF Mine
  <2>2. my' = [my EXCEPT ![e] = new] /\ "undo" \in PC \ {"idle"}
    BY <1>0, <1>4 DEF EditorsTyped, PC
  <2> HIDE DEF new
  <2>3. /\ EditorsTyped' /\ pc'[e] = "undo" /\ my'[e] = new
        /\ \A q \in Editors : q # e => pc'[q] = "idle"
    BY <1>0, <1>4, <2>1, <2>2, Moves
  <2>4. SharedInv' /\ StateTyped'
    BY <1>0, <1>4, SharedQuiet DEF StateTyped
  <2>5. EditorInv(e)'
    BY <1>0, <1>4, <1>i, <2>1, <2>3
       DEF EditorInv, InPlace, Preparing, WorkingOn, Written, Working, Ahead, PC, Touched
  <2> QED
    BY <2>3, <2>4, <2>5, OneAtWork
<1> QED
  BY <1>1, <1>2, <1>3, <1>4

\* None is open: the call ends, or looks at the files.
LEMMA RecoveredKeeps ==
    ASSUME WorkspaceInv, NEW e \in Editors, Recovered(e) PROVE WorkspaceInv'
<1>0. /\ StateTyped /\ EditorsTyped /\ SharedInv /\ EditorInv(e) /\ my[e] \in Mine
      /\ UNCHANGED <<tree, stray, foreign, head, journal, outside, faults>>
      /\ pc[e] = "recover" /\ Open = {} /\ backups' \subseteq backups
      /\ head.rev > 0
  BY AtWork DEF Recovered, files, EditorInv, InPlace
<1>1. SharedInv' /\ StateTyped' /\ Open' = {}
  BY <1>0, SharedQuiet DEF StateTyped
<1>2. CASE Leave(e)
  BY <1>0, <1>1, <1>2, LeaveMoves, NoneAtWork
<1>3. CASE Goto(e, "look")
  <2>1. /\ EditorsTyped' /\ pc'[e] = "look" /\ my'[e] = my[e]
        /\ \A q \in Editors : q # e => pc'[q] = "idle"
    BY <1>0, <1>3, GotoMoves DEF PC
  <2>2. EditorInv(e)'
    BY <1>0, <1>1, <2>1
       DEF EditorInv, InPlace, Preparing, WorkingOn, Written, Working, Ahead
  <2> QED
    BY <1>1, <2>1, <2>2, OneAtWork
<1> QED
  BY <1>2, <1>3 DEF Recovered

\* A file is put back.
LEMMA UndoKeeps ==
    ASSUME WorkspaceInv, NEW e \in Editors, UndoFile(e) PROVE WorkspaceInv'
<1> DEFINE i == my[e].at
           j == journal[i]
<1>0. /\ StateTyped /\ EditorsTyped /\ SharedInv /\ EditorInv(e) /\ my[e] \in Mine
      /\ UNCHANGED <<stray, head, journal, backups, lock, pc, outside, faults>>
      /\ pc[e] = "undo" /\ head.rev > 0
  BY AtWork DEF UndoFile, WriteFile, EditorInv, InPlace
<1>1. PICK f \in my[e].todo : /\ WriteFile(f, Before(j, f))
                              /\ my' = [my EXCEPT ![e].todo = my[e].todo \ {f}]
  BY DEF UndoFile
<1>i. /\ i \in DOMAIN journal /\ j.state = "prepared" /\ i \in Open
      /\ my[e].todo \subseteq Touched(j) /\ Touched(j) \subseteq Files
      /\ j.from \in Trees /\ j.from = head.tree /\ my[e].back # "none"
  BY <1>0, JournalFacts DEF EditorInv, WorkingOn, Working, Open, Entry, SharedInv, OpenIsLast
<1>2. /\ f \in Files /\ tree' = [tree EXCEPT ![f] = head.tree[f]]
      /\ foreign' = foreign \ {f} /\ head.tree[f] \in Values \cup {NoFile}
      /\ tree \in Trees /\ Before(j, f) = head.tree[f]
  BY <1>0, <1>1, <1>i DEF WriteFile, Before, Trees, StateTyped
<1> DEFINE new == [my[e] EXCEPT !.todo = my[e].todo \ {f}]
<1>3. /\ new \in Mine /\ new.todo = my[e].todo \ {f} /\ new.at = i
      /\ new.back = my[e].back
  BY <1>0 DEF Mine
<1>4. my' = [my EXCEPT ![e] = new]
  BY <1>0, <1>1 DEF EditorsTyped
<1> HIDE DEF new, i, j
<1>5. /\ EditorsTyped' /\ pc'[e] = "undo" /\ my'[e] = new
      /\ \A q \in Editors : q # e => pc'[q] = "idle"
  BY <1>0, <1>3, <1>4, EditorsAssumption DEF EditorsTyped
<1>6. SharedInv'
  <2>1. \A g \in Files \ foreign' :
           \/ g \notin foreign /\ tree'[g] = tree[g]
           \/ tree'[g] = head.tree[g]
    BY <1>2 DEF Trees
  <2> QED
    BY <1>0, <2>1, SharedQuiet
<1>7. StateTyped'
  <2>1. tree' \in Trees
    BY <1>2 DEF Trees
  <2> QED
    BY <1>0, <1>2, <2>1 DEF StateTyped
<1>8. EditorInv(e)'
  <2>1. InPlace(e)' /\ Preparing(e)' /\ WorkingOn(e)'
    BY <1>0, <1>3, <1>5, <1>i DEF InPlace, Preparing, WorkingOn, Working, Ahead, i, j, Touched
  <2>2. Written(e)'
    <3>1. \A g \in Touched(j) \ (my[e].todo \cup foreign) : tree[g] = Before(j, g)
      BY <1>0 DEF EditorInv, Written, i, j
    <3>2. \A g \in Touched(j) \ (new.todo \cup foreign') : tree'[g] = Before(j, g)
      BY <1>2, <1>3, <1>i, <3>1 DEF Trees
    <3> QED
      BY <1>0, <1>3, <1>5, <3>2 DEF Written, i, j, Touched, Before
  <2> QED
    BY <2>1, <2>2 DEF EditorInv
<1> QED
  BY <1>5, <1>6, <1>7, <1>8, OneAtWork

\* All are back, or one is not as it was.
LEMMA UndoneKeeps ==
    ASSUME WorkspaceInv, NEW e \in Editors, Undone(e) PROVE WorkspaceInv'
<1> DEFINE i == my[e].at
<1>0. /\ StateTyped /\ EditorsTyped /\ SharedInv /\ EditorInv(e) /\ my[e] \in Mine
      /\ UNCHANGED <<tree, stray, foreign, head, lock, outside, faults>>
      /\ pc[e] = "undo" /\ head.rev > 0 /\ lock = e
      /\ pc' = [pc EXCEPT ![e] = my[e].back]
  BY AtWork DEF Undone, files, EditorInv, InPlace, EditorsTyped
<1>i. /\ i \in DOMAIN journal /\ i \in Open
      /\ my[e].back \in {"recover", "release"}
  BY <1>0 DEF EditorInv, WorkingOn, Working, Open, Mine
<1>b. my[e].back \in PC \ {"idle"}
  BY <1>i DEF PC
<1> DEFINE new == [my[e] EXCEPT !.at = 0, !.back = "none"]
           over == [my[e] EXCEPT !.at = 0, !.back = "none", !.conflicted = TRUE]
<1>1. new \in Mine /\ over \in Mine
  <2>1. 0 \in 0..MaxEdits
    BY BoundsAssumption
  <2> QED
    BY <1>0, <2>1 DEF Mine
<1>2. /\ \/ my' = [my EXCEPT ![e] = new] /\ RolledBack(i)
         \/ my' = [my EXCEPT ![e] = over] /\ Conflicted(i)
  BY <1>0 DEF Undone, EditorsTyped
<1> HIDE DEF new, over, i
<1>3. /\ EditorsTyped' /\ pc'[e] \in {"recover", "release"}
      /\ \A q \in Editors : q # e => pc'[q] = "idle"
  <2>0. pc[e] # "idle" /\ lock' = e
    BY <1>0
  <2>1. CASE my' = [my EXCEPT ![e] = new]
    BY <1>0, <1>1, <1>i, <1>b, <2>0, <2>1, Moves
  <2>2. CASE my' = [my EXCEPT ![e] = over]
    BY <1>0, <1>1, <1>i, <1>b, <2>0, <2>2, Moves
  <2> QED
    BY <1>2, <2>1, <2>2
<1>4. /\ backups' \subseteq backups
      /\ \E state \in {"rolled_back", "conflicted"} :
            Mark(i, state) /\ (state = "rolled_back" => Holds(journal[i].from))
  BY <1>2 DEF RolledBack, Conflicted
<1>5. /\ SharedInv' /\ Open' = {}
      /\ journal' \in Seq(Entry) /\ Len(journal') = Len(journal)
  BY <1>0, <1>i, <1>4, SharedMarked, Marking DEF JournalState
<1>6. StateTyped'
  BY <1>0, <1>4, <1>5 DEF StateTyped
<1>7. EditorInv(e)'
  BY <1>0, <1>3, <1>5
     DEF EditorInv, InPlace, Preparing, WorkingOn, Written, Working, Ahead
<1> QED
  BY <1>3, <1>5, <1>6, <1>7, OneAtWork

\* The files are compared with the head, and a patch is chosen.
LEMMA LookKeeps ==
    ASSUME WorkspaceInv, NEW e \in Editors, Look(e) PROVE WorkspaceInv'
<1>0. /\ StateTyped /\ EditorsTyped /\ SharedInv /\ EditorInv(e) /\ my[e] \in Mine
      /\ UNCHANGED <<tree, stray, head, journal, backups, outside, faults>>
      /\ pc[e] = "look" /\ head.rev > 0 /\ Open = {} /\ lock = e
  BY AtWork DEF Look, EditorInv, InPlace, EditorsTyped, PC, Working
<1>1. CASE Leave(e) /\ UNCHANGED foreign
  <2>1. SharedInv' /\ StateTyped'
    BY <1>0, <1>1, SharedQuiet DEF StateTyped
  <2> QED
    BY <1>0, <1>1, <2>1, LeaveMoves, NoneAtWork
<1>2. CASE /\ Holds(head.tree) /\ Len(journal) < MaxEdits /\ head.token < MaxClaims
           /\ \E patch \in Patches : my' = [my EXCEPT ![e].patch = patch]
           /\ pc' = [pc EXCEPT ![e] = "claim"] /\ foreign' = {} /\ UNCHANGED lock
  <2>1. PICK patch \in Patches : my' = [my EXCEPT ![e].patch = patch]
    BY <1>2
  <2> DEFINE new == [my[e] EXCEPT !.patch = patch]
  <2>2. new \in Mine /\ new.patch = patch /\ my' = [my EXCEPT ![e] = new]
    BY <1>0, <2>1 DEF Mine, EditorsTyped
  <2> HIDE DEF new
  <2>3. /\ EditorsTyped' /\ pc'[e] = "claim" /\ my'[e] = new
        /\ \A q \in Editors : q # e => pc'[q] = "idle"
    <3>1. "claim" \in PC \ {"idle"} /\ pc[e] # "idle" /\ lock' = e
      BY <1>0, <1>2 DEF PC
    <3> QED
      BY <1>0, <1>2, <2>2, <3>1, Moves
  <2>4. tree = head.tree
    BY <1>2 DEF Holds
  <2>5. SharedInv' /\ Open' = {}
    BY <1>0, <2>4, SharedQuiet
  <2>6. StateTyped'
    BY <1>0, <1>2 DEF StateTyped
  <2>7. EditorInv(e)'
    BY <1>0, <1>2, <2>2, <2>3, <2>4, <2>5
       DEF EditorInv, InPlace, Preparing, WorkingOn, Written, Working, Ahead
  <2> QED
    BY <2>3, <2>5, <2>6, <2>7, OneAtWork
<1> QED
  BY <1>1, <1>2 DEF Look

\* What holds of an editor that has not written its journal yet.
LEMMA AheadFacts ==
    ASSUME WorkspaceInv, NEW e \in Editors, pc[e] \in Ahead
    PROVE  /\ head.rev > 0 /\ Open = {} /\ lock = e /\ pc[e] # "idle"
           /\ my[e].patch \in Patches /\ Len(journal) < MaxEdits
           /\ \A f \in Files \ foreign : tree[f] = head.tree[f]
  BY AtWork DEF EditorInv, InPlace, Preparing, Working, PC, EditorsTyped, Ahead

\* The lease is claimed.
LEMMA ClaimKeeps ==
    ASSUME WorkspaceInv, NEW e \in Editors, ClaimWriter(e) PROVE WorkspaceInv'
<1>0. /\ StateTyped /\ EditorsTyped /\ SharedInv /\ EditorInv(e) /\ my[e] \in Mine
      /\ UNCHANGED <<tree, stray, foreign, journal, backups, outside, faults>>
      /\ pc[e] = "claim" /\ head \in HeadRow /\ head.token \in 0..MaxClaims
      /\ head.token < MaxClaims /\ pc[e] \in Ahead
  BY AtWork DEF ClaimWriter, files, EditorInv, Preparing, Ahead
<1>a. /\ head.rev > 0 /\ Open = {} /\ lock = e /\ pc[e] # "idle"
      /\ my[e].patch \in Patches /\ Len(journal) < MaxEdits
      /\ \A f \in Files \ foreign : tree[f] = head.tree[f]
  BY <1>0, AheadFacts
<1>1. CASE head.lease # 0
  <2>1. Leave(e) /\ UNCHANGED head
    BY <1>1 DEF ClaimWriter
  <2>2. SharedInv' /\ StateTyped'
    BY <1>0, <2>1, SharedQuiet DEF StateTyped
  <2> QED
    BY <1>0, <1>a, <2>1, <2>2, LeaveMoves, NoneAtWork
<1>2. CASE head.lease = 0
  <2> DEFINE new == [my[e] EXCEPT !.token = head.token + 1]
  <2>1. /\ head' = [head EXCEPT !.token = head.token + 1, !.lease = LeaseTicks]
        /\ my' = [my EXCEPT ![e].token = head.token + 1]
        /\ pc' = [pc EXCEPT ![e] = "fence"] /\ UNCHANGED lock
    BY <1>2 DEF ClaimWriter
  <2>2. /\ head.token + 1 \in 0..MaxClaims /\ head.token + 1 > 0
        /\ LeaseTicks \in 0..LeaseTicks
    BY <1>0, BoundsAssumption
  <2>3. head' \in HeadRow /\ head'.rev = head.rev /\ head'.tree = head.tree
    BY <1>0, <2>1, <2>2 DEF HeadRow
  <2>4. /\ new \in Mine /\ new.token = head.token + 1 /\ new.patch = my[e].patch
        /\ my' = [my EXCEPT ![e] = new]
    BY <1>0, <2>1, <2>2 DEF Mine, EditorsTyped
  <2> HIDE DEF new
  <2>5. /\ EditorsTyped' /\ pc'[e] = "fence" /\ my'[e] = new
        /\ \A q \in Editors : q # e => pc'[q] = "idle"
    <3>1. /\ "fence" \in PC \ {"idle"} /\ lock' = e /\ pc[e] # "idle" /\ EditorsTyped
          /\ pc' = [pc EXCEPT ![e] = "fence"] /\ my' = [my EXCEPT ![e] = new]
          /\ new \in Mine
      BY <1>0, <1>a, <2>1, <2>4 DEF PC
    <3> QED
      BY <3>1, Moves
  <2>6. SharedInv' /\ Open' = {}
    BY <1>0, <1>a, <2>3, SharedQuiet
  <2>7. StateTyped'
    BY <1>0, <2>3 DEF StateTyped
  <2>8. EditorInv(e)'
    BY <1>0, <1>a, <2>2, <2>3, <2>4, <2>5, <2>6
       DEF EditorInv, InPlace, Preparing, WorkingOn, Written, Working, Ahead
  <2> QED
    BY <2>5, <2>6, <2>7, <2>8, OneAtWork
<1> QED
  BY <1>1, <1>2

\* The files are compared once more, and the backup is written.
LEMMA FenceBackupKeeps ==
    ASSUME WorkspaceInv, NEW e \in Editors, CheckFence(e) \/ WriteBackup(e)
    PROVE  WorkspaceInv'
<1>0. /\ StateTyped /\ EditorsTyped /\ SharedInv /\ EditorInv(e)
      /\ UNCHANGED <<tree, stray, foreign, head, journal, outside, faults>>
      /\ pc[e] \in {"fence", "backup"} /\ backups \subseteq backups'
      /\ my[e].token > 0 /\ pc[e] \in Ahead
  BY AtWork DEF CheckFence, WriteBackup, files, EditorInv, Preparing, Ahead
<1>a. /\ head.rev > 0 /\ Open = {} /\ lock = e /\ pc[e] # "idle"
      /\ my[e].patch \in Patches /\ Len(journal) < MaxEdits
      /\ \A f \in Files \ foreign : tree[f] = head.tree[f]
  BY <1>0, AheadFacts
<1>1. SharedInv' /\ Open' = {}
  BY <1>0, <1>a, SharedQuiet
<1>2. StateTyped'
  <2>1. head.rev \in 1..(MaxEdits + 1)
    BY <1>0, <1>a DEF StateTyped, HeadRow
  <2>2. [rev |-> head.rev, patch |-> my[e].patch] \in Backups
    BY <1>a, <2>1 DEF Backups
  <2>3. backups' \subseteq Backups
    BY <1>0, <2>2 DEF CheckFence, WriteBackup, StateTyped
  <2> QED
    BY <1>0, <2>3 DEF StateTyped
<1>3. \/ Goto(e, "backup") \/ Goto(e, "release")
      \/ WriteBackup(e) /\ Goto(e, "prepare")
  BY DEF CheckFence, WriteBackup
<1>4. ASSUME NEW place \in {"backup", "release", "prepare"}, Goto(e, place),
             place = "prepare" => WriteBackup(e)
      PROVE  WorkspaceInv'
  <2>1. /\ EditorsTyped' /\ pc'[e] = place /\ my'[e] = my[e]
        /\ \A q \in Editors : q # e => pc'[q] = "idle"
    BY <1>0, <1>a, <1>4, GotoMoves DEF PC
  <2>2. place = "prepare" => [rev |-> head.rev, patch |-> my[e].patch] \in backups'
    BY <1>4 DEF WriteBackup
  <2>3. EditorInv(e)'
    BY <1>0, <1>a, <1>1, <2>1, <2>2
       DEF EditorInv, InPlace, Preparing, WorkingOn, Written, Working, Ahead
  <2> QED
    BY <1>1, <1>2, <2>1, <2>3, OneAtWork
<1> QED
  BY <1>3, <1>4

\* The journal is written.
LEMMA PrepareKeeps ==
    ASSUME WorkspaceInv, NEW e \in Editors, Prepare(e) PROVE WorkspaceInv'
<1>0. /\ StateTyped /\ EditorsTyped /\ SharedInv /\ EditorInv(e) /\ my[e] \in Mine
      /\ UNCHANGED <<tree, stray, foreign, head, outside, faults>>
      /\ pc[e] = "prepare" /\ pc[e] \in Ahead /\ my[e].token \in 1..MaxClaims
      /\ [rev |-> head.rev, patch |-> my[e].patch] \in backups
      /\ head \in HeadRow /\ head.tree \in Trees /\ head.rev \in Nat
  BY AtWork DEF Prepare, files, EditorInv, Preparing, Ahead, Mine
<1>a. /\ head.rev > 0 /\ Open = {} /\ lock = e /\ pc[e] # "idle"
      /\ my[e].patch \in Patches /\ Len(journal) < MaxEdits
      /\ \A f \in Files \ foreign : tree[f] = head.tree[f]
  BY <1>0, AheadFacts
<1>1. CASE ~Fenced(e)
  <2>1. Goto(e, "release") /\ UNCHANGED journal /\ backups' \subseteq backups
    BY <1>1 DEF Prepare
  <2>2. SharedInv' /\ Open' = {}
    BY <1>0, <1>a, <2>1, SharedQuiet
  <2>3. StateTyped'
    BY <1>0, <2>1 DEF StateTyped
  <2>4. /\ EditorsTyped' /\ pc'[e] = "release" /\ my'[e] = my[e]
        /\ \A q \in Editors : q # e => pc'[q] = "idle"
    BY <1>0, <1>a, <2>1, GotoMoves DEF PC
  <2>5. EditorInv(e)'
    BY <1>0, <1>a, <2>2, <2>4
       DEF EditorInv, InPlace, Preparing, WorkingOn, Written, Working, Ahead
  <2> QED
    BY <2>2, <2>3, <2>4, <2>5, OneAtWork
<1>2. CASE Fenced(e)
  <2> DEFINE entry == [state |-> "prepared", rev |-> head.rev, from |-> head.tree,
                       patch |-> my[e].patch, token |-> my[e].token]
             last == Len(journal) + 1
             new == [my[e] EXCEPT !.at = last, !.todo = DOMAIN my[e].patch]
  <2>1. /\ journal' = Append(journal, entry) /\ UNCHANGED <<lock, backups>>
        /\ my' = [my EXCEPT ![e].at = last, ![e].todo = DOMAIN my[e].patch]
        /\ pc' = [pc EXCEPT ![e] = "apply"]
    BY <1>2 DEF Prepare
  <2>n. Len(journal) \in Nat /\ MaxEdits \in Nat
    BY <1>0, JournalFacts, BoundsAssumption
  <2>2. entry \in Entry
    <3>1. head.rev \in 1..(MaxEdits + 1)
      BY <1>0, <1>a DEF HeadRow
    <3> QED
      BY <1>0, <1>a, <3>1 DEF Entry, JournalState
  <2>3. BackupOf(entry) \in backups
    BY <1>0 DEF BackupOf
  <2>4. SharedInv' /\ Open' = {last}
    <3> HIDE DEF entry
    <3>1. /\ entry.state = "prepared" /\ entry.rev = head.rev /\ entry.from = head.tree
      BY DEF entry
    <3> QED
      BY <1>0, <1>a, <2>1, <2>2, <2>3, <3>1, SharedPrepared
  <2>5. /\ journal' \in Seq(Entry) /\ Len(journal') = last /\ DOMAIN journal' = 1..last
        /\ journal'[last] = entry
    BY <1>0, <2>1, <2>2, Appending
  <2>6. last \in 0..MaxEdits /\ last \in 1..last /\ last <= MaxEdits
    BY <1>a, <2>n
  <2>7. DOMAIN my[e].patch \in SUBSET Files
    BY <1>0, <1>a, PatchFacts
  <2>8. /\ new \in Mine /\ new.at = last /\ new.todo = DOMAIN my[e].patch
        /\ new.patch = my[e].patch /\ my' = [my EXCEPT ![e] = new]
    <3> HIDE DEF last
    <3> QED
      BY <1>0, <2>1, <2>6, <2>7 DEF Mine, EditorsTyped
  <2>9. journal'[last].state = "prepared" /\ journal'[last].patch = my[e].patch
    BY <2>5
  <2> HIDE DEF new, entry, last
  <2>10. /\ EditorsTyped' /\ pc'[e] = "apply" /\ my'[e] = new
         /\ \A q \in Editors : q # e => pc'[q] = "idle"
    <3>1. /\ "apply" \in PC \ {"idle"} /\ lock' = e /\ pc[e] # "idle" /\ EditorsTyped
          /\ pc' = [pc EXCEPT ![e] = "apply"] /\ my' = [my EXCEPT ![e] = new]
          /\ new \in Mine
      BY <1>0, <1>a, <2>1, <2>8 DEF PC
    <3> QED
      BY <3>1, Moves
  <2>11. StateTyped'
    BY <1>0, <2>1, <2>5, <2>6 DEF StateTyped
  <2>12. EditorInv(e)'
    BY <1>0, <1>a, <2>4, <2>5, <2>6, <2>8, <2>9, <2>10
       DEF EditorInv, InPlace, Preparing, WorkingOn, Written, Working, Ahead, Touched
  <2> QED
    BY <2>4, <2>10, <2>11, <2>12, OneAtWork
<1> QED
  BY <1>1, <1>2


\* What holds of an editor that works on the open mutation.
LEMMA WorkFacts ==
    ASSUME WorkspaceInv, NEW e \in Editors, pc[e] \in {"apply", "finalize", "rollback", "drop"}
    PROVE  /\ head.rev > 0 /\ lock = e /\ pc[e] # "idle"
           /\ my[e].at \in DOMAIN journal /\ journal[my[e].at] \in Entry
           /\ After(journal[my[e].at]) \in Trees
           /\ Touched(journal[my[e].at]) \subseteq Files
           /\ \A f \in Touched(journal[my[e].at]) :
                 journal[my[e].at].patch[f] \in Values \cup {NoFile}
           /\ journal[my[e].at].state = "prepared" => my[e].at \in Open
<1>1. StateTyped /\ EditorsTyped /\ EditorInv(e)
  BY AtWork
<1>2. head.rev > 0 /\ lock = e /\ pc[e] # "idle" /\ my[e].at \in DOMAIN journal
  BY <1>1 DEF EditorInv, InPlace, WorkingOn, Working, EditorsTyped
<1> QED
  BY <1>1, <1>2, JournalFacts DEF Open

\* A step that moves the editor, and changes no more of what is shared than the lease.
LEMMA LeaseOnly ==
    ASSUME WorkspaceInv, NEW e \in Editors, NEW place \in PC \ {"idle"}, pc[e] # "idle",
           Goto(e, place), head' \in HeadRow, head'.rev = head.rev, head'.tree = head.tree,
           backups' \subseteq backups, Open = {} \/ backups' = backups,
           faults' \in 0..MaxFaults, UNCHANGED <<files, journal, outside>>
    PROVE  /\ SharedInv' /\ StateTyped' /\ EditorsTyped' /\ Open' = Open
           /\ pc'[e] = place /\ my'[e] = my[e]
           /\ \A q \in Editors : q # e => pc'[q] = "idle"
<1>0. StateTyped /\ EditorsTyped /\ SharedInv
  BY AtWork
<1>1. SharedInv' /\ Open' = Open
  <2>1. Open = {} \/ backups \subseteq backups'
    OBVIOUS
  <2>2. \A f \in Files \ foreign' : f \notin foreign /\ tree'[f] = tree[f]
    BY DEF files
  <2> QED
    BY <1>0, <2>1, <2>2, SharedQuiet
<1>2. StateTyped'
  BY <1>0 DEF StateTyped, files
<1>3. /\ EditorsTyped' /\ pc'[e] = place /\ my'[e] = my[e]
      /\ \A q \in Editors : q # e => pc'[q] = "idle"
  BY <1>0, GotoMoves
<1> QED
  BY <1>1, <1>2, <1>3

\* The lease is renewed, and a file is written or the edit is given up.
LEMMA ApplyKeeps ==
    ASSUME WorkspaceInv, NEW e \in Editors, Apply(e) PROVE WorkspaceInv'
<1> DEFINE i == my[e].at
           j == journal[i]
<1>0. /\ StateTyped /\ EditorsTyped /\ SharedInv /\ EditorInv(e) /\ my[e] \in Mine
      /\ UNCHANGED <<journal, backups, outside, faults>>
      /\ pc[e] = "apply" /\ head \in HeadRow
  BY AtWork DEF Apply
<1>a. /\ head.rev > 0 /\ lock = e /\ pc[e] # "idle"
      /\ i \in DOMAIN journal /\ Touched(j) \subseteq Files
      /\ \A f \in Touched(j) : j.patch[f] \in Values \cup {NoFile}
  BY <1>0, WorkFacts
<1>b. /\ j.state = "prepared" /\ i \in Open
      /\ my[e].todo \subseteq Touched(j) /\ my[e].patch = j.patch
  BY <1>0, <1>a DEF EditorInv, WorkingOn, Open
<1>h. head' \in HeadRow /\ head'.rev = head.rev /\ head'.tree = head.tree
  <2>1. LeaseTicks \in 0..LeaseTicks
    BY BoundsAssumption
  <2> QED
    BY <1>0, <2>1 DEF Apply, HeadRow
<1> HIDE DEF i, j
<1>1. ASSUME NEW f \in my[e].todo, WriteFile(f, my[e].patch[f]),
             my' = [my EXCEPT ![e].todo = my[e].todo \ {f}], UNCHANGED <<lock, pc>>
      PROVE  WorkspaceInv'
  <2> DEFINE new == [my[e] EXCEPT !.todo = my[e].todo \ {f}]
  <2>1. /\ f \in Files /\ f \in Touched(j) /\ tree' = [tree EXCEPT ![f] = j.patch[f]]
        /\ foreign' = foreign \ {f} /\ j.patch[f] \in Values \cup {NoFile}
        /\ tree \in Trees /\ UNCHANGED stray
    BY <1>0, <1>1, <1>a, <1>b DEF WriteFile, StateTyped
  <2>2. /\ new \in Mine /\ new.todo \subseteq Touched(j) /\ new.at = i
        /\ new.patch = j.patch /\ my' = [my EXCEPT ![e] = new]
    BY <1>0, <1>1, <1>b DEF Mine, EditorsTyped, i, j
  <2> HIDE DEF new
  <2>3. /\ EditorsTyped' /\ pc'[e] = "apply" /\ my'[e] = new
        /\ \A q \in Editors : q # e => pc'[q] = "idle"
    BY <1>0, <1>1, <1>a, <2>2, EditorsAssumption DEF EditorsTyped
  <2>4. SharedInv'
    <3>1. \A g \in Files \ foreign' :
             \/ g \notin foreign /\ tree'[g] = tree[g]
             \/ \E k \in Open :
                   g \in Touched(journal[k]) /\ tree'[g] = journal[k].patch[g]
      BY <1>b, <2>1 DEF Trees, j
    <3> QED
      BY <1>0, <1>h, <3>1, SharedQuiet
  <2>5. StateTyped'
    <3>1. tree' \in Trees
      BY <2>1 DEF Trees
    <3> QED
      BY <1>0, <1>h, <2>1, <3>1 DEF StateTyped
  <2>6. EditorInv(e)'
    <3>1. i \in DOMAIN journal' /\ journal'[i] = j /\ head'.rev > 0
      BY <1>0, <1>a, <1>h DEF j
    <3>2. /\ my'[e].at = i /\ j.state = "prepared" /\ my'[e].patch = j.patch
          /\ my'[e].todo \subseteq Touched(j)
      BY <1>b, <2>2, <2>3
    <3>3. InPlace(e)' /\ Preparing(e)' /\ Written(e)'
      BY <2>3, <3>1 DEF InPlace, Preparing, Written, Working, Ahead
    <3>4. WorkingOn(e)'
      BY <2>3, <3>1, <3>2 DEF WorkingOn, Working, Touched
    <3> QED
      BY <3>3, <3>4 DEF EditorInv
  <2> QED
    BY <2>3, <2>4, <2>5, <2>6, OneAtWork
<1>2. ASSUME Goto(e, "rollback"), UNCHANGED files
      PROVE  WorkspaceInv'
  <2>1. "rollback" \in PC \ {"idle"} /\ faults' \in 0..MaxFaults
    BY <1>0 DEF PC, StateTyped
  <2>2. /\ SharedInv' /\ StateTyped' /\ EditorsTyped'
        /\ pc'[e] = "rollback" /\ my'[e] = my[e]
        /\ \A q \in Editors : q # e => pc'[q] = "idle"
    BY <1>0, <1>2, <1>a, <1>h, <2>1, LeaseOnly
  <2>3. EditorInv(e)'
    BY <1>0, <1>a, <1>b, <1>h, <2>2
       DEF EditorInv, InPlace, Preparing, WorkingOn, Written, Working, Ahead, i, j
  <2> QED
    BY <2>2, <2>3, OneAtWork
<1> QED
  BY <1>1, <1>2 DEF Apply

\* What was written is compared with what the patch makes of the files.
LEMMA VerifyKeeps ==
    ASSUME WorkspaceInv, NEW e \in Editors, Verify(e) PROVE WorkspaceInv'
<1> DEFINE i == my[e].at
           j == journal[i]
<1>0. /\ EditorInv(e) /\ pc[e] = "apply" /\ head \in HeadRow /\ faults \in 0..MaxFaults
      /\ UNCHANGED <<files, head, journal, backups, outside, faults>>
  BY AtWork DEF Verify, StateTyped
<1>a. head.rev > 0 /\ pc[e] # "idle" /\ i \in DOMAIN journal
  BY <1>0, WorkFacts
<1>b. j.state = "prepared"
  BY <1>0 DEF EditorInv, WorkingOn
<1> HIDE DEF i, j
<1>1. ASSUME NEW place \in {"finalize", "rollback"}, Goto(e, place),
             place = "finalize" => Holds(After(journal[my[e].at]))
      PROVE  WorkspaceInv'
  <2>1. place \in PC \ {"idle"}
    BY DEF PC
  <2>2. /\ SharedInv' /\ StateTyped' /\ EditorsTyped'
        /\ pc'[e] = place /\ my'[e] = my[e]
        /\ \A q \in Editors : q # e => pc'[q] = "idle"
    BY <1>0, <1>1, <1>a, <2>1, LeaseOnly
  <2>3. Written(e)'
    <3>1. After(journal[my[e].at])' = After(journal'[my'[e].at])
      BY DEF After, Touched
    <3>2. /\ tree' = tree /\ foreign' = foreign /\ journal' = journal
          /\ my'[e] = my[e] /\ pc'[e] # "undo"
      BY <1>0, <2>2 DEF files
    <3>3. place = "finalize" => tree = After(journal[my[e].at])
      BY <1>1 DEF Holds
    <3> QED
      BY <2>2, <3>2, <3>3 DEF Written, After, Touched
  <2>4. EditorInv(e)'
    BY <1>0, <1>a, <1>b, <2>2, <2>3
       DEF EditorInv, InPlace, Preparing, WorkingOn, Working, Ahead, i, j
  <2> QED
    BY <2>2, <2>4, OneAtWork
<1> QED
  BY <1>1 DEF Verify

\* The mutation is published, or the transaction fails.
LEMMA FinalizeKeeps ==
    ASSUME WorkspaceInv, NEW e \in Editors, Finalize(e) PROVE WorkspaceInv'
<1> DEFINE i == my[e].at
           j == journal[i]
<1>0. /\ StateTyped /\ EditorsTyped /\ SharedInv /\ EditorInv(e) /\ my[e] \in Mine
      /\ pc[e] = "finalize" /\ head \in HeadRow /\ UNCHANGED <<files, backups, outside>>
  BY AtWork DEF Finalize
<1>a. /\ head.rev > 0 /\ lock = e /\ pc[e] # "idle" /\ i \in DOMAIN journal
      /\ After(j) \in Trees
  BY <1>0, WorkFacts
<1>b. /\ j.state = "prepared" /\ i \in Open
      /\ \A f \in Files \ foreign : tree[f] = After(j)[f]
  BY <1>0, <1>a DEF EditorInv, WorkingOn, Written, Open
<1>f. faults' \in 0..MaxFaults
  BY <1>0, BoundsAssumption DEF Finalize, StateTyped
<1>l. LeaseTicks \in 0..LeaseTicks
  BY BoundsAssumption
<1>1. ASSUME Publish(e), NEW place \in {"drop", "rollback"}, Goto(e, place)
      PROVE  WorkspaceInv'
  <2>1. /\ head' = [head EXCEPT !.rev = head.rev + 1, !.lease = LeaseTicks,
                                !.tree = After(j)]
        /\ Mark(i, "committed")
    BY <1>1 DEF Publish
  <2>2. /\ head'.rev = head.rev + 1 /\ head'.tree = After(j)
        /\ head' = [rev |-> head.rev + 1, tree |-> After(j), token |-> head.token,
                    lease |-> LeaseTicks]
    BY <1>0, <2>1 DEF HeadRow
  <2>3. SharedInv' /\ Open' = {} /\ head'.rev \in 1..(MaxEdits + 1)
    BY <1>0, <1>b, <2>1, <2>2, SharedPublished DEF files
  <2>4. /\ journal' \in Seq(Entry) /\ Len(journal') = Len(journal)
        /\ DOMAIN journal' = DOMAIN journal /\ journal'[i].state = "committed"
    BY <1>0, <1>a, <2>1, Marking DEF JournalState
  <2>5. StateTyped'
    <3>1. head' \in HeadRow
      <4>1. head.rev + 1 \in 0..(MaxEdits + 1) /\ head.token \in 0..MaxClaims
        BY <1>0, <2>2, <2>3 DEF HeadRow
      <4> QED
        BY <1>a, <1>l, <2>2, <4>1 DEF HeadRow
    <3> QED
      BY <1>0, <1>f, <2>4, <3>1 DEF StateTyped, files
  <2>6. /\ EditorsTyped' /\ pc'[e] = place /\ my'[e] = my[e]
        /\ \A q \in Editors : q # e => pc'[q] = "idle"
    BY <1>0, <1>1, <1>a, GotoMoves DEF PC
  <2>7. EditorInv(e)'
    BY <1>a, <2>3, <2>4, <2>6
       DEF EditorInv, InPlace, Preparing, WorkingOn, Written, Working, Ahead
  <2> QED
    BY <2>3, <2>5, <2>6, <2>7, OneAtWork
<1>2. ASSUME head' = head \/ head' = [head EXCEPT !.lease = LeaseTicks],
             Goto(e, "rollback"), UNCHANGED journal
      PROVE  WorkspaceInv'
  <2>1. head' \in HeadRow /\ head'.rev = head.rev /\ head'.tree = head.tree
    BY <1>0, <1>2, <1>l DEF HeadRow
  <2>2. "rollback" \in PC \ {"idle"}
    BY DEF PC
  <2>3. /\ SharedInv' /\ StateTyped' /\ EditorsTyped'
        /\ pc'[e] = "rollback" /\ my'[e] = my[e]
        /\ \A q \in Editors : q # e => pc'[q] = "idle"
    BY <1>0, <1>2, <1>a, <1>f, <2>1, <2>2, LeaseOnly
  <2>4. EditorInv(e)'
    BY <1>2, <1>a, <1>b, <2>1, <2>3
       DEF EditorInv, InPlace, Preparing, WorkingOn, Written, Working, Ahead
  <2> QED
    BY <2>3, <2>4, OneAtWork
<1> QED
  BY <1>1, <1>2 DEF Finalize

\* The journal is read again: it stands, is a conflict, or is undone.
LEMMA RollbackKeeps ==
    ASSUME WorkspaceInv, NEW e \in Editors, Rollback(e) PROVE WorkspaceInv'
<1> DEFINE i == my[e].at
           j == journal[i]
<1>0. /\ StateTyped /\ EditorsTyped /\ SharedInv /\ EditorInv(e) /\ my[e] \in Mine
      /\ pc[e] = "rollback" /\ head \in HeadRow /\ faults \in 0..MaxFaults
      /\ UNCHANGED <<files, head, outside, faults>>
  BY AtWork DEF Rollback, StateTyped
<1>a. /\ head.rev > 0 /\ lock = e /\ pc[e] # "idle" /\ i \in DOMAIN journal
      /\ Touched(j) \subseteq Files
      /\ j.state = "prepared" => i \in Open
  BY <1>0, WorkFacts
<1>b. j.state # "prepared" => Open = {}
  BY <1>0 DEF EditorInv, WorkingOn
<1>1. CASE /\ j.state # "prepared"
           /\ Goto(e, "release") /\ UNCHANGED <<journal, backups>>
  <2>1. "release" \in PC \ {"idle"}
    BY DEF PC
  <2>2. /\ SharedInv' /\ StateTyped' /\ EditorsTyped' /\ Open' = {}
        /\ pc'[e] = "release" /\ my'[e] = my[e]
        /\ \A q \in Editors : q # e => pc'[q] = "idle"
    BY <1>0, <1>1, <1>a, <1>b, <2>1, LeaseOnly
  <2>3. EditorInv(e)'
    BY <1>0, <1>a, <2>2
       DEF EditorInv, InPlace, Preparing, WorkingOn, Written, Working, Ahead
  <2> QED
    BY <2>2, <2>3, OneAtWork
<1>2. CASE j.state = "prepared" /\ Conflicted(i) /\ Goto(e, "release")
  <2>1. Mark(i, "conflicted") /\ UNCHANGED backups
    BY <1>2 DEF Conflicted
  <2>2. SharedInv' /\ Open' = {}
    BY <1>0, <1>2, <1>a, <2>1, SharedMarked DEF files
  <2>3. journal' \in Seq(Entry) /\ Len(journal') = Len(journal)
    BY <1>0, <1>a, <2>1, Marking DEF JournalState
  <2>4. StateTyped'
    BY <1>0, <2>1, <2>3 DEF StateTyped, files
  <2>5. /\ EditorsTyped' /\ pc'[e] = "release"
        /\ \A q \in Editors : q # e => pc'[q] = "idle"
    BY <1>0, <1>2, <1>a, GotoMoves DEF PC
  <2>6. EditorInv(e)'
    BY <1>0, <1>a, <2>2, <2>5
       DEF EditorInv, InPlace, Preparing, WorkingOn, Written, Working, Ahead
  <2> QED
    BY <2>2, <2>4, <2>5, <2>6, OneAtWork
<1>3. CASE /\ j.state = "prepared" /\ TouchedPathsKnown(j)
           /\ my' = [my EXCEPT ![e].todo = Touched(j), ![e].back = "release"]
           /\ pc' = [pc EXCEPT ![e] = "undo"]
           /\ UNCHANGED <<lock, journal, backups>>
  <2> DEFINE new == [my[e] EXCEPT !.todo = Touched(j), !.back = "release"]
  <2>1. /\ new \in Mine /\ new.todo = Touched(j) /\ new.back = "release" /\ new.at = i
        /\ my' = [my EXCEPT ![e] = new]
    <3> HIDE DEF j
    <3> QED
      BY <1>0, <1>3, <1>a DEF Mine, EditorsTyped
  <2> HIDE DEF new
  <2>2. /\ EditorsTyped' /\ pc'[e] = "undo" /\ my'[e] = new
        /\ \A q \in Editors : q # e => pc'[q] = "idle"
    <3>1. /\ "undo" \in PC \ {"idle"} /\ lock' = e /\ pc[e] # "idle" /\ EditorsTyped
          /\ pc' = [pc EXCEPT ![e] = "undo"] /\ my' = [my EXCEPT ![e] = new]
          /\ new \in Mine
      BY <1>0, <1>3, <1>a, <2>1 DEF PC
    <3> QED
      BY <3>1, Moves
  <2>3. SharedInv'
    BY <1>0, <1>3, SharedQuiet DEF files
  <2>4. StateTyped'
    BY <1>0, <1>3 DEF StateTyped, files
  <2>5. EditorInv(e)'
    BY <1>0, <1>3, <1>a, <2>1, <2>2
       DEF EditorInv, InPlace, Preparing, WorkingOn, Written, Working, Ahead, Touched
  <2> QED
    BY <2>2, <2>3, <2>4, <2>5, OneAtWork
<1> QED
  BY <1>1, <1>2, <1>3 DEF Rollback

\* The backup of what was committed goes.
LEMMA DropKeeps ==
    ASSUME WorkspaceInv, NEW e \in Editors, DropBackup(e) PROVE WorkspaceInv'
<1>0. /\ StateTyped /\ EditorInv(e) /\ pc[e] = "drop" /\ head \in HeadRow
      /\ UNCHANGED <<files, head, journal, outside, faults>> /\ Goto(e, "release")
      /\ backups' \subseteq backups
  BY AtWork DEF DropBackup
<1>a. head.rev > 0 /\ pc[e] # "idle" /\ Open = {}
  BY <1>0, WorkFacts DEF EditorInv, InPlace, PC, Working
<1>1. "release" \in PC \ {"idle"} /\ faults' \in 0..MaxFaults
  BY <1>0 DEF PC, StateTyped
<1>2. /\ SharedInv' /\ StateTyped' /\ EditorsTyped' /\ Open' = {}
      /\ pc'[e] = "release" /\ my'[e] = my[e]
      /\ \A q \in Editors : q # e => pc'[q] = "idle"
  BY <1>0, <1>1, <1>a, LeaseOnly
<1>3. EditorInv(e)'
  BY <1>0, <1>a, <1>2
     DEF EditorInv, InPlace, Preparing, WorkingOn, Written, Working, Ahead
<1> QED
  BY <1>2, <1>3, OneAtWork

\* The editor leaves, with its lease or without, or dies.
LEMMA LeftKeeps ==
    ASSUME WorkspaceInv, NEW e \in Editors, Release(e) \/ Crash(e) PROVE WorkspaceInv'
<1>0. /\ StateTyped /\ EditorsTyped /\ SharedInv /\ head \in HeadRow
      /\ UNCHANGED <<tree, foreign, journal, backups, outside>>
      /\ pc[e] # "idle" /\ Leave(e)
  BY AtWork DEF Release, Crash, files
<1>1. head' \in HeadRow /\ head'.rev = head.rev /\ head'.tree = head.tree
  <2>1. 0 \in 0..LeaseTicks
    BY BoundsAssumption
  <2> QED
    BY <1>0, <2>1 DEF Release, Crash, HeadRow
<1>2. SharedInv'
  BY <1>0, <1>1, SharedQuiet
<1>3. StateTyped'
  <2>1. faults' \in 0..MaxFaults
    BY <1>0, BoundsAssumption DEF Release, Crash, StateTyped
  <2>2. stray' \in BOOLEAN
    BY <1>0 DEF Release, Crash, files, StateTyped
  <2> QED
    BY <1>0, <1>1, <2>1, <2>2 DEF StateTyped
<1> QED
  BY <1>0, <1>2, <1>3, LeaveMoves, NoneAtWork

\* Something else changes a file: it is foreign from then on.
LEMMA OutsideKeeps ==
    ASSUME WorkspaceInv, Outside PROVE WorkspaceInv'
<1>0. /\ StateTyped /\ EditorsTyped /\ SharedInv
      /\ UNCHANGED <<stray, head, journal, backups, procs, faults>>
  BY DEF WorkspaceInv, Outside
<1>1. PICK f \in Files, v \in Values \cup {NoFile} :
         tree' = [tree EXCEPT ![f] = v] /\ foreign' = foreign \cup {f}
  BY DEF Outside
<1>2. \A g \in Files \ foreign' : g \notin foreign /\ tree'[g] = tree[g]
  BY <1>0, <1>1 DEF StateTyped, Trees
<1>3. SharedInv' /\ Open' = Open
  BY <1>0, <1>2, SharedQuiet
<1>4. StateTyped'
  <2>1. tree' \in Trees /\ foreign' \subseteq Files
    BY <1>0, <1>1 DEF StateTyped, Trees
  <2>2. outside' \in 0..MaxOutside
    BY <1>0, BoundsAssumption DEF StateTyped, Outside
  <2> QED
    BY <1>0, <2>1, <2>2 DEF StateTyped
<1>5. EditorsTyped'
  BY <1>0 DEF EditorsTyped, procs
<1>6. ASSUME NEW e \in Editors PROVE EditorInv(e)'
  <2>1. EditorInv(e)
    BY DEF WorkspaceInv
  <2>2. UNCHANGED <<head, journal, backups, lock, pc, my>>
    BY <1>0 DEF procs
  <2>3. InPlace(e)' /\ WorkingOn(e)'
    BY <1>3, <2>1, <2>2 DEF EditorInv, InPlace, WorkingOn, Touched
  <2>4. Preparing(e)'
    BY <1>2, <2>1, <2>2 DEF EditorInv, Preparing
  <2>5. Written(e)'
    <3>1. pc[e] = "finalize" =>
             \A g \in Files \ foreign' : tree'[g] = After(journal[my[e].at])[g]
      BY <1>2, <2>1 DEF EditorInv, Written
    <3>2. ASSUME pc[e] = "undo" PROVE Touched(journal[my[e].at]) \subseteq Files
      BY <1>0, <2>1, <3>2, JournalFacts DEF EditorInv, WorkingOn, Working
    <3>3. pc[e] = "undo" =>
             \A g \in Touched(journal[my[e].at]) \ (my[e].todo \cup foreign') :
                 tree'[g] = Before(journal[my[e].at], g)
      BY <1>2, <2>1, <3>2 DEF EditorInv, Written
    <3> QED
      BY <2>2, <3>1, <3>3 DEF Written, After, Before, Touched
  <2> QED
    BY <2>3, <2>4, <2>5 DEF EditorInv
<1> QED
  BY <1>3, <1>4, <1>5, <1>6 DEF WorkspaceInv

\* Steps that change nothing but the lease: a tick, and stuttering.
LEMMA TickKeeps ==
    ASSUME WorkspaceInv, Tick \/ UNCHANGED vars PROVE WorkspaceInv'
<1>0. /\ StateTyped /\ EditorsTyped /\ SharedInv /\ head \in HeadRow
      /\ UNCHANGED <<tree, stray, foreign, journal, backups, lock, pc, my, outside, faults>>
  BY DEF WorkspaceInv, Tick, vars, files, procs, StateTyped
<1>1. /\ head' \in HeadRow /\ head'.rev = head.rev /\ head'.tree = head.tree
      /\ head'.token = head.token
  <2>1. head.lease > 0 => head.lease - 1 \in 0..LeaseTicks
    BY <1>0, BoundsAssumption DEF HeadRow
  <2> QED
    BY <1>0, <2>1 DEF Tick, vars, HeadRow
<1>2. SharedInv' /\ Open' = Open
  BY <1>0, <1>1, SharedQuiet
<1>3. StateTyped' /\ EditorsTyped'
  BY <1>0, <1>1 DEF StateTyped, EditorsTyped
<1>4. ASSUME NEW e \in Editors PROVE EditorInv(e)'
  <2>1. EditorInv(e)
    BY DEF WorkspaceInv
  <2>2. InPlace(e)' /\ WorkingOn(e)'
    BY <1>0, <1>1, <1>2, <2>1 DEF EditorInv, InPlace, WorkingOn, Touched
  <2>3. Preparing(e)'
    BY <1>0, <1>1, <2>1 DEF EditorInv, Preparing
  <2>4. Written(e)'
    BY <1>0, <2>1 DEF EditorInv, Written, After, Before, Touched
  <2> QED
    BY <2>2, <2>3, <2>4 DEF EditorInv
<1> QED
  BY <1>2, <1>3, <1>4 DEF WorkspaceInv

-----------------------------------------------------------------------------
\* The workspace.

\* At the start nothing is journalled, and nobody is at work.
LEMMA InitWorkspace == Init => WorkspaceInv
<1> SUFFICES ASSUME Init PROVE WorkspaceInv
  OBVIOUS
<1>1. StateTyped
  <2>1. head \in HeadRow
    <3>1. 0 \in 0..(MaxEdits + 1) /\ 0 \in 0..MaxClaims /\ 0 \in 0..LeaseTicks
      BY BoundsAssumption
    <3> QED
      BY <3>1 DEF Init, HeadRow
  <2>2. journal \in Seq(Entry) /\ Len(journal) <= MaxEdits
    BY BoundsAssumption DEF Init
  <2>3. outside \in 0..MaxOutside /\ faults \in 0..MaxFaults
    BY BoundsAssumption DEF Init
  <2>4. tree \in Trees /\ stray \in BOOLEAN /\ foreign \subseteq Files /\ backups \subseteq Backups
    BY DEF Init
  <2> QED
    BY <2>1, <2>2, <2>3, <2>4 DEF StateTyped
<1>2. EditorsTyped
  <2>1. Nothing \in Mine
    <3>1. 0 \in 0..MaxClaims /\ 0 \in 0..MaxEdits
      BY BoundsAssumption
    <3> QED
      BY <3>1 DEF Nothing, Mine
  <2> HIDE DEF Nothing
  <2> QED
    BY <2>1, EditorsAssumption DEF Init, EditorsTyped, PC
<1>3. SharedInv
  BY DEF Init, SharedInv, OpenIsLast, JournalUpToHead, OpenAccounts, FilesAccountedFor,
     RevisionsAreCommits, Open
<1>4. ASSUME NEW e \in Editors PROVE EditorInv(e)
  BY DEF Init, EditorInv, InPlace, Preparing, WorkingOn, Written, Working, Ahead
<1> QED
  BY <1>1, <1>2, <1>3, <1>4 DEF WorkspaceInv

\* The invariant is inductive: editors die at any step, others write.
LEMMA WorkspaceInductive == Spec => []WorkspaceInv
<1>1. WorkspaceInv /\ [Next]_vars => WorkspaceInv'
  <2> SUFFICES ASSUME WorkspaceInv, [Next]_vars PROVE WorkspaceInv'
    OBVIOUS
  <2>1. ASSUME NEW e \in Editors, Begin(e) PROVE WorkspaceInv'
    BY <2>1, BeginKeeps
  <2>2. ASSUME NEW e \in Editors, SettleJournal(e) PROVE WorkspaceInv'
    BY <2>2, SettleKeeps
  <2>3. ASSUME NEW e \in Editors, Recovered(e) PROVE WorkspaceInv'
    BY <2>3, RecoveredKeeps
  <2>4. ASSUME NEW e \in Editors, UndoFile(e) \/ Undone(e) PROVE WorkspaceInv'
    BY <2>4, UndoKeeps, UndoneKeeps
  <2>5. ASSUME NEW e \in Editors, Look(e) \/ ClaimWriter(e) PROVE WorkspaceInv'
    BY <2>5, LookKeeps, ClaimKeeps
  <2>6. ASSUME NEW e \in Editors, CheckFence(e) \/ WriteBackup(e) PROVE WorkspaceInv'
    BY <2>6, FenceBackupKeeps
  <2>7. ASSUME NEW e \in Editors, Prepare(e) PROVE WorkspaceInv'
    BY <2>7, PrepareKeeps
  <2>8. ASSUME NEW e \in Editors, Apply(e) \/ Verify(e) PROVE WorkspaceInv'
    BY <2>8, ApplyKeeps, VerifyKeeps
  <2>9. ASSUME NEW e \in Editors, Finalize(e) \/ Rollback(e) PROVE WorkspaceInv'
    BY <2>9, FinalizeKeeps, RollbackKeeps
  <2>10. ASSUME NEW e \in Editors, DropBackup(e) PROVE WorkspaceInv'
    BY <2>10, DropKeeps
  <2>11. ASSUME NEW e \in Editors, Release(e) \/ Crash(e) PROVE WorkspaceInv'
    BY <2>11, LeftKeeps
  <2>12. CASE Outside
    BY <2>12, OutsideKeeps
  <2>13. CASE Tick \/ UNCHANGED vars
    BY <2>13, TickKeeps
  <2> QED
    BY <2>1, <2>2, <2>3, <2>4, <2>5, <2>6, <2>7, <2>8, <2>9, <2>10, <2>11, <2>12, <2>13
       DEF Next
<1> QED
  BY InitWorkspace, <1>1, PTL DEF Spec

\* The types are those of the state and of the editors.
LEMMA TypeParts == StateTyped /\ EditorsTyped => TypeOK
  BY DEF StateTyped, EditorsTyped, TypeOK, HeadRow, Entry, JournalState, Mine

\* Every variable has its type, and the lock is held by whoever is at work.
THEOREM TypeInvariant == Spec => []TypeOK
<1>1. WorkspaceInv => TypeOK
  BY TypeParts DEF WorkspaceInv
<1> QED
  BY <1>1, WorkspaceInductive, PTL

\* A file that is not as the head says was changed from outside, or an open or
\* conflicted mutation accounts for it, at whatever step an edit died.
THEOREM FilesAccountedForAlways == Spec => []FilesAccountedFor
<1>1. WorkspaceInv => FilesAccountedFor
  BY DEF WorkspaceInv, SharedInv
<1> QED
  BY <1>1, WorkspaceInductive, PTL

\* There is at most one open mutation; its backup is there, and the head is where it
\* was: mark_rolled_back will not refuse.
THEOREM OpenCanBeUndoneAlways == Spec => []OpenCanBeUndone
<1>1. WorkspaceInv => OpenCanBeUndone
  <2> SUFFICES ASSUME WorkspaceInv PROVE OpenCanBeUndone
    OBVIOUS
  <2>1. OpenIsLast
    BY DEF WorkspaceInv, SharedInv
  <2>2. Cardinality(Open) <= 1
    <3>1. Open \subseteq {Len(journal)}
      BY <2>1 DEF OpenIsLast
    <3>2. IsFiniteSet({Len(journal)}) /\ Cardinality({Len(journal)}) = 1
      BY FS_Singleton
    <3> QED
      BY <3>1, <3>2, FS_Subset
  <2> QED
    BY <2>1, <2>2 DEF OpenIsLast, OpenCanBeUndone
<1> QED
  BY <1>1, WorkspaceInductive, PTL

\* Every revision before the head's was left by exactly one committed mutation, whose
\* files are those the next one started from.
THEOREM RevisionsAreCommitsAlways == Spec => []RevisionsAreCommits
<1>1. WorkspaceInv => RevisionsAreCommits
  BY DEF WorkspaceInv, SharedInv
<1> QED
  BY <1>1, WorkspaceInductive, PTL

\* What an editor found when it marked a conflict.
LEMMA ConflictsCaused ==
    ASSUME WorkspaceInv, NEW e \in Editors,
           SettleJournal(e) \/ Undone(e) \/ Rollback(e),
           NEW i \in DOMAIN journal,
           journal[i].state # "conflicted", journal'[i].state = "conflicted"
    PROVE  foreign # {} \/ stray
<1>0. StateTyped /\ SharedInv /\ EditorInv(e)
  BY AtWork
<1>1. ASSUME NEW k \in DOMAIN journal, NEW state \in JournalState, Mark(k, state)
      PROVE  k = i /\ state = "conflicted"
  BY <1>0, <1>1, Marking
<1>2. ASSUME NEW k \in Open, Conflicted(k), ~TouchedPathsKnown(journal[k])
      PROVE  foreign # {}
  <2>1. Touched(journal[k]) \subseteq Files
    BY <1>0, JournalFacts DEF Open
  <2> QED
    BY <1>0, <1>2, <2>1, UnknownIsForeign
<1>3. CASE SettleJournal(e)
  <2>1. PICK k \in Open :
           \/ RolledBack(k)
           \/ Conflicted(k) /\ ~TouchedPathsKnown(journal[k])
           \/ UNCHANGED journal
    BY <1>3 DEF SettleJournal
  <2>2. ~RolledBack(k)
    BY <1>1 DEF RolledBack, Open, JournalState
  <2> QED
    BY <1>2, <2>1, <2>2
<1>4. CASE Rollback(e)
  <2>1. Conflicted(my[e].at) /\ ~TouchedPathsKnown(journal[my[e].at])
        /\ journal[my[e].at].state = "prepared"
    BY <1>4 DEF Rollback
  <2>2. my[e].at \in Open
    BY <1>0, <1>4, <2>1 DEF Rollback, EditorInv, WorkingOn, Working, Open
  <2> QED
    BY <1>2, <2>1, <2>2
<1>5. CASE Undone(e)
  <2> DEFINE k == my[e].at
             j == journal[k]
  <2>1. /\ k \in Open /\ k \in DOMAIN journal /\ pc[e] = "undo" /\ my[e].todo = {}
    BY <1>0, <1>5 DEF Undone, EditorInv, WorkingOn, Working, Open
  <2>2. ~RolledBack(k)
    BY <1>1, <2>1 DEF RolledBack, JournalState
  <2>3. ~Holds(j.from)
    BY <1>5, <2>2 DEF Undone
  <2>4. j.from \in Trees /\ tree \in Trees
    BY <1>0, <2>1, JournalFacts DEF Entry, StateTyped
  <2>5. \A f \in Files \ foreign : tree[f] = j.from[f]
    <3>1. \A f \in Files \ foreign : f \in Touched(j) \/ tree[f] = j.from[f]
      BY <1>0, <2>1 DEF SharedInv, OpenIsLast, OpenAccounts
    <3>2. \A f \in Touched(j) \ foreign : tree[f] = j.from[f]
      BY <1>0, <2>1 DEF EditorInv, Written, Before
    <3> QED
      BY <3>1, <3>2
  <2>6. foreign = {} => tree = j.from
    BY <2>4, <2>5 DEF Trees
  <2> QED
    BY <2>3, <2>6 DEF Holds
<1> QED
  BY <1>3, <1>4, <1>5

\* Only these steps mark a conflict.
LEMMA ConflictsMarked ==
    ASSUME WorkspaceInv, [Next]_vars, NEW i \in DOMAIN journal,
           journal[i].state # "conflicted", journal'[i].state = "conflicted"
    PROVE  \E e \in Editors : SettleJournal(e) \/ Undone(e) \/ Rollback(e)
<1>0. StateTyped
  BY DEF WorkspaceInv
<1>1. journal' # journal
  OBVIOUS
<1>2. ASSUME NEW e \in Editors, Prepare(e) PROVE FALSE
  <2>1. my[e].patch \in Patches /\ my[e].token \in 1..MaxClaims /\ head.tree \in Trees
        /\ head.rev \in 1..(MaxEdits + 1)
    BY <1>2, AtWork DEF Prepare, EditorInv, InPlace, Preparing, Ahead, Mine, HeadRow
  <2>2. PICK entry \in Entry : journal' = Append(journal, entry)
    BY <1>1, <1>2, <2>1 DEF Prepare, Entry, JournalState
  <2> QED
    BY <1>0, <2>2, Appending
<1>3. ASSUME NEW e \in Editors, Finalize(e) PROVE FALSE
  <2>1. Mark(my[e].at, "committed") /\ my[e].at \in DOMAIN journal
    BY <1>1, <1>3, AtWork DEF Finalize, Publish, EditorInv, WorkingOn, Working
  <2> QED
    BY <1>0, <2>1, Marking DEF JournalState
<1> QED
  BY <1>1, <1>2, <1>3
     DEF Next, vars, Begin, Recovered, UndoFile, Look, ClaimWriter, CheckFence, WriteBackup,
         Apply, Verify, DropBackup, Release, Crash, Outside, Tick

\* A crash between two steps of an edit never costs the workspace: a conflict has
\* something from outside, or a temporary file, as its cause.
THEOREM ConflictHasACauseAlways == Spec => ConflictHasACause
<1>1. WorkspaceInv /\ [Next]_vars
      => [\A i \in DOMAIN journal :
             journal'[i].state = "conflicted" /\ journal[i].state # "conflicted"
                => foreign # {} \/ stray]_vars
  BY ConflictsMarked, ConflictsCaused
<1> QED
  BY <1>1, WorkspaceInductive, PTL DEF Spec, ConflictHasACause
=============================================================================
