----------------------------- MODULE StorageProofs -----------------------------
(***************************************************************************)
(* Proofs about where documents are kept.  The autosave store, for any     *)
(* number of programs, documents, sequence numbers and retained entries,   *)
(* with and without torn appends and lines of another build: what record   *)
(* acknowledged is found.  The tabs of a session without the palette, for any *)
(* number of files, tabs and texts: every tab keeps its rope, the slots agree *)
(* with the ropes, and a document that is clean is saved.                  *)
(***************************************************************************)
EXTENDS Autosave, SessionTabs, FiniteSetTheorems, WellFoundedInduction, TLAPS

\* What holds of the two views of the disk: the journal programs read may
\* itself survive, and names every entry recovery might ever fall back on.
DiskConsistent ==
    /\ journal \in journalOnDisk
    /\ \A s \in Seqs : file[s] \in fileOnDisk[s]
    /\ \A j \in journalOnDisk : /\ IsFiniteSet(j.entries)
                                /\ Newest(j.entries) \subseteq journal.entries

Recording(p) == op[p].step \notin {"idle", "recover"}

\* What a program in the middle of an operation relies on.
OpConsistent(p) ==
    /\ op[p].waiting => op[p].step \in {"read", "recover"}
    /\ op[p].step # "idle" /\ ~op[p].waiting => lock = {p}
    /\ Recording(p) => op[p].entry.body \in Body
    /\ op[p].step \in {"write", "syncFile", "append"} =>
         \A e \in journal.entries : e.seq < op[p].entry.seq
    /\ op[p].step = "syncFile" => file[op[p].entry.seq] = op[p].entry.body
    /\ op[p].step = "append" =>
         fileOnDisk[op[p].entry.seq] = {op[p].entry.body}
    /\ op[p].step = "prune" => journalOnDisk = {journal}

OpsConsistent == \A p \in Proc : OpConsistent(p)

AutosaveInv == AutosaveTypeOK /\ DiskConsistent /\ OpsConsistent /\ NewestBacked

-----------------------------------------------------------------------------
(* Lemmas *)

\* One more entry makes no other entry one of the newest (prune_locked's
\* selection only loses members as the journal grows).
LEMMA NewestGrows ==
    ASSUME NEW E \in SUBSET Entry, IsFiniteSet(E), NEW x \in Entry
    PROVE  Newest(E \cup {x}) \subseteq Newest(E) \cup {x}
<1> SUFFICES ASSUME NEW e \in E, Cardinality(Newer(e, E \cup {x})) < Retention
             PROVE  Cardinality(Newer(e, E)) < Retention
  BY DEF Newest
<1>1. Newer(e, E) \subseteq Newer(e, E \cup {x})
  BY DEF Newer
<1>2. IsFiniteSet(E \cup {x})
  BY FS_AddElement
<1>3. IsFiniteSet(Newer(e, E \cup {x}))
  BY <1>2, FS_Subset DEF Newer
<1>4. /\ Cardinality(Newer(e, E)) <= Cardinality(Newer(e, E \cup {x}))
      /\ IsFiniteSet(Newer(e, E))
  BY <1>1, <1>3, FS_Subset
<1>5. Cardinality(Newer(e, E)) \in Nat /\ Cardinality(Newer(e, E \cup {x})) \in Nat
  BY <1>3, <1>4, FS_CardinalityType
<1> QED
  BY <1>4, <1>5, ConstantsAssumption

LEMMA InitEstablishes == AutosaveInit => AutosaveInv
<1> SUFFICES ASSUME AutosaveInit PROVE AutosaveInv
  OBVIOUS
<1>1. AutosaveTypeOK
  BY ConstantsAssumption DEF AutosaveInit, AutosaveTypeOK, Journal, Op, Nothing, Steps, Seqs
<1>2. DiskConsistent
  BY FS_EmptySet DEF AutosaveInit, DiskConsistent, Newest
<1>3. OpsConsistent
  BY DEF AutosaveInit, OpsConsistent, OpConsistent, Nothing, Recording
<1>4. NewestBacked
  BY DEF AutosaveInit, NewestBacked, Newest
<1> QED
  BY <1>1, <1>2, <1>3, <1>4 DEF AutosaveInv

-----------------------------------------------------------------------------
(* One lemma per action *)

\* While p is inside an operation nobody else relies on the disk: a step of p
\* preserves what is known of every other program.
LEMMA OthersWait ==
    ASSUME AutosaveTypeOK, OpsConsistent, NEW p \in Proc, NEW q \in Proc, q # p,
           lock = {p}, op'[q] = op[q]
    PROVE  OpConsistent(q)'
<1>1. op[q].step = "idle" \/ op[q].waiting
  BY DEF OpsConsistent, OpConsistent
<1>2. op[q].step = "idle" \/ op[q].step \in {"read", "recover"}
  BY <1>1 DEF OpsConsistent, OpConsistent
<1>3. op[q].waiting => op[q].step \in {"read", "recover"}
  BY DEF OpsConsistent, OpConsistent
<1>4. Recording(q) => op[q].entry.body \in Body
  BY DEF OpsConsistent, OpConsistent
<1> QED
  BY <1>1, <1>2, <1>3, <1>4 DEF OpConsistent, Recording

\* A program inside record holds the lock and has an entry to save.
LEMMA InRecord ==
    ASSUME AutosaveTypeOK, OpsConsistent, NEW p \in Proc, Recording(p), ~op[p].waiting
    PROVE  /\ lock = {p}
           /\ op[p].entry \in Entry
           /\ op[p].entry.seq \in Seqs
           /\ op[p].entry.body \in Body
<1>1. lock = {p} /\ op[p].entry.body \in Body
  BY DEF OpsConsistent, OpConsistent, Recording
<1>2. op[p].entry \in [seq : Seqs, body : Body \cup {NoFile}]
  BY DEF AutosaveTypeOK, Op
<1> QED
  BY <1>1, <1>2 DEF Entry

\* Moving on to the next statement, and returning, keep the type of op.
LEMMA GotoTyped ==
    ASSUME AutosaveTypeOK, NEW p \in Proc, NEW t \in Steps, Goto(p, t)
    PROVE  op' \in [Proc -> Op]
BY DEF AutosaveTypeOK, Goto, Op

LEMMA ReturnTyped ==
    ASSUME AutosaveTypeOK, NEW p \in Proc, Return(p)
    PROVE  op' \in [Proc -> Op]
BY ConstantsAssumption DEF AutosaveTypeOK, Return, Nothing, Op, Steps, Seqs

\* Syncing the directory leaves one content of every file, the current one.
LEMMA SyncNarrows ==
    ASSUME AutosaveTypeOK, DiskConsistent, SyncDirectory, file' = file
    PROVE  /\ fileOnDisk' \in [Seqs -> SUBSET (Body \cup {NoFile})]
           /\ \A s \in Seqs : fileOnDisk'[s] = {file[s]}
           /\ \A s \in Seqs : file'[s] \in fileOnDisk'[s]
BY DEF AutosaveTypeOK, SyncDirectory

\* The entries of a journal on disk have a sequence number and a document.
LEMMA EntriesTyped ==
    ASSUME AutosaveTypeOK, NEW j \in journalOnDisk, NEW e \in j.entries
    PROVE  e \in Entry /\ e.seq \in Seqs /\ e.body \in Body
BY DEF AutosaveTypeOK, Journal, Entry

\* A sync does not change what a journal finds: entries that every power loss
\* backs are backed by the current file too.
LEMMA SyncKeepsBacked ==
    ASSUME AutosaveTypeOK, DiskConsistent, NewestBacked, SyncDirectory, file' = file,
           NEW j \in journalOnDisk, NEW e \in Newest(j.entries)
    PROVE  fileOnDisk'[e.seq] = {e.body}
<1>1. fileOnDisk[e.seq] = {e.body}
  BY DEF NewestBacked
<1>2. e.seq \in Seqs
  BY EntriesTyped DEF Newest
<1> QED
  BY <1>1, <1>2, SyncNarrows DEF DiskConsistent

\* Calling record or recover: the program does not hold the lock yet.
LEMMA CallPreserves ==
    ASSUME AutosaveInv, NEW p \in Proc, Call(p)
    PROVE  AutosaveInv'
<1> USE DEF AutosaveInv
<1>1. AutosaveTypeOK'
  BY DEF AutosaveTypeOK, Call, At, Op, Steps, stored
<1>2. DiskConsistent'
  BY DEF DiskConsistent, Call, At, Op, Steps, stored
<1>3. OpsConsistent'
  <2> SUFFICES ASSUME NEW q \in Proc PROVE OpConsistent(q)'
    BY DEF OpsConsistent
  <2>1. CASE q = p
    BY <2>1 DEF OpsConsistent, OpConsistent, Recording, AutosaveTypeOK, Call, At, Op, Steps, stored
  <2>2. CASE q # p
    BY <2>2 DEF OpsConsistent, OpConsistent, Recording, AutosaveTypeOK, Call, At, Op, Steps, stored
  <2> QED
    BY <2>1, <2>2
<1>4. NewestBacked'
  BY DEF NewestBacked, Call, At, Op, Steps, stored
<1> QED
  BY <1>1, <1>2, <1>3, <1>4

\* Taking the free lock makes p the only program inside an operation.
LEMMA AcquireLockPreserves ==
    ASSUME AutosaveInv, NEW p \in Proc, AcquireLock(p)
    PROVE  AutosaveInv'
<1> USE DEF AutosaveInv
<1>1. AutosaveTypeOK'
  <2>1. op' \in [Proc -> Op]
    <3>1. op \in [Proc -> Op]
      BY DEF AutosaveTypeOK
    <3> HIDE DEF AutosaveInv
    <3>2. [op[p] EXCEPT !.waiting = FALSE] \in Op
      BY <3>1 DEF Op
    <3> QED
      BY <3>1, <3>2 DEF AcquireLock
  <2> QED
    BY <2>1 DEF AutosaveTypeOK, AcquireLock, stored
<1>2. DiskConsistent'
  BY DEF DiskConsistent, AcquireLock, At, Op, Steps, stored
<1>3. OpsConsistent'
  <2> SUFFICES ASSUME NEW q \in Proc PROVE OpConsistent(q)'
    BY DEF OpsConsistent
  <2>1. CASE q = p
    BY <2>1 DEF OpsConsistent, OpConsistent, Recording, AutosaveTypeOK, AcquireLock, At, Op, Steps, stored
  <2>2. CASE q # p
    BY <2>2 DEF OpsConsistent, OpConsistent, Recording, AutosaveTypeOK, AcquireLock, At, Op, Steps, stored
  <2> QED
    BY <2>1, <2>2
<1>4. NewestBacked'
  BY DEF NewestBacked, AcquireLock, At, Op, Steps, stored
<1> QED
  BY <1>1, <1>2, <1>3, <1>4

\* Giving up on the lock leaves the store alone.
LEMMA LockTimeoutPreserves ==
    ASSUME AutosaveInv, NEW p \in Proc, LockTimeout(p)
    PROVE  AutosaveInv'
<1> USE DEF AutosaveInv
<1>1. AutosaveTypeOK'
  BY ConstantsAssumption DEF AutosaveTypeOK, LockTimeout, Nothing, Op, Steps, stored, Seqs
<1>2. DiskConsistent'
  BY DEF DiskConsistent, LockTimeout, Nothing, Op, Steps, stored, Seqs
<1>3. OpsConsistent'
  <2> SUFFICES ASSUME NEW q \in Proc PROVE OpConsistent(q)'
    BY DEF OpsConsistent
  <2>1. CASE q = p
    BY <2>1 DEF OpsConsistent, OpConsistent, Recording, AutosaveTypeOK, LockTimeout, Nothing, Op, Steps, stored, Seqs
  <2>2. CASE q # p
    BY <2>2 DEF OpsConsistent, OpConsistent, Recording, AutosaveTypeOK, LockTimeout, Nothing, Op, Steps, stored, Seqs
  <2> QED
    BY <2>1, <2>2
<1>4. NewestBacked'
  BY DEF NewestBacked, LockTimeout, Nothing, Op, Steps, stored, Seqs
<1> QED
  BY <1>1, <1>2, <1>3, <1>4

\* The allocated sequence number is above every entry of the journal read.
LEMMA ReadJournalPreserves ==
    ASSUME AutosaveInv, NEW p \in Proc, ReadJournal(p)
    PROVE  AutosaveInv'
<1> USE DEF AutosaveInv
<1>1. AutosaveTypeOK'
  <2>1. PICK s \in Seqs :
          op' = [op EXCEPT ![p].step = "write", ![p].rejected = journal.rejected,
                           ![p].entry.seq = s]
    BY DEF ReadJournal
  <2>2. journal.rejected \in SUBSET Entry
    BY DEF AutosaveTypeOK, Journal
  <2> DEFINE r == [[[op[p] EXCEPT !.step = "write"] EXCEPT !.rejected = journal.rejected]
                    EXCEPT !.entry = [@ EXCEPT !.seq = s]]
  <2>3. op[p] \in Op
    BY DEF AutosaveTypeOK
  <2>4. [op[p].entry EXCEPT !.seq = s] \in [seq : Seqs, body : Body \cup {NoFile}]
    BY <2>3 DEF Op
  <2>5. [[op[p] EXCEPT !.step = "write"] EXCEPT !.rejected = journal.rejected] \in Op
    BY <2>2, <2>3 DEF Op, Steps
  <2>6. r \in Op
    BY <2>4, <2>5, <2>3 DEF Op, Steps
  <2>7. op' = [op EXCEPT ![p] = r]
    BY <2>1
  <2>8. op' \in [Proc -> Op]
    BY <2>6, <2>7 DEF AutosaveTypeOK
  <2> QED
    BY <2>8 DEF AutosaveTypeOK, ReadJournal, stored
<1>2. DiskConsistent'
  BY DEF DiskConsistent, ReadJournal, IsNext, At, Op, Steps, stored, Seqs, Entry, Journal
<1>3. OpsConsistent'
  <2> SUFFICES ASSUME NEW q \in Proc PROVE OpConsistent(q)'
    BY DEF OpsConsistent
  <2>1. CASE q = p
    BY <2>1 DEF OpsConsistent, OpConsistent, Recording, AutosaveTypeOK, ReadJournal, IsNext, At, Op, Steps, stored, Seqs, Entry, Journal
  <2>2. CASE q # p
    <3>1. lock = {p} /\ op'[q] = op[q]
      BY <2>2 DEF OpsConsistent, OpConsistent, AutosaveTypeOK, ReadJournal, IsNext, At, Op, Steps, stored, Seqs, Entry, Journal
    <3> QED
      BY <2>2, <3>1, OthersWait
  <2> QED
    BY <2>1, <2>2
<1>4. NewestBacked'
  BY DEF NewestBacked, ReadJournal, IsNext, At, Op, Steps, stored, Seqs, Entry, Journal
<1> QED
  BY <1>1, <1>2, <1>3, <1>4

\* An operation that ends without touching the disk: Exhausted and Abort.
LEMMA ReturnPreserves ==
    ASSUME AutosaveInv, NEW p \in Proc, Return(p), UNCHANGED <<stored, acked>>, lock = {p}
    PROVE  AutosaveInv'
<1> USE DEF AutosaveInv
<1>1. AutosaveTypeOK'
  BY ConstantsAssumption DEF AutosaveTypeOK, Return, Nothing, Op, Steps, stored, Seqs
<1>2. DiskConsistent'
  BY DEF DiskConsistent, Return, Nothing, Op, Steps, stored, Seqs
<1>3. OpsConsistent'
  <2> SUFFICES ASSUME NEW q \in Proc PROVE OpConsistent(q)'
    BY DEF OpsConsistent
  <2>1. CASE q = p
    BY <2>1 DEF OpsConsistent, OpConsistent, Recording, AutosaveTypeOK, Return, Nothing, Op, Steps, stored, Seqs
  <2>2. CASE q # p
    <3>1. lock = {p} /\ op'[q] = op[q]
      BY <2>2 DEF OpsConsistent, OpConsistent, AutosaveTypeOK, Return, Nothing, Op, Steps, stored, Seqs
    <3> QED
      BY <2>2, <3>1, OthersWait
  <2> QED
    BY <2>1, <2>2
<1>4. NewestBacked'
  BY DEF NewestBacked, Return, Nothing, Op, Steps, stored, Seqs
<1> QED
  BY <1>1, <1>2, <1>3, <1>4

\* The file renamed into place is one no entry of a journal refers to.
LEMMA WriteSnapshotPreserves ==
    ASSUME AutosaveInv, NEW p \in Proc, WriteSnapshot(p)
    PROVE  AutosaveInv'
<1> USE DEF AutosaveInv
<1> DEFINE e == op[p].entry
<1>0. /\ lock = {p} /\ e \in Entry /\ e.seq \in Seqs /\ e.body \in Body
      /\ file' = [file EXCEPT ![e.seq] = e.body]
      /\ fileOnDisk' = [fileOnDisk EXCEPT ![e.seq] = @ \cup {e.body}]
      /\ UNCHANGED <<journal, journalOnDisk, lock, acked>>
      /\ Goto(p, "syncFile")
  BY InRecord DEF WriteSnapshot, At, Recording
<1>1. AutosaveTypeOK'
  <2>1. op' \in [Proc -> Op]
    BY <1>0, GotoTyped DEF Steps
  <2> QED
    BY <1>0, <2>1 DEF AutosaveTypeOK
<1>2. DiskConsistent'
  BY <1>0 DEF DiskConsistent, AutosaveTypeOK
<1>3. OpsConsistent'
  <2> SUFFICES ASSUME NEW q \in Proc PROVE OpConsistent(q)'
    BY DEF OpsConsistent
  <2>1. CASE q = p
    BY <2>1, <1>0 DEF OpsConsistent, OpConsistent, Recording, AutosaveTypeOK, WriteSnapshot, At, Goto, Op
  <2>2. CASE q # p
    BY <2>2, <1>0, OthersWait DEF Goto, AutosaveTypeOK
  <2> QED
    BY <2>1, <2>2
<1>4. NewestBacked'
  <2> SUFFICES ASSUME NEW j \in journalOnDisk, NEW x \in Newest(j.entries)
               PROVE  fileOnDisk'[x.seq] = {x.body}
    BY <1>0 DEF NewestBacked
  <2>1. x \in j.entries /\ x \in journal.entries
    BY DEF Newest, DiskConsistent
  <2>2. x.seq \in Seqs /\ x.seq # e.seq
    BY <1>0, <2>1, EntriesTyped, ConstantsAssumption
       DEF WriteSnapshot, At, OpsConsistent, OpConsistent, Seqs
  <2>3. fileOnDisk[x.seq] = {x.body}
    BY DEF NewestBacked
  <2> QED
    BY <1>0, <2>2, <2>3 DEF AutosaveTypeOK
<1> QED
  BY <1>1, <1>2, <1>3, <1>4

\* After the sync the snapshot is what every power loss leaves.
LEMMA SyncSnapshotPreserves ==
    ASSUME AutosaveInv, NEW p \in Proc, SyncSnapshot(p)
    PROVE  AutosaveInv'
<1> USE DEF AutosaveInv
<1>0. /\ SyncDirectory /\ Goto(p, "append")
      /\ UNCHANGED <<journal, journalOnDisk, file, lock, acked>>
      /\ lock = {p} /\ op[p].entry.seq \in Seqs
  BY InRecord DEF SyncSnapshot, At, Recording
<1>1. AutosaveTypeOK'
  BY <1>0, GotoTyped, SyncNarrows DEF AutosaveTypeOK, Steps
<1>2. DiskConsistent'
  BY <1>0, SyncNarrows DEF DiskConsistent
<1>3. OpsConsistent'
  <2> SUFFICES ASSUME NEW q \in Proc PROVE OpConsistent(q)'
    BY DEF OpsConsistent
  <2>1. CASE q = p
    <3>1. fileOnDisk'[op[p].entry.seq] = {op[p].entry.body}
      BY <1>0, SyncNarrows DEF SyncSnapshot, At, OpsConsistent, OpConsistent
    <3> QED
      BY <2>1, <3>1, <1>0 DEF OpsConsistent, OpConsistent, Recording, AutosaveTypeOK, SyncSnapshot, At, Goto, Op
  <2>2. CASE q # p
    BY <2>2, <1>0, OthersWait DEF Goto, AutosaveTypeOK
  <2> QED
    BY <2>1, <2>2
<1>4. NewestBacked'
  BY <1>0, SyncKeepsBacked DEF NewestBacked
<1> QED
  BY <1>1, <1>2, <1>3, <1>4

\* The appended entry refers to a snapshot that is safely on disk.
LEMMA AppendEntryPreserves ==
    ASSUME AutosaveInv, NEW p \in Proc, AppendEntry(p)
    PROVE  AutosaveInv'
<1> USE DEF AutosaveInv
<1> DEFINE e == op[p].entry
<1>0. /\ lock = {p} /\ e \in Entry /\ e.seq \in Seqs /\ e.body \in Body
      /\ journal' = Appended(journal, e)
      /\ journalOnDisk' = journalOnDisk \cup {journal'}
                            \cup {j \in {Partial(journal)} : TornAppends}
      /\ UNCHANGED <<file, fileOnDisk, lock, acked>>
      /\ Goto(p, "syncJournal")
  BY InRecord DEF AppendEntry, At, Recording
<1>1. journal.entries \in SUBSET Entry /\ IsFiniteSet(journal.entries)
  BY DEF AutosaveTypeOK, Journal, DiskConsistent
<1>2. journal' \in Journal /\ Partial(journal) \in Journal
  BY <1>0 DEF AutosaveTypeOK, Journal, Appended, Partial
<1>3. Partial(journal).entries = journal.entries
  BY DEF Partial, AutosaveTypeOK, Journal
<1>4. /\ journal'.entries = journal.entries \/ journal'.entries = journal.entries \cup {e}
      /\ IsFiniteSet(journal'.entries)
      /\ Newest(journal'.entries) \subseteq Newest(journal.entries) \cup {e}
      /\ e \in Newest(journal'.entries) => e \in journal'.entries
  <2>1. journal'.entries = journal.entries \/ journal'.entries = journal.entries \cup {e}
    BY <1>0 DEF Appended
  <2>2. /\ IsFiniteSet(journal.entries \cup {e})
        /\ Newest(journal.entries \cup {e}) \subseteq Newest(journal.entries) \cup {e}
    BY <1>0, <1>1, NewestGrows, FS_AddElement
  <2>3. e \in Newest(journal'.entries) => e \in journal'.entries
    BY DEF Newest
  <2> QED
    BY <1>1, <2>1, <2>2, <2>3
<1>5. AutosaveTypeOK'
  <2>1. op' \in [Proc -> Op]
    BY <1>0, GotoTyped DEF Steps
  <2> QED
    BY <1>0, <1>2, <2>1 DEF AutosaveTypeOK
<1>6. DiskConsistent'
  <2>1. ASSUME NEW j \in journalOnDisk'
        PROVE  IsFiniteSet(j.entries) /\ Newest(j.entries) \subseteq journal'.entries
    <3>1. CASE j \in journalOnDisk
      BY <3>1, <1>4 DEF DiskConsistent
    <3>2. CASE j = journal'
      BY <3>2, <1>4 DEF Newest
    <3>3. CASE j = Partial(journal)
      BY <3>3, <1>1, <1>3, <1>4 DEF Newest
    <3> QED
      BY <1>0, <3>1, <3>2, <3>3
  <2> QED
    BY <1>0, <2>1 DEF DiskConsistent
<1>7. OpsConsistent'
  <2> SUFFICES ASSUME NEW q \in Proc PROVE OpConsistent(q)'
    BY DEF OpsConsistent
  <2>1. CASE q = p
    BY <2>1, <1>0 DEF OpsConsistent, OpConsistent, Recording, AutosaveTypeOK, AppendEntry, At, Goto, Op
  <2>2. CASE q # p
    BY <2>2, <1>0, OthersWait DEF Goto, AutosaveTypeOK
  <2> QED
    BY <2>1, <2>2
<1>8. NewestBacked'
  <2> SUFFICES ASSUME NEW j \in journalOnDisk', NEW x \in Newest(j.entries)
               PROVE  fileOnDisk[x.seq] = {x.body}
    BY <1>0 DEF NewestBacked
  <2>1. CASE x = e
    BY <2>1 DEF OpsConsistent, OpConsistent, AppendEntry, At
  <2>2. CASE x # e
    <3>1. x \in Newest(journal.entries) \/ j \in journalOnDisk
      BY <2>2, <1>0, <1>3, <1>4
    <3> QED
      BY <3>1 DEF NewestBacked, DiskConsistent
  <2> QED
    BY <2>1, <2>2
<1> QED
  BY <1>5, <1>6, <1>7, <1>8

\* A partial line adds no entry.
LEMMA AppendPartiallyPreserves ==
    ASSUME AutosaveInv, NEW p \in Proc, AppendPartially(p)
    PROVE  AutosaveInv'
<1> USE DEF AutosaveInv
<1>0. /\ lock = {p} /\ Return(p)
      /\ journal' = Partial(journal) /\ journalOnDisk' = journalOnDisk \cup {journal'}
      /\ UNCHANGED <<file, fileOnDisk, acked>>
  BY InRecord DEF AppendPartially, At, Recording
<1>1. journal' \in Journal /\ journal'.entries = journal.entries
  BY <1>0 DEF AutosaveTypeOK, Journal, Partial
<1>2. AutosaveTypeOK'
  <2>1. op' \in [Proc -> Op] /\ lock' = {}
    BY <1>0, ReturnTyped DEF Return
  <2> QED
    BY <1>0, <1>1, <2>1 DEF AutosaveTypeOK
<1>3. DiskConsistent'
  BY <1>0, <1>1 DEF DiskConsistent
<1>4. OpsConsistent'
  <2> SUFFICES ASSUME NEW q \in Proc PROVE OpConsistent(q)'
    BY DEF OpsConsistent
  <2>1. CASE q = p
    BY <2>1, <1>0 DEF OpsConsistent, OpConsistent, Recording, AutosaveTypeOK, AppendPartially, At, Return, Nothing, Op
  <2>2. CASE q # p
    BY <2>2, <1>0, OthersWait DEF Return, AutosaveTypeOK
  <2> QED
    BY <2>1, <2>2
<1>5. NewestBacked'
  BY <1>0, <1>1 DEF NewestBacked, DiskConsistent
<1> QED
  BY <1>2, <1>3, <1>4, <1>5

\* The syncs after the append and after the compaction leave the current
\* journal as the only one that may come back.
LEMMA SyncJournalPreserves ==
    ASSUME AutosaveInv, NEW p \in Proc, SyncJournal(p) \/ SyncCompacted(p)
    PROVE  AutosaveInv'
<1> USE DEF AutosaveInv
<1>0. /\ lock = {p} /\ SyncDirectory
      /\ journalOnDisk' = {journal}
      /\ UNCHANGED <<journal, file, lock, acked>>
      /\ Goto(p, "prune") \/ Goto(p, "gc")
      /\ op[p].entry.body \in Body /\ ~op[p].waiting
  BY InRecord DEF SyncJournal, SyncCompacted, At, Recording
<1>1. AutosaveTypeOK'
  <2>1. op' \in [Proc -> Op]
    BY <1>0, GotoTyped DEF Steps
  <2> QED
    BY <1>0, <2>1, SyncNarrows DEF AutosaveTypeOK
<1>2. DiskConsistent'
  BY <1>0, SyncNarrows DEF DiskConsistent
<1>3. OpsConsistent'
  <2> SUFFICES ASSUME NEW q \in Proc PROVE OpConsistent(q)'
    BY DEF OpsConsistent
  <2>1. CASE q = p
    BY <2>1, <1>0 DEF OpsConsistent, OpConsistent, Recording, AutosaveTypeOK, SyncJournal, At, Goto, Op
  <2>2. CASE q # p
    BY <2>2, <1>0, OthersWait DEF Goto, AutosaveTypeOK
  <2> QED
    BY <2>1, <2>2
<1>4. NewestBacked'
  BY <1>0, SyncKeepsBacked DEF NewestBacked, DiskConsistent
<1> QED
  BY <1>1, <1>2, <1>3, <1>4

\* Compaction keeps exactly the entries recovery may fall back on.
LEMMA CompactPreserves ==
    ASSUME AutosaveInv, NEW p \in Proc, Compact(p)
    PROVE  AutosaveInv'
<1> USE DEF AutosaveInv
<1>0. /\ lock = {p} /\ Goto(p, "syncPrune")
      /\ journal' = [present |-> TRUE, entries |-> Newest(journal.entries),
                     rejected |-> {}, torn |-> FALSE]
      /\ journalOnDisk = {journal} /\ journalOnDisk' = {journal, journal'}
      /\ UNCHANGED <<file, fileOnDisk, lock, acked>>
  BY InRecord DEF Compact, At, Recording, OpsConsistent, OpConsistent
<1>1. /\ journal.entries \in SUBSET Entry /\ IsFiniteSet(journal.entries)
      /\ Newest(journal.entries) \subseteq journal.entries
  BY DEF AutosaveTypeOK, Journal, DiskConsistent
<1>2. journal' \in Journal /\ journal'.entries = Newest(journal.entries)
  BY <1>0, <1>1 DEF Journal
<1>3. IsFiniteSet(journal'.entries) /\ Newest(journal'.entries) \subseteq journal'.entries
  BY <1>1, <1>2, FS_Subset DEF Newest
<1>4. AutosaveTypeOK'
  <2>1. op' \in [Proc -> Op]
    BY <1>0, GotoTyped DEF Steps
  <2> QED
    BY <1>0, <1>2, <2>1 DEF AutosaveTypeOK
<1>5. DiskConsistent'
  BY <1>0, <1>1, <1>2, <1>3 DEF DiskConsistent
<1>6. OpsConsistent'
  <2> SUFFICES ASSUME NEW q \in Proc PROVE OpConsistent(q)'
    BY DEF OpsConsistent
  <2>1. CASE q = p
    BY <2>1, <1>0 DEF OpsConsistent, OpConsistent, Recording, AutosaveTypeOK, Compact, At, Goto, Op
  <2>2. CASE q # p
    BY <2>2, <1>0, OthersWait DEF Goto, AutosaveTypeOK
  <2> QED
    BY <2>1, <2>2
<1>7. NewestBacked'
  BY <1>0, <1>2, <1>3 DEF NewestBacked
<1> QED
  BY <1>4, <1>5, <1>6, <1>7

LEMMA SkipCompactPreserves ==
    ASSUME AutosaveInv, NEW p \in Proc, SkipCompact(p)
    PROVE  AutosaveInv'
<1> USE DEF AutosaveInv
<1>0. /\ lock = {p} /\ Goto(p, "gc") /\ UNCHANGED <<stored, lock, acked>>
  BY InRecord DEF SkipCompact, At, Recording
<1>1. AutosaveTypeOK'
  <2>1. op' \in [Proc -> Op]
    BY <1>0, GotoTyped DEF Steps
  <2> QED
    BY <1>0, <2>1 DEF AutosaveTypeOK, stored
<1>2. DiskConsistent'
  BY <1>0 DEF DiskConsistent, stored
<1>3. OpsConsistent'
  <2> SUFFICES ASSUME NEW q \in Proc PROVE OpConsistent(q)'
    BY DEF OpsConsistent
  <2>1. CASE q = p
    BY <2>1, <1>0 DEF OpsConsistent, OpConsistent, Recording, AutosaveTypeOK, SkipCompact, At, Goto, stored, Op
  <2>2. CASE q # p
    BY <2>2, <1>0, OthersWait DEF Goto, AutosaveTypeOK
  <2> QED
    BY <2>1, <2>2
<1>4. NewestBacked'
  BY <1>0 DEF NewestBacked, stored
<1> QED
  BY <1>1, <1>2, <1>3, <1>4

\* Orphan collection, at the end of record or in recover, removes nothing that
\* a journal which may come back refers to.
LEMMA CollectPreserves ==
    ASSUME AutosaveInv, NEW p \in Proc, lock = {p}, Return(p), acked' \subseteq Entry,
           UNCHANGED <<journal, journalOnDisk>>,
           CollectOrphans(journal.entries) \/ UNCHANGED <<file, fileOnDisk>>
    PROVE  AutosaveInv'
<1> USE DEF AutosaveInv
<1>0. PICK gone \in SUBSET (Seqs \ Referenced(journal.entries)) :
        /\ file' = [s \in Seqs |-> IF s \in gone THEN NoFile ELSE file[s]]
        /\ fileOnDisk' = [s \in Seqs |-> IF s \in gone
                                           THEN fileOnDisk[s] \cup {NoFile}
                                           ELSE fileOnDisk[s]]
  <2>1. CASE CollectOrphans(journal.entries)
    BY <2>1 DEF CollectOrphans
  <2>2. CASE UNCHANGED <<file, fileOnDisk>>
    <3>1. /\ file' = [s \in Seqs |-> IF s \in {} THEN NoFile ELSE file[s]]
          /\ fileOnDisk' = [s \in Seqs |-> IF s \in {}
                                             THEN fileOnDisk[s] \cup {NoFile}
                                             ELSE fileOnDisk[s]]
      BY <2>2 DEF AutosaveTypeOK
    <3> WITNESS {} \in SUBSET (Seqs \ Referenced(journal.entries))
    <3> QED
      BY <3>1
  <2> QED
    BY <2>1, <2>2
<1>1. AutosaveTypeOK'
  <2>1. op' \in [Proc -> Op] /\ lock' = {}
    BY ReturnTyped DEF Return
  <2>2. /\ file' \in [Seqs -> Body \cup {NoFile}]
        /\ fileOnDisk' \in [Seqs -> SUBSET (Body \cup {NoFile})]
    BY <1>0 DEF AutosaveTypeOK
  <2> QED
    BY <2>1, <2>2 DEF AutosaveTypeOK
<1>2. DiskConsistent'
  BY <1>0 DEF DiskConsistent, AutosaveTypeOK
<1>3. OpsConsistent'
  <2> SUFFICES ASSUME NEW q \in Proc PROVE OpConsistent(q)'
    BY DEF OpsConsistent
  <2>1. CASE q = p
    BY <2>1 DEF OpConsistent, Recording, Return, Nothing, AutosaveTypeOK
  <2>2. CASE q # p
    BY <2>2, OthersWait DEF Return, AutosaveTypeOK
  <2> QED
    BY <2>1, <2>2
<1>4. NewestBacked'
  <2> SUFFICES ASSUME NEW j \in journalOnDisk, NEW x \in Newest(j.entries)
               PROVE  fileOnDisk'[x.seq] = {x.body}
    BY DEF NewestBacked
  <2>1. x \in journal.entries /\ x \in j.entries
    BY DEF DiskConsistent, Newest
  <2>2. x.seq \in Seqs /\ x.seq \notin gone
    BY <1>0, <2>1, EntriesTyped DEF Referenced
  <2>3. fileOnDisk[x.seq] = {x.body}
    BY DEF NewestBacked
  <2> QED
    BY <1>0, <2>2, <2>3
<1> QED
  BY <1>1, <1>2, <1>3, <1>4

\* After a power loss one of the contents is left that could be.
LEMMA PowerLossPreserves ==
    ASSUME AutosaveInv, PowerLoss
    PROVE  AutosaveInv'
<1> USE DEF AutosaveInv
<1>1. PICK j \in journalOnDisk : journal' = j /\ journalOnDisk' = {j}
  BY DEF PowerLoss
<1>2. PICK f \in [Seqs -> Body \cup {NoFile}] :
        /\ \A s \in Seqs : f[s] \in fileOnDisk[s]
        /\ file' = f /\ fileOnDisk' = [s \in Seqs |-> {f[s]}]
  BY DEF PowerLoss
<1>3. lock' = {} /\ acked' = acked /\ op' = [q \in Proc |-> Nothing]
  BY DEF PowerLoss
<1>4. IsFiniteSet(j.entries) /\ Newest(j.entries) \subseteq j.entries /\ j \in Journal
  BY DEF DiskConsistent, Newest, AutosaveTypeOK
<1>5. AutosaveTypeOK'
  <2>1. op' \in [Proc -> Op]
    BY <1>3, ConstantsAssumption DEF Nothing, Op, Steps, Seqs
  <2>2. fileOnDisk' \in [Seqs -> SUBSET (Body \cup {NoFile})]
    BY <1>2
  <2> QED
    BY <1>1, <1>2, <1>3, <1>4, <2>1, <2>2 DEF AutosaveTypeOK
<1>6. DiskConsistent'
  BY <1>1, <1>2, <1>4 DEF DiskConsistent
<1>7. OpsConsistent'
  BY <1>3 DEF OpsConsistent, OpConsistent, Recording, Nothing
<1>8. NewestBacked'
  <2> SUFFICES ASSUME NEW x \in Newest(j.entries)
               PROVE  fileOnDisk'[x.seq] = {x.body}
    BY <1>1 DEF NewestBacked
  <2>1. fileOnDisk[x.seq] = {x.body} /\ x.seq \in Seqs
    BY <1>4, EntriesTyped DEF NewestBacked
  <2> QED
    BY <1>2, <2>1
<1> QED
  BY <1>5, <1>6, <1>7, <1>8

-----------------------------------------------------------------------------
(* Theorems *)

LEMMA NextPreserves == AutosaveInv /\ [AutosaveNext]_autosaveVars => AutosaveInv'
<1> SUFFICES ASSUME AutosaveInv, [AutosaveNext]_autosaveVars PROVE AutosaveInv'
  OBVIOUS
<1>1. ASSUME NEW p \in Proc, Exhausted(p) \/ Abort(p)
      PROVE  Return(p) /\ UNCHANGED <<stored, acked>> /\ lock = {p}
  <2>1. CASE Exhausted(p)
    BY <2>1, InRecord DEF Exhausted, At, Recording, AutosaveInv
  <2>2. CASE Abort(p)
    BY <2>2 DEF Abort, AutosaveInv, AutosaveTypeOK
  <2> QED
    BY <1>1, <2>1, <2>2
<1>2. ASSUME NEW p \in Proc, GcAndReturn(p) \/ Recover(p)
      PROVE  AutosaveInv'
  <2>1. lock = {p}
    BY <1>2 DEF GcAndReturn, Recover, At, AutosaveInv, OpsConsistent, OpConsistent
  <2>2. acked' \subseteq Entry
    BY <1>2, InRecord DEF GcAndReturn, Recover, At, Recording, AutosaveInv, AutosaveTypeOK
  <2> QED
    BY <1>2, <2>1, <2>2, CollectPreserves DEF GcAndReturn, Recover
<1>3. ASSUME NEW p \in Proc, Step(p)
      PROVE  AutosaveInv'
  BY <1>1, <1>2, <1>3, ReadJournalPreserves, ReturnPreserves, WriteSnapshotPreserves,
     SyncSnapshotPreserves, AppendEntryPreserves, SyncJournalPreserves,
     CompactPreserves, SkipCompactPreserves
     DEF Step
<1>4. CASE \E p \in Proc : Call(p) \/ AcquireLock(p) \/ LockTimeout(p)
                              \/ Step(p) \/ AppendPartially(p) \/ Abort(p)
  BY <1>1, <1>3, <1>4, CallPreserves, AcquireLockPreserves, LockTimeoutPreserves,
     AppendPartiallyPreserves, ReturnPreserves
<1>5. CASE PowerLoss
  BY <1>5, PowerLossPreserves
<1>6. CASE UNCHANGED autosaveVars
  BY <1>6 DEF autosaveVars, AutosaveInv, AutosaveTypeOK, DiskConsistent, OpsConsistent, OpConsistent,
              Recording, NewestBacked
<1> QED
  BY <1>4, <1>5, <1>6 DEF AutosaveNext

\* The inductive invariant holds of every reachable state.
THEOREM Invariance == AutosaveSpec => []AutosaveInv
BY InitEstablishes, NextPreserves, PTL DEF AutosaveSpec

\* Every variable has its type and the lock has at most one holder.
THEOREM Typed == AutosaveSpec => []AutosaveTypeOK
<1>1. AutosaveInv => AutosaveTypeOK
  BY DEF AutosaveInv
<1> QED
  BY <1>1, Invariance, PTL

\* Whatever a crash or a power loss leaves, the newest Retention entries of the
\* journal name snapshots that are there and verify.
THEOREM RecoveryFindsNewest == AutosaveSpec => []NewestBacked
<1>1. AutosaveInv => NewestBacked
  BY DEF AutosaveInv
<1> QED
  BY <1>1, Invariance, PTL

-----------------------------------------------------------------------------
(* What recovery is sure to find never gets older *)

\* Selecting the newest of the newest selects nothing less.
LEMMA NewestIdempotent ==
    ASSUME NEW E \in SUBSET Entry, IsFiniteSet(E)
    PROVE  Newest(Newest(E)) = Newest(E)
<1> SUFFICES ASSUME NEW e \in Newest(E)
             PROVE  Cardinality(Newer(e, Newest(E))) < Retention
  BY DEF Newest
<1>1. Newer(e, Newest(E)) \subseteq Newer(e, E) /\ IsFiniteSet(Newer(e, E))
  BY FS_Subset DEF Newer, Newest
<1>2. /\ IsFiniteSet(Newer(e, Newest(E)))
      /\ Cardinality(Newer(e, Newest(E))) <= Cardinality(Newer(e, E))
  BY <1>1, FS_Subset
<1>3. /\ Cardinality(Newer(e, Newest(E))) \in Nat /\ Cardinality(Newer(e, E)) \in Nat
      /\ Cardinality(Newer(e, E)) < Retention
  BY <1>1, <1>2, FS_CardinalityType DEF Newest
<1> QED
  BY <1>2, <1>3, ConstantsAssumption

\* An entry above all others is one of the newest.
LEMMA HighestIsNewest ==
    ASSUME NEW E \in SUBSET Entry, NEW x \in Entry, \A e \in E : e.seq < x.seq
    PROVE  x \in Newest(E \cup {x})
<1>1. Newer(x, E \cup {x}) = {}
  BY ConstantsAssumption DEF Newer, Entry, Seqs
<1> QED
  <2>1. Cardinality({}) = 0
    BY FS_EmptySet
  <2>2. 0 < Retention
    BY ConstantsAssumption
  <2>3. Cardinality(Newer(x, E \cup {x})) < Retention
    BY <1>1, <2>1, <2>2
  <2> QED
    BY <2>3 DEF Newest

\* Appending a higher entry keeps what is guaranteed.
LEMMA AppendKeeps ==
    ASSUME AutosaveInv, NEW p \in Proc, AppendEntry(p), NEW s \in Seqs, Guaranteed(s)
    PROVE  Guaranteed(s)'
<1> DEFINE e == op[p].entry
<1>1. e \in Entry /\ \A x \in journal.entries : x.seq < e.seq
  BY InRecord DEF AutosaveInv, AppendEntry, At, Recording, OpsConsistent, OpConsistent
<1>2. /\ journal \in journalOnDisk /\ journal.entries \in SUBSET Entry
      /\ Partial(journal).entries = journal.entries
  BY DEF AutosaveInv, DiskConsistent, AutosaveTypeOK, Journal, Partial
<1>3. PICK x \in Newest(journal.entries) : x.seq >= s
  BY <1>2 DEF Guaranteed
<1>4. journal'.entries \in {journal.entries, journal.entries \cup {e}}
  BY DEF AppendEntry, Appended
<1>5. \E y \in Newest(journal'.entries) : y.seq >= s
  <2>1. CASE journal'.entries = journal.entries
    BY <1>3, <2>1
  <2>2. CASE journal'.entries = journal.entries \cup {e}
    <3>1. e \in Newest(journal'.entries)
      BY <1>1, <1>2, <2>2, HighestIsNewest
    <3>2. x \in Entry /\ x.seq < e.seq
      BY <1>1, <1>2, <1>3 DEF Newest
    <3> QED
      BY <1>1, <1>3, <3>1, <3>2, ConstantsAssumption DEF Entry, Seqs
  <2> QED
    BY <1>4, <2>1, <2>2
<1> QED
  BY <1>2, <1>5 DEF Guaranteed, AppendEntry

LEMMA StepKeeps ==
    ASSUME AutosaveInv, [AutosaveNext]_autosaveVars, NEW s \in Seqs, Guaranteed(s)
    PROVE  Guaranteed(s)'
<1>1. ASSUME UNCHANGED journalOnDisk
      PROVE  Guaranteed(s)'
  BY <1>1 DEF Guaranteed
<1>2. ASSUME journalOnDisk' \subseteq journalOnDisk
      PROVE  Guaranteed(s)'
  BY <1>2 DEF Guaranteed
<1>3. ASSUME NEW p \in Proc, Step(p) \/ AppendPartially(p)
      PROVE  Guaranteed(s)'
  <2>1. CASE AppendEntry(p)
    BY <2>1, AppendKeeps
  <2>2. CASE AppendPartially(p)
    <3>1. journal \in journalOnDisk /\ Partial(journal).entries = journal.entries
      BY DEF AutosaveInv, DiskConsistent, AutosaveTypeOK, Journal, Partial
    <3> QED
      BY <2>2, <3>1 DEF Guaranteed, AppendPartially
  <2>3. CASE Compact(p)
    <3>1. /\ journal \in journalOnDisk
          /\ journal.entries \in SUBSET Entry /\ IsFiniteSet(journal.entries)
          /\ journal'.entries = Newest(journal.entries)
      BY <2>3 DEF AutosaveInv, DiskConsistent, AutosaveTypeOK, Journal, Compact
    <3>2. Newest(journal'.entries) = Newest(journal.entries)
      BY <3>1, NewestIdempotent
    <3> QED
      BY <2>3, <3>1, <3>2 DEF Guaranteed, Compact
  <2>4. CASE SyncJournal(p) \/ SyncCompacted(p)
    BY <1>2, <2>4 DEF SyncJournal, SyncCompacted, AutosaveInv, DiskConsistent
  <2>5. CASE \/ ReadJournal(p) \/ Exhausted(p) \/ WriteSnapshot(p) \/ SyncSnapshot(p)
             \/ SkipCompact(p) \/ GcAndReturn(p) \/ Recover(p)
    BY <1>1, <2>5 DEF ReadJournal, Exhausted, WriteSnapshot, SyncSnapshot, SkipCompact,
                      GcAndReturn, Recover, stored
  <2> QED
    BY <1>3, <2>1, <2>2, <2>3, <2>4, <2>5 DEF Step
<1>4. ASSUME NEW p \in Proc, Call(p) \/ AcquireLock(p) \/ LockTimeout(p) \/ Abort(p)
      PROVE  Guaranteed(s)'
  BY <1>1, <1>4 DEF Call, AcquireLock, LockTimeout, Abort, stored
<1>5. CASE PowerLoss
  BY <1>2, <1>5 DEF PowerLoss
<1>6. CASE UNCHANGED autosaveVars
  BY <1>1, <1>6 DEF autosaveVars
<1> QED
  BY <1>3, <1>4, <1>5, <1>6 DEF AutosaveNext

\* No step of any program, and no failure, makes what recovery is sure to find
\* older.
THEOREM NothingForgotten == AutosaveSpec => NeverForgets
<1>1. AutosaveInv /\ [AutosaveNext]_autosaveVars
        => [\A s \in Seqs : Guaranteed(s) => Guaranteed(s)']_autosaveVars
  BY StepKeeps
<1> QED
  BY <1>1, Invariance, PTL DEF AutosaveSpec, NeverForgets

-----------------------------------------------------------------------------
(* The store keeps the promise of RecoverableDocument *)

\* The highest entry of a journal, as a set of at most one entry.
Top(E) == {e \in E : Newer(e, E) = {}}

\* Once its line is written, the entry of a program is the highest of the
\* journal, and before record returns it is that of every journal on disk.
Saved(p) ==
    /\ op[p].step \in {"syncJournal", "prune", "syncPrune", "gc"} =>
         Top(journal.entries) = {op[p].entry}
    /\ op[p].step = "gc" => journalOnDisk = {journal}

\* Without torn appends no journal ends in a partial line.
SInv ==
    /\ AutosaveInv
    /\ \A j \in journalOnDisk : ~j.torn
    /\ \A p \in Proc : Saved(p)

\* A finite set of entries that is not empty has a highest one: the one with
\* the smallest set of entries above it.
LEMMA TopExists ==
    ASSUME NEW E \in SUBSET Entry, IsFiniteSet(E), E # {}
    PROVE  Top(E) # {}
<1> DEFINE T == {Newer(e, E) : e \in E}
<1>0. \A e \in E : e.seq \in Int
  BY ConstantsAssumption DEF Entry, Seqs
<1>1. IsWellFoundedOn(StrictSubsetOrdering(E), SUBSET E)
  <2>1. FiniteSubsetsOf(E) = SUBSET E
    BY FS_FiniteSubsetsOfFinite
  <2>2. IsWellFoundedOn(StrictSubsetOrdering(E), FiniteSubsetsOf(E))
    BY FS_StrictSubsetOrderingWellFounded
  <2> QED
    BY <2>1, <2>2
<1>2. T \subseteq SUBSET E /\ T # {}
  BY DEF Newer
<1> HIDE DEF T
<1>3. \E x \in T : \A y \in T : ~ (<<y, x>> \in StrictSubsetOrdering(E))
  BY <1>1, <1>2, WFMin, Zenon
<1>4. PICK e \in E : \A y \in T : ~ (<<y, Newer(e, E)>> \in StrictSubsetOrdering(E))
  BY <1>3 DEF T
<1>5. ASSUME NEW g \in Newer(e, E) PROVE FALSE
  <2>1. g \in E /\ g.seq > e.seq
    BY DEF Newer
  <2>2. g \notin Newer(g, E) /\ Newer(g, E) \subseteq Newer(e, E) /\ Newer(e, E) \subseteq E
    BY <1>0, <2>1 DEF Newer
  <2>3. <<Newer(g, E), Newer(e, E)>> \in StrictSubsetOrdering(E)
    BY <2>2 DEF StrictSubsetOrdering
  <2>4. Newer(g, E) \in T
    BY <2>1 DEF T
  <2> QED
    BY <1>4, <2>3, <2>4
<1> QED
  BY <1>5 DEF Top

\* The highest entry is one of the newest, and is the highest of those.
LEMMA TopIsNewest ==
    ASSUME NEW E \in SUBSET Entry
    PROVE  Top(E) \subseteq Newest(E) /\ Newest(E) \subseteq E
<1>1. Cardinality({}) = 0 /\ 0 < Retention
  BY FS_EmptySet, ConstantsAssumption
<1> QED
  BY <1>1 DEF Top, Newest

LEMMA TopOfNewest ==
    ASSUME NEW E \in SUBSET Entry, IsFiniteSet(E)
    PROVE  Top(Newest(E)) = Top(E)
<1>0. \A e \in E : e.seq \in Int
  BY ConstantsAssumption DEF Entry, Seqs
<1>1. ASSUME NEW e \in Top(E) PROVE e \in Top(Newest(E))
  BY TopIsNewest DEF Top, Newer
<1>2. ASSUME NEW e \in Top(Newest(E)) PROVE e \in Top(E)
  <2>1. e \in E /\ Newer(e, Newest(E)) = {}
    BY TopIsNewest DEF Top
  <2>2. PICK x \in Top(E) : TRUE
    BY <2>1, TopExists
  <2>3. x \in E /\ x \in Newest(E) /\ Newer(x, E) = {}
    BY TopIsNewest DEF Top
  <2>4. ~(x.seq > e.seq) /\ \A g \in E : ~(g.seq > x.seq)
    BY <2>1, <2>3 DEF Newer
  <2>5. \A g \in E : ~(g.seq > e.seq)
    BY <1>0, <2>1, <2>3, <2>4
  <2> QED
    BY <2>1, <2>5 DEF Top, Newer
<1> QED
  BY <1>1, <1>2

\* A line above all others is the only highest one.
LEMMA TopOfAppended ==
    ASSUME NEW E \in SUBSET Entry, NEW x \in Entry, \A e \in E : e.seq < x.seq
    PROVE  Top(E \cup {x}) = {x}
<1>0. x.seq \in Int /\ \A e \in E : e.seq \in Int
  BY ConstantsAssumption DEF Entry, Seqs
<1>1. Newer(x, E \cup {x}) = {}
  BY <1>0 DEF Newer
<1>2. \A e \in E : x \in Newer(e, E \cup {x})
  BY DEF Newer
<1> QED
  BY <1>1, <1>2 DEF Top

\* Whatever a journal on disk meets, recovery finds its highest entry: the
\* newest are all backed by the files.
LEMMA RecoveryFindsTop ==
    ASSUME AutosaveInv, NEW j \in journalOnDisk, NEW f \in [Seqs -> Body \cup {NoFile}],
           \A s \in Seqs : f[s] \in fileOnDisk[s]
    PROVE  RecoverFrom(j.entries, f) = Top(j.entries)
<1>1. j.entries \in SUBSET Entry /\ IsFiniteSet(j.entries)
  BY DEF AutosaveInv, AutosaveTypeOK, Journal, DiskConsistent
<1>0. \A e \in j.entries : e.seq \in Int /\ e.seq \in Seqs
  BY <1>1, ConstantsAssumption DEF Entry, Seqs
<1>2. ASSUME NEW e \in Top(j.entries) PROVE e \in j.entries /\ Newer(e, j.entries) = {} /\ Verifies(e, f)
  <2>1. e \in j.entries /\ Newer(e, j.entries) = {} /\ e \in Newest(j.entries)
    BY <1>1, TopIsNewest DEF Top
  <2>2. fileOnDisk[e.seq] = {e.body} /\ e.seq \in Seqs
    BY <1>0, <2>1 DEF AutosaveInv, NewestBacked
  <2> QED
    BY <2>1, <2>2 DEF Verifies
<1>3. ASSUME NEW e \in RecoverFrom(j.entries, f) PROVE e \in Top(j.entries)
  <2>1. e \in j.entries /\ \A g \in Newer(e, j.entries) : ~Verifies(g, f)
    BY DEF RecoverFrom
  <2>2. PICK x \in Top(j.entries) : TRUE
    BY <1>1, <2>1, TopExists
  <2>3. x \in j.entries /\ Newer(x, j.entries) = {} /\ Verifies(x, f)
    BY <1>2
  <2>4. x \notin Newer(e, j.entries)
    BY <2>1, <2>3
  <2>5. ~(x.seq > e.seq) /\ \A g \in j.entries : ~(g.seq > x.seq)
    BY <2>3, <2>4 DEF Newer
  <2>6. \A g \in j.entries : ~(g.seq > e.seq)
    BY <1>0, <2>1, <2>3, <2>5
  <2> QED
    BY <2>1, <2>6 DEF Top, Newer
<1> QED
  BY <1>2, <1>3 DEF RecoverFrom

\* So the results recovery may have are given by the journals alone.
LEMMA OutcomesAreTops ==
    ASSUME AutosaveInv
    PROVE  Outcomes = {Top(j.entries) : j \in journalOnDisk}
<1> DEFINE Files == {g \in [Seqs -> Body \cup {NoFile}] : \A s \in Seqs : g[s] \in fileOnDisk[s]}
<1>1. file \in Files
  BY DEF AutosaveInv, AutosaveTypeOK, DiskConsistent
<1>2. \A j \in journalOnDisk : \A f \in Files : RecoverFrom(j.entries, f) = Top(j.entries)
  BY RecoveryFindsTop
<1>3. Outcomes = {RecoverFrom(j.entries, f) : j \in journalOnDisk, f \in Files}
  BY DEF Outcomes
<1> HIDE DEF Files
<1>4. ASSUME NEW o \in Outcomes PROVE o \in {Top(j.entries) : j \in journalOnDisk}
  <2>1. PICK j \in journalOnDisk, f \in Files : o = RecoverFrom(j.entries, f)
    BY <1>3
  <2> QED
    BY <1>2, <2>1
<1>5. ASSUME NEW j \in journalOnDisk PROVE Top(j.entries) \in Outcomes
  BY <1>1, <1>2, <1>3
<1> QED
  BY <1>4, <1>5

LEMMA OthersSaved ==
    ASSUME AutosaveInv, NEW p \in Proc, NEW q \in Proc, q # p, lock = {p}, op'[q] = op[q]
    PROVE  Saved(q)'
<1>1. op[q].step \in {"idle", "read", "recover"}
  BY DEF AutosaveInv, OpsConsistent, OpConsistent
<1> QED
  BY <1>1 DEF Saved

\* The line just written is the highest entry, of a journal that is whole.
LEMMA AppendSaves ==
    ASSUME ~TornAppends, SInv, NEW p \in Proc, AppendEntry(p)
    PROVE  /\ op[p].entry \in Entry /\ lock = {p}
           /\ \A x \in journal.entries : x.seq < op[p].entry.seq
           /\ journalOnDisk' = journalOnDisk \cup {journal'} /\ ~journal'.torn
           /\ Top(journal'.entries) = {op[p].entry}
<1> DEFINE e == op[p].entry
<1>1. e \in Entry /\ lock = {p} /\ \A x \in journal.entries : x.seq < e.seq
  BY InRecord DEF SInv, AutosaveInv, AppendEntry, At, Recording, OpsConsistent, OpConsistent
<1>2. journal.entries \in SUBSET Entry /\ ~journal.torn
  BY DEF SInv, AutosaveInv, AutosaveTypeOK, Journal, DiskConsistent
<1>3. journal'.entries = journal.entries \cup {e} /\ ~journal'.torn
  BY <1>2 DEF AppendEntry, Appended
<1>4. journalOnDisk' = journalOnDisk \cup {journal'}
  BY DEF AppendEntry
<1> QED
  BY <1>1, <1>2, <1>3, <1>4, TopOfAppended

LEMMA SInvStep ==
    ASSUME ~TornAppends, SInv, [AutosaveNext]_autosaveVars
    PROVE  SInv'
<1>0. AutosaveInv /\ AutosaveInv'
  BY NextPreserves DEF SInv
<1>1. ASSUME journalOnDisk' \subseteq journalOnDisk
      PROVE  \A j \in journalOnDisk' : ~j.torn
  BY <1>1 DEF SInv
<1>2. ASSUME NEW p \in Proc, lock = {p}, \A q \in Proc \ {p} : op'[q] = op[q], Saved(p)'
      PROVE  \A q \in Proc : Saved(q)'
  BY <1>0, <1>2, OthersSaved
<1>3. ASSUME NEW p \in Proc, Call(p) \/ AcquireLock(p) \/ LockTimeout(p)
      PROVE  SInv'
  <2>1. UNCHANGED <<journal, journalOnDisk>>
    BY <1>3 DEF Call, AcquireLock, LockTimeout, stored
  <2>3. \A q \in Proc \ {p} : op'[q] = op[q]
    <3>1. op \in [Proc -> Op]
      BY <1>0 DEF AutosaveInv, AutosaveTypeOK
    <3> QED
      BY <1>3, <3>1 DEF Call, AcquireLock, LockTimeout
  <2>2. op'[p].step \in {"idle", "read", "recover"}
    BY <1>0, <1>3 DEF Call, AcquireLock, LockTimeout, AutosaveInv, AutosaveTypeOK, Op, Nothing, OpsConsistent, OpConsistent
  <2> QED
    BY <1>0, <1>1, <2>1, <2>2, <2>3 DEF SInv, Saved
<1>4. ASSUME NEW p \in Proc, lock = {p}, Return(p), journalOnDisk' = journalOnDisk
      PROVE  SInv'
  <2>1. \A q \in Proc \ {p} : op'[q] = op[q]
    BY <1>4 DEF Return
  <2>2. op'[p].step = "idle"
    BY <1>0, <1>4 DEF Return, AutosaveInv, AutosaveTypeOK, Nothing
  <2> QED
    BY <1>0, <1>1, <1>2, <1>4, <2>1, <2>2 DEF SInv, Saved
<1>5. ASSUME NEW p \in Proc, Exhausted(p) \/ GcAndReturn(p) \/ Recover(p) \/ Abort(p)
      PROVE  SInv'
  <2>1. Return(p) /\ journalOnDisk' = journalOnDisk
    BY <1>5 DEF Exhausted, GcAndReturn, Recover, Abort, stored
  <2>2. lock = {p}
    BY <1>0, <1>5 DEF Exhausted, GcAndReturn, Recover, Abort, At, AutosaveInv, AutosaveTypeOK, OpsConsistent, OpConsistent
  <2> QED
    BY <1>4, <2>1, <2>2
<1>6. ASSUME NEW p \in Proc, lock = {p}, NEW t \in Steps, Goto(p, t)
      PROVE  /\ \A q \in Proc \ {p} : op'[q] = op[q]
             /\ op'[p].step = t /\ op'[p].entry = op[p].entry
  BY <1>0, <1>6 DEF Goto, AutosaveInv, AutosaveTypeOK, Op
<1>7. ASSUME NEW p \in Proc, ReadJournal(p)
      PROVE  SInv'
  <2>1. lock = {p} /\ journalOnDisk' = journalOnDisk
    BY <1>0, <1>7 DEF ReadJournal, stored, At, AutosaveInv, OpsConsistent, OpConsistent
  <2>3. \A q \in Proc \ {p} : op'[q] = op[q]
    <3>1. op \in [Proc -> Op]
      BY <1>0 DEF AutosaveInv, AutosaveTypeOK
    <3> QED
      BY <1>7, <3>1 DEF ReadJournal
  <2>2. op'[p].step = "write"
    BY <1>0, <1>7 DEF ReadJournal, AutosaveInv, AutosaveTypeOK, Op
  <2> QED
    BY <1>0, <1>1, <1>2, <2>1, <2>2, <2>3 DEF SInv, Saved
<1>8. ASSUME NEW p \in Proc, WriteSnapshot(p) \/ SyncSnapshot(p)
      PROVE  SInv'
  <2>1. lock = {p} /\ journalOnDisk' = journalOnDisk
    BY <1>0, <1>8, InRecord DEF WriteSnapshot, SyncSnapshot, At, Recording, AutosaveInv
  <2>2. Goto(p, "syncFile") \/ Goto(p, "append")
    BY <1>8 DEF WriteSnapshot, SyncSnapshot
  <2>3. op'[p].step \in {"syncFile", "append"} /\ \A q \in Proc \ {p} : op'[q] = op[q]
    BY <1>6, <2>1, <2>2 DEF Steps
  <2> QED
    BY <1>0, <1>1, <1>2, <2>1, <2>3 DEF SInv, Saved
<1>9. ASSUME NEW p \in Proc, AppendEntry(p)
      PROVE  SInv'
  <2>1. /\ lock = {p} /\ journalOnDisk' = journalOnDisk \cup {journal'} /\ ~journal'.torn
        /\ Top(journal'.entries) = {op[p].entry}
    BY <1>9, AppendSaves
  <2>2. op'[p].step = "syncJournal" /\ op'[p].entry = op[p].entry /\ \A q \in Proc \ {p} : op'[q] = op[q]
    BY <1>6, <1>9, <2>1 DEF AppendEntry, Steps
  <2> QED
    BY <1>0, <1>2, <2>1, <2>2 DEF SInv, Saved
<1>10. ASSUME NEW p \in Proc, SyncJournal(p) \/ SyncCompacted(p) \/ Compact(p) \/ SkipCompact(p)
       PROVE  SInv'
  <2>1. lock = {p} /\ op[p].step \in {"syncJournal", "syncPrune", "prune"}
    BY <1>0, <1>10, InRecord DEF SyncJournal, SyncCompacted, Compact, SkipCompact, At, Recording, AutosaveInv
  <2>2. Top(journal.entries) = {op[p].entry}
    BY <2>1 DEF SInv, Saved
  <2>3. \E t \in Steps : Goto(p, t)
    BY <1>10 DEF SyncJournal, SyncCompacted, Compact, SkipCompact, Steps
  <2>4. op'[p].entry = op[p].entry /\ \A q \in Proc \ {p} : op'[q] = op[q]
    BY <1>6, <2>1, <2>3
  <2>5. journal \in journalOnDisk /\ journal.entries \in SUBSET Entry /\ IsFiniteSet(journal.entries)
    BY <1>0 DEF AutosaveInv, DiskConsistent, AutosaveTypeOK, Journal
  <2>6. CASE SyncJournal(p) \/ SyncCompacted(p)
    <3>1. journalOnDisk' = {journal} /\ journal' = journal
      BY <2>6 DEF SyncJournal, SyncCompacted
    <3> QED
      BY <1>0, <1>1, <1>2, <2>1, <2>2, <2>4, <2>5, <3>1 DEF SInv, Saved
  <2>7. CASE Compact(p)
    <3>1. journal'.entries = Newest(journal.entries) /\ ~journal'.torn
          /\ journalOnDisk' = journalOnDisk \cup {journal'}
      BY <2>7 DEF Compact
    <3>2. Top(journal'.entries) = {op[p].entry}
      BY <2>2, <2>5, <3>1, TopOfNewest
    <3>3. op'[p].step = "syncPrune"
      BY <1>6, <2>1, <2>7 DEF Compact, Steps
    <3> QED
      BY <1>0, <1>2, <2>1, <2>4, <3>1, <3>2, <3>3 DEF SInv, Saved
  <2>8. CASE SkipCompact(p)
    <3>1. journalOnDisk' = journalOnDisk /\ journal' = journal /\ journalOnDisk = {journal}
      BY <1>0, <2>8 DEF SkipCompact, stored, At, AutosaveInv, OpsConsistent, OpConsistent
    <3> QED
      BY <1>0, <1>1, <1>2, <2>1, <2>2, <2>4, <3>1 DEF SInv, Saved
  <2> QED
    BY <1>10, <2>6, <2>7, <2>8
<1>11. CASE PowerLoss
  <2>1. journalOnDisk' \subseteq journalOnDisk /\ \A q \in Proc : op'[q].step = "idle"
    BY <1>11 DEF PowerLoss, Nothing
  <2> QED
    BY <1>0, <1>1, <2>1 DEF SInv, Saved
<1>12. CASE UNCHANGED autosaveVars
  BY <1>0, <1>1, <1>12 DEF autosaveVars, SInv, Saved
<1>13. ASSUME NEW p \in Proc PROVE ~AppendPartially(p)
  BY DEF AppendPartially
<1> QED
  BY <1>3, <1>5, <1>7, <1>8, <1>9, <1>10, <1>11, <1>12, <1>13 DEF AutosaveNext, Step

LEMMA InitSaves == AutosaveInit => SInv
<1> SUFFICES ASSUME AutosaveInit PROVE SInv
  OBVIOUS
<1>1. AutosaveInv
  BY InitEstablishes
<1>2. \A p \in Proc : op[p].step = "idle"
  BY DEF AutosaveInit, Nothing
<1>3. \A j \in journalOnDisk : ~j.torn
  BY DEF AutosaveInit
<1> QED
  BY <1>1, <1>2, <1>3 DEF SInv, Saved

LEMMA InitMaps == AutosaveInit => Recoverable!Init
<1> SUFFICES ASSUME AutosaveInit PROVE Outcomes = {{}} /\ acked = {}
  BY DEF Recoverable!Init
<1>1. AutosaveInv
  BY InitEstablishes
<1>2. journalOnDisk = {journal} /\ journal.entries = {} /\ acked = {}
  BY DEF AutosaveInit
<1>3. Outcomes = {Top({})}
  BY <1>1, <1>2, OutcomesAreTops
<1>4. Top({}) = {}
  BY DEF Top
<1> QED
  BY <1>2, <1>3, <1>4

\* Every step of the store is a step of the promise or none: the append
\* offers the document, the fsync and the power loss settle what is found,
\* the return of record acknowledges.
LEMMA StepMaps ==
    ASSUME ~TornAppends, SInv, [AutosaveNext]_autosaveVars
    PROVE  [Recoverable!Next]_<<Outcomes, acked>>
<1> DEFINE Tops(J) == {Top(j.entries) : j \in J}
<1>0. AutosaveInv /\ AutosaveInv'
  BY NextPreserves DEF SInv
<1>1. Outcomes = Tops(journalOnDisk)
  BY <1>0, OutcomesAreTops
<1>2. Outcomes' = Tops(journalOnDisk')
  <2>1. AutosaveInv' => (Outcomes = Tops(journalOnDisk))'
    BY OutcomesAreTops, PTL
  <2> QED
    BY <1>0, <2>1
<1>3. ASSUME journalOnDisk' = journalOnDisk, acked' = acked
      PROVE  [Recoverable!Next]_<<Outcomes, acked>>
  BY <1>1, <1>2, <1>3
<1>4. ASSUME journalOnDisk' \subseteq journalOnDisk, journalOnDisk' # {}, acked' = acked
      PROVE  Recoverable!Next
  <2>1. Outcomes' \subseteq Outcomes /\ Outcomes' # {}
    BY <1>1, <1>2, <1>4
  <2>2. Outcomes' \in (SUBSET Outcomes) \ {{}}
    BY <2>1
  <2> QED
    BY <1>4, <2>2 DEF Recoverable!Next, Recoverable!Settle
<1>5. ASSUME NEW p \in Proc,
             \/ Call(p) \/ AcquireLock(p) \/ LockTimeout(p) \/ Abort(p)
             \/ ReadJournal(p) \/ Exhausted(p) \/ WriteSnapshot(p)
             \/ SyncSnapshot(p) \/ SkipCompact(p) \/ Recover(p)
      PROVE  [Recoverable!Next]_<<Outcomes, acked>>
  <2>1. journalOnDisk' = journalOnDisk /\ acked' = acked
    BY <1>5 DEF Call, AcquireLock, LockTimeout, Abort, ReadJournal, Exhausted,
                WriteSnapshot, SyncSnapshot, SkipCompact, Recover, stored
  <2> QED
    BY <1>3, <2>1
<1>6. ASSUME NEW p \in Proc, AppendEntry(p)
      PROVE  Recoverable!Next
  <2> DEFINE e == op[p].entry
  <2>1. /\ e \in Entry /\ \A x \in journal.entries : x.seq < e.seq
        /\ journalOnDisk' = journalOnDisk \cup {journal'}
        /\ Top(journal'.entries) = {e} /\ acked' = acked
    BY <1>6, AppendSaves DEF AppendEntry
  <2>2. Outcomes' = Outcomes \cup {{e}}
    <3>1. Tops(journalOnDisk \cup {journal'}) = Tops(journalOnDisk) \cup {Top(journal'.entries)}
      OBVIOUS
    <3> HIDE DEF Tops
    <3> QED
      BY <1>1, <1>2, <2>1, <3>1
  <2>3. ASSUME NEW j \in journalOnDisk, NEW f \in Top(j.entries) PROVE f.seq < e.seq
    <3>1. j.entries \in SUBSET Entry
      BY <1>0 DEF AutosaveInv, AutosaveTypeOK, Journal
    <3>2. f \in Newest(j.entries)
      BY <3>1, TopIsNewest
    <3>3. f \in journal.entries
      BY <1>0, <3>2 DEF AutosaveInv, DiskConsistent
    <3> QED
      BY <2>1, <3>3
  <2>4. \A o \in Outcomes : \A f \in o : f.seq < e.seq
    BY <1>1, <2>3
  <2> HIDE DEF e
  <2> QED
    BY <2>1, <2>2, <2>4 DEF Recoverable!Next, Recoverable!Offer
<1>7. ASSUME NEW p \in Proc, SyncJournal(p) \/ SyncCompacted(p)
      PROVE  Recoverable!Next
  <2>1. journalOnDisk' = {journal} /\ acked' = acked /\ journal \in journalOnDisk
    BY <1>0, <1>7 DEF SyncJournal, SyncCompacted, AutosaveInv, DiskConsistent
  <2> QED
    BY <1>4, <2>1
<1>8. ASSUME NEW p \in Proc, Compact(p)
      PROVE  [Recoverable!Next]_<<Outcomes, acked>>
  <2>1. /\ journalOnDisk' = journalOnDisk \cup {journal'} /\ acked' = acked
        /\ journal'.entries = Newest(journal.entries)
    BY <1>8 DEF Compact
  <2>2. journal \in journalOnDisk /\ journal.entries \in SUBSET Entry /\ IsFiniteSet(journal.entries)
    BY <1>0 DEF AutosaveInv, DiskConsistent, AutosaveTypeOK, Journal
  <2>3. Top(journal'.entries) = Top(journal.entries)
    BY <2>1, <2>2, TopOfNewest
  <2>4. Outcomes' = Outcomes
    BY <1>1, <1>2, <2>1, <2>2, <2>3
  <2> QED
    BY <2>1, <2>4
<1>9. ASSUME NEW p \in Proc, GcAndReturn(p)
      PROVE  Recoverable!Next
  <2>1. /\ journalOnDisk' = journalOnDisk /\ acked' = {op[p].entry}
        /\ op[p].step = "gc" /\ op[p].entry \in Entry
    BY <1>0, <1>9, InRecord DEF GcAndReturn, At, Recording, AutosaveInv
  <2>2. journalOnDisk = {journal} /\ Top(journal.entries) = {op[p].entry}
    BY <2>1 DEF SInv, Saved
  <2>3. Outcomes = {{op[p].entry}} /\ Outcomes' = Outcomes
    BY <1>1, <1>2, <2>1, <2>2
  <2> QED
    BY <2>1, <2>3 DEF Recoverable!Next, Recoverable!Acknowledge
<1>10. CASE PowerLoss
  <2>1. journalOnDisk' \subseteq journalOnDisk /\ journalOnDisk' # {} /\ acked' = acked
    BY <1>10 DEF PowerLoss
  <2> QED
    BY <1>4, <2>1
<1>11. CASE UNCHANGED autosaveVars
  BY <1>3, <1>11 DEF autosaveVars
<1>12. ASSUME NEW p \in Proc PROVE ~AppendPartially(p)
  BY DEF AppendPartially
<1> QED
  BY <1>5, <1>6, <1>7, <1>8, <1>9, <1>10, <1>11, <1>12 DEF AutosaveNext, Step

\* As long as every append is whole, what record and the crashes do is what
\* the module doc promises (autosave.rs:5-9): a save is first possible, then
\* certain to be found, and is acknowledged only then; no crash between any
\* two steps, of any number of programs, brings back an older document.
THEOREM StoreKeepsPromise == ~TornAppends => (AutosaveSpec => ImplementsRecoverable)
<1> SUFFICES ASSUME ~TornAppends PROVE AutosaveSpec => ImplementsRecoverable
  OBVIOUS
<1>1. SInv /\ [AutosaveNext]_autosaveVars => SInv'
  BY SInvStep
<1>2. SInv /\ [AutosaveNext]_autosaveVars => [Recoverable!Next]_<<Outcomes, acked>>
  BY StepMaps
<1> QED
  BY <1>1, <1>2, InitSaves, InitMaps, PTL DEF AutosaveSpec, ImplementsRecoverable, Recoverable!Spec

-----------------------------------------------------------------------------
(* An acknowledged document survives *)

LEMMA PromiseKeepsAcked ==
    ASSUME Recoverable!AckedSurvives, Outcomes # {}, acked \subseteq Entry,
           \A o \in Outcomes : o \subseteq Entry,
           [Recoverable!Next]_<<Outcomes, acked>>
    PROVE  Recoverable!AckedSurvives'
<1>0. \A e \in Entry : e.seq \in Int
  BY ConstantsAssumption DEF Entry, Seqs
<1>1. CASE Recoverable!Offer
  <2>1. PICK e \in Entry : /\ \A o \in Outcomes : \A f \in o : f.seq < e.seq
                           /\ Outcomes' = Outcomes \cup {{e}}
    BY <1>1 DEF Recoverable!Offer
  <2>2. acked' = acked
    BY <1>1 DEF Recoverable!Offer
  <2>3. ASSUME NEW a \in acked PROVE e.seq > a.seq
    <3>1. PICK o \in Outcomes : TRUE
      OBVIOUS
    <3>2. PICK f \in o : f = a \/ f.seq > a.seq
      BY <3>1 DEF Recoverable!AckedSurvives
    <3>3. f.seq < e.seq /\ f \in Entry /\ a \in Entry
      BY <2>1, <3>1, <3>2
    <3> QED
      BY <1>0, <3>2, <3>3
  <2> QED
    BY <2>1, <2>2, <2>3 DEF Recoverable!AckedSurvives
<1>2. CASE Recoverable!Settle
  BY <1>2 DEF Recoverable!Settle, Recoverable!AckedSurvives
<1>3. CASE Recoverable!Acknowledge
  BY <1>3 DEF Recoverable!Acknowledge, Recoverable!AckedSurvives
<1>4. CASE UNCHANGED <<Outcomes, acked>>
  BY <1>4 DEF Recoverable!AckedSurvives
<1> QED
  BY <1>1, <1>2, <1>3, <1>4 DEF Recoverable!Next

LEMMA AckedStep ==
    ASSUME ~TornAppends, SInv, Recoverable!AckedSurvives, [AutosaveNext]_autosaveVars
    PROVE  Recoverable!AckedSurvives'
<1>0. AutosaveInv
  BY DEF SInv
<1>1. Outcomes = {Top(j.entries) : j \in journalOnDisk}
  BY <1>0, OutcomesAreTops
<1>2. journal \in journalOnDisk /\ acked \subseteq Entry /\ \A j \in journalOnDisk : j.entries \subseteq Entry
  BY <1>0 DEF AutosaveInv, DiskConsistent, AutosaveTypeOK, Journal
<1>3. \A j \in journalOnDisk : Top(j.entries) \subseteq Entry
  BY <1>2 DEF Top
<1>4. Outcomes # {} /\ \A o \in Outcomes : o \subseteq Entry
  BY <1>1, <1>2, <1>3
<1> QED
  BY <1>2, <1>4, StepMaps, PromiseKeepsAcked

LEMMA AckedIsNewest ==
    ASSUME AutosaveInv, Recoverable!AckedSurvives
    PROVE  AckedRecoverable
<1> SUFFICES ASSUME NEW a \in acked, NEW j \in journalOnDisk
             PROVE  \E e \in Newest(j.entries) : e = a \/ e.seq > a.seq
  BY DEF AckedRecoverable
<1>1. Top(j.entries) \in Outcomes
  BY OutcomesAreTops
<1>2. PICK e \in Top(j.entries) : e = a \/ e.seq > a.seq
  BY <1>1 DEF Recoverable!AckedSurvives
<1>3. j.entries \in SUBSET Entry
  BY DEF AutosaveInv, AutosaveTypeOK, Journal
<1> QED
  BY <1>2, <1>3, TopIsNewest

\* The document record last returned Ok for is found after any crash, or a
\* newer one (autosave.rs:5-9), as long as every append is whole: this is
\* what the promise is for.
THEOREM AcknowledgedIsRecoverable == ~TornAppends => (AutosaveSpec => []AckedRecoverable)
<1> SUFFICES ASSUME ~TornAppends PROVE AutosaveSpec => []AckedRecoverable
  OBVIOUS
<1>1. AutosaveInit => SInv /\ Recoverable!AckedSurvives
  BY InitSaves DEF AutosaveInit, Recoverable!AckedSurvives
<1>2. SInv /\ Recoverable!AckedSurvives /\ [AutosaveNext]_autosaveVars => (SInv /\ Recoverable!AckedSurvives)'
  BY SInvStep, AckedStep
<1>3. SInv /\ Recoverable!AckedSurvives => AckedRecoverable
  BY AckedIsNewest DEF SInv
<1> QED
  BY <1>1, <1>2, <1>3, PTL DEF AutosaveSpec

\* The rope of an open tab.
RopeOf(id) == IF id = active THEN document ELSE parked[id]

\* A slot agrees with a rope.
Fits(s, rope) ==
    /\ s.rev = rope.rev
    /\ ~s.dirty /\ s.path # Untitled => s.saved = {rope.text}

\* The session core: every tab has a rope, and its slot agrees with it.
CoreOK ==
    /\ active \in DOMAIN slots /\ Cardinality(DOMAIN slots) <= MaxOpen
    /\ slots \in [DOMAIN slots -> DocumentSlot] /\ DOMAIN slots \subseteq 0 .. nextId - 1
    /\ nextId \in 1 .. MaxId + 1
    /\ document \in Document
    /\ parked \in [DOMAIN slots \ {active} -> Document]
    /\ \A id \in DOMAIN slots : Fits(slots[id], RopeOf(id))
    /\ StoreShared

DiskOK == disk \in [DOMAIN disk -> Text] /\ DOMAIN disk \subseteq Path

\* What is around it.
ShellOK ==
    /\ pane \in Document
    /\ DiskOK
    /\ lastText \in Text
    /\ phase \in {"restore", "recover", "running", "saving", "exited"}

\* Until the session is restored, the launch has left one tab, unedited: the
\* new DocumentManager keeps its rope and gets by without parked ones.
LaunchOK == phase = "restore" => DOMAIN slots = {active} /\ document.rev = 0

IInv == CoreOK /\ ShellOK /\ LaunchOK

-----------------------------------------------------------------------------
(* Lemmas *)

\* A finite set of numbers that is not empty has a least element: the one
\* whose set of smaller members is minimal.
LEMMA Least ==
  ASSUME NEW S, IsFiniteSet(S), S # {}, \A j \in S : j \in Int
  PROVE  \E i \in S : \A j \in S : i <= j
<1> DEFINE Below(i) == {j \in S : j < i}
           T == {Below(i) : i \in S}
<1>1. IsWellFoundedOn(StrictSubsetOrdering(S), SUBSET S)
  <2>1. FiniteSubsetsOf(S) = SUBSET S
    BY FS_FiniteSubsetsOfFinite
  <2>2. IsWellFoundedOn(StrictSubsetOrdering(S), FiniteSubsetsOf(S))
    BY FS_StrictSubsetOrderingWellFounded
  <2> QED
    BY <2>1, <2>2
<1>2. T \subseteq SUBSET S /\ T # {}
  OBVIOUS
<1> HIDE DEF T
<1>3. \E x \in T : \A y \in T : ~ (<<y, x>> \in StrictSubsetOrdering(S))
  BY <1>1, <1>2, WFMin, Zenon
<1>4. PICK i \in S : \A y \in T : ~ (<<y, Below(i)>> \in StrictSubsetOrdering(S))
  BY <1>3 DEF T
<1>5. ASSUME NEW j \in S, j < i PROVE FALSE
  <2>1. i \in Int /\ j \in Int
    OBVIOUS
  <2>2. j \in Below(i) /\ j \notin Below(j)
    BY <1>5, <2>1
  <2>3. ASSUME NEW k \in Below(j) PROVE k \in Below(i)
    <3>1. k \in S /\ k \in Int /\ k < j
      OBVIOUS
    <3> QED
      BY <1>5, <2>1, <3>1
  <2>4. <<Below(j), Below(i)>> \in StrictSubsetOrdering(S)
    <3>1. Below(j) \subseteq S /\ Below(i) \subseteq S /\ Below(j) \subseteq Below(i)
      BY <2>3
    <3> HIDE DEF Below
    <3> QED
      BY <2>2, <3>1 DEF StrictSubsetOrdering
  <2> QED
    BY <1>4, <2>4, Zenon DEF T
<1>6. \A j \in S : j \in Int /\ i \in Int /\ ~(j < i)
  BY <1>5
<1> QED
  BY <1>6

\* ... and a greatest one, the least of the negated numbers.
LEMMA Greatest ==
  ASSUME NEW S, IsFiniteSet(S), S # {}, \A j \in S : j \in Int
  PROVE  \E i \in S : \A j \in S : j <= i
<1> DEFINE f == [i \in S |-> 0 - i]
           T == Range(f)
<1>1. T # {} /\ \A t \in T : t \in Int
  BY DEF Range
<1>2. IsFiniteSet(T)
  <2>1. f \in Surjection(S, T)
    BY DEF Range, Surjection
  <2> QED
    BY <2>1, FS_Surjection
<1>3. PICK t \in T : \A u \in T : t <= u
  BY <1>1, <1>2, Least
<1>4. PICK i \in S : t = 0 - i
  BY DEF Range
<1>5. ASSUME NEW j \in S PROVE j <= i
  <2>1. 0 - j \in T /\ j \in Int /\ i \in Int
    BY DEF Range
  <2> QED
    BY <1>3, <1>4, <2>1
<1> QED
  BY <1>5

\* Identifiers are given out in order.
LEMMA IdsAreNumbers ==
  ASSUME CoreOK
  PROVE  nextId \in Nat /\ \A id \in DOMAIN slots : id \in Nat /\ id < nextId
<1>1. nextId \in Nat /\ \A id \in DOMAIN slots : id \in 0 .. nextId - 1
  BY LimitAssumption DEF CoreOK
<1> QED
  BY <1>1

\* Identifiers are bounded, so the open tabs can be counted.
LEMMA FinitelyManyTabs ==
  ASSUME CoreOK
  PROVE  IsFiniteSet(DOMAIN slots)
<1>1. IsFiniteSet(0 .. nextId - 1)
  <2>1. 0 \in Int /\ nextId - 1 \in Int
    BY IdsAreNumbers
  <2> QED
    BY <2>1, FS_Interval
<1> QED
  BY <1>1, FS_Subset DEF CoreOK

\* The tab that moves into the place of a closed one is another open tab
\* (close_tab).
LEMMA NeighbourIsOpen ==
  ASSUME CoreOK, NEW id \in DOMAIN slots, DOMAIN slots # {id}
  PROVE  Neighbour(id) \in DOMAIN slots \ {id}
<1> DEFINE rest == DOMAIN slots \ {id}
           right == {i \in rest : i > id}
<1>1. rest # {} /\ \A j \in rest : j \in Int
  BY IdsAreNumbers
<1>0. IsFiniteSet(rest) /\ IsFiniteSet(right)
  BY FinitelyManyTabs, FS_Subset
<1>2. CASE right # {}
  <2>1. \A j \in right : j \in Int
    BY <1>1
  <2>2. \E i \in right : \A j \in right : i <= j
    BY <1>2, <1>0, <2>1, Least
  <2>3. (CHOOSE i \in right : \A j \in right : i <= j) \in right
    BY <2>2
  <2> QED
    BY <1>2, <2>3 DEF Neighbour
<1>3. CASE right = {}
  <2>1. \E i \in rest : \A j \in rest : j <= i
    BY <1>1, <1>0, Greatest
  <2>2. (CHOOSE i \in rest : \A j \in rest : j <= i) \in rest
    BY <2>1
  <2> QED
    BY <1>3, <2>2 DEF Neighbour
<1> QED
  BY <1>2, <1>3

\* The store a new tab inherits is the one all tabs have (inherit_autosave).
LEMMA InheritedIsShared ==
  ASSUME CoreOK
  PROVE  InheritedStore \in BOOLEAN /\ \A id \in DOMAIN slots : slots[id].store = InheritedStore
<1>1. \A id \in DOMAIN slots : slots[id].store \in BOOLEAN
  BY DEF CoreOK, DocumentSlot
<1>2. \A id, other \in DOMAIN slots : slots[id].store = slots[other].store
  BY DEF CoreOK, StoreShared
<1>3. InheritedStore \in BOOLEAN
  BY DEF InheritedStore
<1> QED
  BY <1>1, <1>2, <1>3, Zenon DEF InheritedStore

\* A new document's slot has its type.
LEMMA NewSlotTyped == ASSUME NEW b \in BOOLEAN PROVE NewSlot(b) \in DocumentSlot
  BY DEF NewSlot, DocumentSlot

\* The slot of an opened file agrees with what was read from it (DocumentOpened).
LEMMA OpenedTyped ==
  ASSUME DiskOK, NEW s \in DocumentSlot, NEW p \in DOMAIN disk
  PROVE  /\ Opened(s, p) \in DocumentSlot
         /\ Opened(s, p).path = p /\ Opened(s, p).store = s.store
         /\ Fits(Opened(s, p), [text |-> disk[p], rev |-> 0])
         /\ [text |-> disk[p], rev |-> 0] \in Document
  BY DEF Opened, Fits, DocumentSlot, DiskOK, Document

-----------------------------------------------------------------------------
(* The core under its operations *)

\* What CoreOK says of the properties.
LEMMA CoreMeans ==
  ASSUME CoreOK
  PROVE  /\ RopesMatchSlots /\ StoreShared /\ CleanIsSaved
         /\ \A id \in DOMAIN slots : RopeOf(id) \in Document /\ TextOf(id) = RopeOf(id).text
<1>1. \A id \in DOMAIN slots : RopeOf(id) \in Document /\ TextOf(id) = RopeOf(id).text
  BY DEF CoreOK, RopeOf, TextOf
<1> QED
  BY <1>1 DEF CoreOK, RopeOf, Fits, RopesMatchSlots, CleanIsSaved

\* No operation of the strip changes the text of a tab that stays open.
RopesKept == \A id \in DOMAIN slots \cap DOMAIN slots' : RopeOf(id)' = RopeOf(id)

\* The active document and its slot change together.
LEMMA ActiveChanges ==
  ASSUME CoreOK, NEW s \in DocumentSlot, document' \in Document,
         Fits(s, document'), s.store = slot.store,
         slots' = [slots EXCEPT ![active] = s], UNCHANGED <<active, nextId, parked>>
  PROVE  CoreOK'
<1>1. /\ DOMAIN slots' = DOMAIN slots /\ slots'[active] = s
      /\ slots' \in [DOMAIN slots -> DocumentSlot]
      /\ \A id \in DOMAIN slots \ {active} : slots'[id] = slots[id]
  BY DEF CoreOK
<1>2. \A id \in DOMAIN slots' : Fits(slots'[id], RopeOf(id)')
  BY <1>1 DEF CoreOK, RopeOf
<1>3. StoreShared'
  BY <1>1 DEF CoreOK, StoreShared, slot
<1> QED
  BY <1>1, <1>2, <1>3 DEF CoreOK

\* A tab is added, and the rope of the one that was active is parked.
LEMMA AddedTab ==
  ASSUME CoreOK, NEW s \in DocumentSlot, NEW rope \in Document, AddTab(s, rope),
         Fits(s, rope), s.store = InheritedStore
  PROVE  CoreOK' /\ RopesKept
<1>1. nextId \in Nat /\ nextId \notin DOMAIN slots /\ nextId <= MaxId
  BY IdsAreNumbers DEF AddTab
<1>2. /\ DOMAIN slots' = DOMAIN slots \cup {nextId} /\ slots'[nextId] = s
      /\ slots' \in [DOMAIN slots' -> DocumentSlot]
      /\ \A id \in DOMAIN slots : slots'[id] = slots[id]
  BY <1>1 DEF CoreOK, AddTab, Put
<1>3. /\ active' = nextId /\ document' = rope
      /\ parked' \in [DOMAIN slots -> Document]
      /\ \A id \in DOMAIN slots : parked'[id] = RopeOf(id)
  <2>1. /\ parked' \in [(DOMAIN slots \ {active}) \cup {active} -> Document]
        /\ parked'[active] = document
        /\ \A id \in DOMAIN slots \ {active} : parked'[id] = parked[id]
    BY DEF CoreOK, AddTab, Park, Put
  <2>2. (DOMAIN slots \ {active}) \cup {active} = DOMAIN slots
    BY DEF CoreOK
  <2> QED
    BY <2>1, <2>2 DEF RopeOf, AddTab
<1>4. \A id \in DOMAIN slots : RopeOf(id)' = RopeOf(id)
  BY <1>1, <1>3 DEF RopeOf
<1>5. \A id \in DOMAIN slots' : Fits(slots'[id], RopeOf(id)')
  BY <1>2, <1>3, <1>4 DEF CoreOK, RopeOf
<1>6. StoreShared'
  BY <1>2, InheritedIsShared DEF StoreShared
<1>7. Cardinality(DOMAIN slots') <= MaxOpen
  <2>1. Cardinality(DOMAIN slots') = Cardinality(DOMAIN slots) + 1
    BY <1>1, <1>2, FinitelyManyTabs, FS_AddElement
  <2>2. Cardinality(DOMAIN slots) \in Nat /\ Cardinality(DOMAIN slots) < MaxOpen
    BY FinitelyManyTabs, FS_CardinalityType DEF AddTab
  <2> QED
    BY <2>1, <2>2, LimitAssumption
<1>8. /\ nextId' \in 1 .. MaxId + 1 /\ DOMAIN slots' \subseteq 0 .. nextId' - 1
  BY <1>1, <1>2, LimitAssumption DEF CoreOK, AddTab
<1>9. parked' \in [DOMAIN slots' \ {active'} -> Document]
  BY <1>1, <1>2, <1>3
<1> QED
  BY <1>1, <1>2, <1>3, <1>4, <1>5, <1>6, <1>7, <1>8, <1>9 DEF CoreOK, RopesKept

\* Another tab becomes the active one: the ropes change places.
LEMMA SwitchedTab ==
  ASSUME CoreOK, NEW id \in DOMAIN slots, id # active,
         active' = id, Load(id, Park), UNCHANGED <<slots, nextId>>
  PROVE  CoreOK' /\ RopesKept
<1>1. /\ DOMAIN Park = DOMAIN slots /\ Park[active] = document
      /\ Park \in [DOMAIN slots -> Document]
      /\ \A i \in DOMAIN slots \ {active} : Park[i] = parked[i]
  BY DEF CoreOK, Park, Put
<1>2. document' = parked[id] /\ document' \in Document
  BY <1>1 DEF CoreOK, Load
<1>3. /\ parked' \in [DOMAIN slots \ {id} -> Document]
      /\ \A i \in DOMAIN slots \ {id} : parked'[i] = Park[i]
  BY <1>1 DEF Load, Without, Restrict
<1>4. \A i \in DOMAIN slots : RopeOf(i)' = RopeOf(i)
  BY <1>1, <1>2, <1>3 DEF RopeOf
<1> QED
  BY <1>2, <1>3, <1>4 DEF CoreOK, RopesKept, StoreShared

\* A tab is closed, perhaps after a change to the slots.
LEMMA RemovedTab ==
  ASSUME CoreOK, NEW id \in DOMAIN slots, DOMAIN slots # {id},
         NEW all \in [DOMAIN slots -> DocumentSlot],
         \A i \in DOMAIN slots : Fits(all[i], RopeOf(i)),
         \A i, other \in DOMAIN slots : all[i].store = all[other].store,
         RemoveTab(id, all)
  PROVE  CoreOK' /\ RopesKept
<1>1. /\ DOMAIN slots' = DOMAIN slots \ {id}
      /\ slots' \in [DOMAIN slots' -> DocumentSlot]
      /\ \A i \in DOMAIN slots' : slots'[i] = all[i]
      /\ nextId' = nextId
  BY DEF RemoveTab, Without, Restrict
<1>2. /\ active' \in DOMAIN slots' /\ document' \in Document
      /\ parked' \in [DOMAIN slots' \ {active'} -> Document]
      /\ \A i \in DOMAIN slots' : RopeOf(i)' = RopeOf(i)
  <2>1. CASE id = active
    <3>1. active' \in DOMAIN slots \ {id}
      BY <2>1, NeighbourIsOpen DEF RemoveTab
    <3>2. Without(parked, id) = parked
      BY <2>1 DEF CoreOK, Without, Restrict
    <3>3. document' = parked[active']
      BY <2>1, <3>1, <3>2 DEF CoreOK, RemoveTab, Load
    <3>4. /\ parked' \in [(DOMAIN slots \ {active}) \ {active'} -> Document]
          /\ \A i \in (DOMAIN slots \ {active}) \ {active'} : parked'[i] = parked[i]
      BY <2>1, <3>2 DEF CoreOK, RemoveTab, Load, Without, Restrict
    <3> QED
      BY <1>1, <2>1, <3>1, <3>3, <3>4 DEF CoreOK, RopeOf
  <2>2. CASE id # active
    <3>1. active' = active /\ document' = document
      BY <2>2 DEF RemoveTab
    <3>2. /\ parked' \in [(DOMAIN slots \ {active}) \ {id} -> Document]
          /\ \A i \in (DOMAIN slots \ {active}) \ {id} : parked'[i] = parked[i]
      BY <2>2 DEF CoreOK, RemoveTab, Without, Restrict
    <3>3. (DOMAIN slots \ {active}) \ {id} = DOMAIN slots' \ {active'}
      BY <1>1, <3>1
    <3> QED
      BY <1>1, <2>2, <3>1, <3>2, <3>3 DEF CoreOK, RopeOf
  <2> QED
    BY <2>1, <2>2
<1>3. Cardinality(DOMAIN slots') <= MaxOpen
  <2>1. IsFiniteSet(DOMAIN slots') /\ Cardinality(DOMAIN slots') <= Cardinality(DOMAIN slots)
    BY <1>1, FinitelyManyTabs, FS_Subset
  <2>2. Cardinality(DOMAIN slots') \in Nat /\ Cardinality(DOMAIN slots) \in Nat
    BY <2>1, FinitelyManyTabs, FS_CardinalityType
  <2> QED
    BY <2>1, <2>2, LimitAssumption DEF CoreOK
<1>4. \A i \in DOMAIN slots' : Fits(slots'[i], RopeOf(i)')
  BY <1>1, <1>2
<1>5. StoreShared'
  BY <1>1 DEF StoreShared
<1> QED
  BY <1>1, <1>2, <1>3, <1>4, <1>5 DEF CoreOK, RopesKept

\* What adopting the file at p does to the text of the active tab.
Adopted(p) ==
    /\ active' \in DOMAIN slots' /\ slots'[active'].path = p
    /\ document' = [text |-> disk[p], rev |-> 0]
    /\ \A id \in DOMAIN slots \cap DOMAIN slots' : id = active' \/ RopeOf(id)' = RopeOf(id)

\* The file at p replaces the document of a tab, which becomes active.
Replaces(id, p) ==
    /\ active' = id
    /\ slots' = [slots EXCEPT ![id] = Opened(@, p)]
    /\ parked' = IF id = active THEN parked ELSE Without(Park, id)
    /\ document' = [text |-> disk[p], rev |-> 0]
    /\ UNCHANGED nextId

\* A file that replaces a document fits its tab, and leaves the others alone.
LEMMA ReplacedDocument ==
  ASSUME CoreOK, DiskOK, NEW p \in DOMAIN disk, NEW id \in DOMAIN slots, Replaces(id, p)
  PROVE  CoreOK' /\ Adopted(p)
<1> DEFINE s == Opened(slots[id], p)
           rope == [text |-> disk[p], rev |-> 0]
<1>1. /\ s \in DocumentSlot /\ rope \in Document /\ Fits(s, rope)
      /\ s.store = slots[id].store /\ s.path = p
  <2>1. slots[id] \in DocumentSlot
    BY DEF CoreOK
  <2> QED
    BY <2>1, OpenedTyped
<1> HIDE DEF s
<1>2. /\ DOMAIN slots' = DOMAIN slots /\ slots'[id] = s
      /\ slots' \in [DOMAIN slots -> DocumentSlot]
      /\ \A i \in DOMAIN slots \ {id} : slots'[i] = slots[i]
  BY <1>1 DEF CoreOK, Replaces, s
<1>3. /\ parked' \in [DOMAIN slots \ {id} -> Document]
      /\ \A i \in DOMAIN slots \ {id} : parked'[i] = RopeOf(i)
  <2>1. CASE id = active
    BY <2>1 DEF CoreOK, RopeOf, Replaces
  <2>2. CASE id # active
    <3>1. /\ Park \in [DOMAIN slots -> Document]
          /\ \A i \in DOMAIN slots : Park[i] = RopeOf(i)
      BY DEF CoreOK, Park, Put, RopeOf
    <3> QED
      BY <2>2, <3>1 DEF Without, Restrict, Replaces
  <2> QED
    BY <2>1, <2>2
<1>4. active' = id /\ document' = rope /\ nextId' = nextId
  BY DEF Replaces
<1>5. RopeOf(id)' = rope /\ \A i \in DOMAIN slots \ {id} : RopeOf(i)' = RopeOf(i)
  BY <1>3, <1>4 DEF RopeOf
<1> HIDE DEF rope
<1>6. \A i \in DOMAIN slots' : Fits(slots'[i], RopeOf(i)')
  BY <1>1, <1>2, <1>5 DEF CoreOK
<1>7. StoreShared'
  <2>1. \A i \in DOMAIN slots : slots'[i].store = slots[i].store
    BY <1>1, <1>2
  <2> QED
    BY <1>2, <2>1 DEF CoreOK, StoreShared
<1> QED
  BY <1>1, <1>2, <1>3, <1>4, <1>5, <1>6, <1>7 DEF CoreOK, Adopted, rope

\* So does a file in a new tab.
LEMMA AddedFile ==
  ASSUME CoreOK, DiskOK, NEW p \in DOMAIN disk,
         AddTab(Opened(NewSlot(InheritedStore), p), [text |-> disk[p], rev |-> 0])
  PROVE  CoreOK' /\ Adopted(p)
<1> DEFINE s == Opened(NewSlot(InheritedStore), p)
           rope == [text |-> disk[p], rev |-> 0]
<1>1. NewSlot(InheritedStore) \in DocumentSlot /\ NewSlot(InheritedStore).store = InheritedStore
  BY InheritedIsShared, NewSlotTyped DEF NewSlot
<1>2. /\ s \in DocumentSlot /\ rope \in Document /\ Fits(s, rope)
      /\ s.store = InheritedStore /\ s.path = p
  BY <1>1, OpenedTyped
<1>3. AddTab(s, rope)
  OBVIOUS
<1> HIDE DEF s, rope
<1>4. slots'[active'] = s /\ document' = rope
  BY <1>3 DEF AddTab, Put
<1>5. CoreOK' /\ RopesKept
  BY <1>2, <1>3, AddedTab
<1>6. active' \in DOMAIN slots'
  BY <1>5 DEF CoreOK
<1> QED
  BY <1>2, <1>4, <1>5, <1>6 DEF Adopted, RopesKept, rope

\* adopt_opened_document does one or the other.
LEMMA AdoptedFile ==
  ASSUME CoreOK, DiskOK, NEW p \in DOMAIN disk, Adopt(p)
  PROVE  CoreOK' /\ Adopted(p)
<1>1. active \in DOMAIN slots
  BY DEF CoreOK
<1>2. \/ \E id \in DOMAIN slots : Replaces(id, p)
      \/ AddTab(Opened(NewSlot(InheritedStore), p), [text |-> disk[p], rev |-> 0])
  BY <1>1, Zenon DEF Adopt, Replaces
<1> QED
  BY <1>2, ReplacedDocument, AddedFile

\* A save makes the active document clean or leaves it dirty, and its slot
\* knows the version that was written.
LEMMA SavedSlots ==
  ASSUME CoreOK, NEW p \in Path, NEW unsure \in BOOLEAN
  PROVE  LET all == AfterSave(p, unsure)
         IN  /\ all \in [DOMAIN slots -> DocumentSlot]
             /\ \A i \in DOMAIN slots : Fits(all[i], RopeOf(i)) /\ all[i].store = slots[i].store
<1> DEFINE s == [slot EXCEPT !.dirty = unsure, !.path = p,
                             !.saved = {document.text}, !.conflict = FALSE]
<1>1. slot.rev = document.rev /\ slot \in DocumentSlot /\ document \in Document
  BY DEF CoreOK, Fits, RopeOf, slot
<1>2. s \in DocumentSlot /\ Fits(s, document) /\ s.store = slot.store
  BY <1>1 DEF DocumentSlot, Document, Fits
<1>3. AfterSave(p, unsure) = [slots EXCEPT ![active] = s]
  BY <1>1 DEF AfterSave, slot
<1> HIDE DEF s
<1> QED
  BY <1>2, <1>3 DEF CoreOK, RopeOf, slot

\* SaveCompleted keeps the session core and every rope.
LEMMA AfterSaveKeepsCore ==
  ASSUME CoreOK, NEW p \in Path, NEW unsure \in BOOLEAN,
         slots' = AfterSave(p, unsure), UNCHANGED <<active, nextId, document, parked>>
  PROVE  CoreOK' /\ RopesKept
<1>1. /\ slots' \in [DOMAIN slots -> DocumentSlot]
      /\ \A i \in DOMAIN slots : Fits(slots'[i], RopeOf(i)) /\ slots'[i].store = slots[i].store
  BY SavedSlots
<1>2. \A i \in DOMAIN slots : RopeOf(i)' = RopeOf(i)
  BY DEF RopeOf
<1> QED
  BY <1>1, <1>2 DEF CoreOK, StoreShared, RopesKept

\* A file that was written holds a text.
LEMMA DiskWritten ==
  ASSUME DiskOK, NEW p \in Path, NEW text \in Text, disk' = Put(disk, p, text)
  PROVE  DiskOK'
  BY DEF DiskOK, Put

\* A save goes to a file.
LEMMA SavePathIsFile == ASSUME CoreOK PROVE SavePath \subseteq Path
<1>1. slot.path \in Path \cup {Untitled}
  BY DEF CoreOK, DocumentSlot, slot
<1> QED
  BY <1>1 DEF SavePath

\* A tab that can be closed leaves another one (close_tab).
LEMMA ClosableIsNotAlone ==
  ASSUME NEW id \in Closable
  PROVE  id \in DOMAIN slots /\ DOMAIN slots # {id}
<1>1. id \in DOMAIN slots /\ Cardinality(DOMAIN slots) > 1
  BY DEF Closable
<1>2. Cardinality({id}) = 1
  BY FS_Singleton
<1> QED
  BY <1>1, <1>2

\* Another text can be made below the bound.
LEMMA NextTextIsText == lastText \in Text /\ lastText < MaxText => lastText + 1 \in Text
  BY LimitAssumption DEF Text

-----------------------------------------------------------------------------
(* The texts of the tabs *)

\* What TextsKept says of a step.
KeepsTexts ==
    \A id \in DOMAIN slots \cap DOMAIN slots' :
         TextOf(id)' # TextOf(id) =>
           /\ id = active'
           /\ \/ TextOf(id)' = lastText'
              \/ slots'[id].path \in DOMAIN disk /\ TextOf(id)' = disk[slots'[id].path]

\* A step that keeps the ropes keeps the texts.
LEMMA RopesKeptKeepsTexts ==
  ASSUME CoreOK, CoreOK', RopesKept
  PROVE  KeepsTexts
<1>1. \A id \in DOMAIN slots : TextOf(id) = RopeOf(id).text
  BY CoreMeans
<1>2. \A id \in DOMAIN slots' : TextOf(id)' = RopeOf(id)'.text
  BY DEF CoreOK, TextOf, RopeOf
<1> QED
  BY <1>1, <1>2 DEF RopesKept, KeepsTexts

\* Adopting a file changes the active text only, to what the file holds.
LEMMA AdoptedKeepsTexts ==
  ASSUME CoreOK, CoreOK', NEW p \in DOMAIN disk, Adopted(p)
  PROVE  KeepsTexts
<1>1. \A id \in DOMAIN slots : TextOf(id) = RopeOf(id).text
  BY CoreMeans
<1>2. \A id \in DOMAIN slots' : TextOf(id)' = RopeOf(id)'.text
  BY DEF CoreOK, TextOf, RopeOf
<1>3. ASSUME NEW id \in DOMAIN slots \cap DOMAIN slots', TextOf(id)' # TextOf(id)
      PROVE  id = active'
  BY <1>1, <1>2, <1>3 DEF Adopted
<1>4. ASSUME NEW id \in DOMAIN slots \cap DOMAIN slots', id = active'
      PROVE  TextOf(id)' = disk[p] /\ slots'[id].path = p
  BY <1>4 DEF Adopted, TextOf
<1> QED
  BY <1>3, <1>4 DEF KeepsTexts

\* An edit and a recovery change the active text only, to one just made.
LEMMA ActiveTextKeepsTexts ==
  ASSUME CoreOK, UNCHANGED <<active, parked>>, document'.text = lastText'
  PROVE  KeepsTexts
  BY DEF KeepsTexts, TextOf

-----------------------------------------------------------------------------
(* The invariant *)

\* A session of one tab, whose slot agrees with its rope.
OneTab ==
    /\ active = 0 /\ nextId = 1 /\ DOMAIN slots = {0} /\ slots \in [{0} -> DocumentSlot]
    /\ document \in Document /\ parked \in [{} -> Document]
    /\ Fits(slots[0], document)

\* It has all the properties of a session.
LEMMA OneTabIsSession == OneTab => CoreOK
<1> SUFFICES ASSUME OneTab PROVE CoreOK
  OBVIOUS
<1>1. IsFiniteSet({0}) /\ Cardinality({0}) = 1
  BY FS_Singleton
<1>2. {0} \subseteq 0 .. nextId - 1 /\ nextId \in 1 .. MaxId + 1 /\ 1 <= MaxOpen
  BY LimitAssumption DEF OneTab
<1> QED
  BY <1>1, <1>2 DEF OneTab, CoreOK, RopeOf, StoreShared

\* The texts a program starts with are texts.
LEMMA StarterTyped ==
  /\ [text |-> Starter, rev |-> 0] \in Document
  /\ Original \in Text /\ Empty \in Text
  BY LimitAssumption DEF Document, Text, Starter, Original, Empty

\* Every launch gives a session of one tab.
LEMMA InitIInv == Init => IInv
<1> SUFFICES ASSUME Init PROVE IInv
  OBVIOUS
<1>1. DiskOK /\ lastText \in Text
  BY StarterTyped DEF Init, DiskOK
<1>2. parked \in [{} -> Document] /\ active = 0 /\ nextId = 1
  BY DEF Init
<1>3. CoreOK /\ DOMAIN slots = {0} /\ document.rev = 0
  <2>1. CASE document = [text |-> Starter, rev |-> 0] /\ slots = [id \in {0} |-> NewSlot(TRUE)]
    <3>1. Fits(NewSlot(TRUE), document)
      BY <2>1 DEF Fits, NewSlot
    <3> QED
      BY <1>2, <2>1, <3>1, StarterTyped, NewSlotTyped, OneTabIsSession DEF OneTab
  <2>2. CASE \E p \in DOMAIN disk :
               /\ document = [text |-> disk[p], rev |-> 0]
               /\ slots = [id \in {0} |-> Opened(NewSlot(TRUE), p)]
    <3>1. PICK p \in DOMAIN disk : /\ document = [text |-> disk[p], rev |-> 0]
                                   /\ slots = [id \in {0} |-> Opened(NewSlot(TRUE), p)]
      BY <2>2
    <3>2. /\ Opened(NewSlot(TRUE), p) \in DocumentSlot /\ document \in Document
          /\ Fits(Opened(NewSlot(TRUE), p), document)
      BY <1>1, <3>1, NewSlotTyped, OpenedTyped
    <3> QED
      BY <1>2, <3>1, <3>2, OneTabIsSession DEF OneTab
  <2> QED
    BY <2>1, <2>2 DEF Init
<1>4. pane = document /\ phase = "restore"
  BY DEF Init
<1> QED
  BY <1>1, <1>2, <1>3, <1>4 DEF IInv, ShellOK, LaunchOK, CoreOK

\* What a step must do for the invariant and for TextsKept.
StepOK == IInv' /\ KeepsTexts

\* The restored session is one tab again (restore_session).
LEMMA SessionRestoredOK == IInv /\ SessionRestored => StepOK
<1> SUFFICES ASSUME IInv, SessionRestored PROVE StepOK
  OBVIOUS
<1>1. /\ CoreOK /\ DiskOK /\ DOMAIN slots = {active} /\ document.rev = 0 /\ document \in Document
      /\ lastText \in Text
  BY DEF IInv, ShellOK, LaunchOK, SessionRestored, CoreOK
<1>2. /\ active' = 0 /\ nextId' = 1 /\ phase' = "recover" /\ pane' = document'
      /\ UNCHANGED <<parked, disk, lastText>>
  BY DEF SessionRestored
<1>3. parked' \in [{} -> Document]
  <2>1. DOMAIN slots \ {active} = {}
    BY <1>1
  <2> QED
    BY <1>1, <1>2, <2>1 DEF CoreOK
<1>0. OneTab' => CoreOK'
  BY OneTabIsSession, PTL
<1>4. CASE slots' = [id \in {0} |-> NewSlot(FALSE)] /\ UNCHANGED document
  <2>1. Fits(NewSlot(FALSE), document)
    BY <1>1 DEF Fits, NewSlot
  <2>2. CoreOK'
    BY <1>0, <1>1, <1>2, <1>3, <1>4, <2>1, NewSlotTyped DEF OneTab
  <2>3. KeepsTexts
    BY <1>1, <1>2, <1>4 DEF KeepsTexts, TextOf
  <2> QED
    BY <1>1, <1>2, <1>4, <2>2, <2>3 DEF StepOK, IInv, ShellOK, LaunchOK, DiskOK
<1>5. ASSUME NEW p \in DOMAIN disk, slots' = [id \in {0} |-> Opened(NewSlot(FALSE), p)],
             document' = [text |-> disk[p], rev |-> 0]
      PROVE  StepOK
  <2>1. /\ Opened(NewSlot(FALSE), p) \in DocumentSlot /\ document' \in Document
        /\ Fits(Opened(NewSlot(FALSE), p), document') /\ slots'[0].path = p
    BY <1>1, <1>5, NewSlotTyped, OpenedTyped
  <2>2. CoreOK'
    BY <1>0, <1>2, <1>3, <1>5, <2>1 DEF OneTab
  <2>3. KeepsTexts
    BY <1>2, <1>5, <2>1 DEF KeepsTexts, TextOf
  <2> QED
    BY <1>1, <1>2, <2>1, <2>2, <2>3 DEF StepOK, IInv, ShellOK, LaunchOK, DiskOK
<1> QED
  BY <1>4, <1>5 DEF SessionRestored

\* A step that leaves the documents alone.
LEMMA CoreUntouchedOK ==
  ASSUME IInv, UNCHANGED core, pane' \in Document, DiskOK', lastText' \in Text,
         phase' \in {phase, "recover", "running", "saving", "exited"}
  PROVE  StepOK
<1>1. CoreOK'
  BY DEF IInv, CoreOK, core, RopeOf, StoreShared
<1>2. KeepsTexts
  BY DEF KeepsTexts, TextOf, core
<1>3. LaunchOK'
  BY DEF IInv, LaunchOK, core
<1> QED
  BY <1>1, <1>2, <1>3 DEF IInv, ShellOK, StepOK

\* A step of the running program that keeps the core and the texts.
LEMMA RunningOK ==
  ASSUME IInv, CoreOK', KeepsTexts, pane' \in {pane, document'}, DiskOK', lastText' \in Text,
         phase' \in {"running", "exited"}
  PROVE  StepOK
<1>1. document' \in Document
  BY DEF CoreOK
<1> QED
  BY <1>1 DEF IInv, ShellOK, StepOK, LaunchOK

\* The recovered document is at revision 0 and dirty (adopt_recovered).
LEMMA AdoptRecoveredOK == IInv /\ AdoptRecovered => StepOK
<1> SUFFICES ASSUME IInv, AdoptRecovered PROVE StepOK
  OBVIOUS
<1>1. CoreOK /\ DiskOK /\ lastText \in Text /\ slot \in DocumentSlot /\ slot.store \in BOOLEAN
  BY DEF IInv, ShellOK, AdoptRecovered, CoreOK, slot, DocumentSlot
<1>2. lastText' \in Text /\ document' = [text |-> lastText', rev |-> 0] /\ document' \in Document
  BY <1>1, NextTextIsText DEF AdoptRecovered, Document
<1>3. PICK hint \in Path \cup {Untitled} :
        slots' = [slots EXCEPT ![active] = [NewSlot(slot.store) EXCEPT !.dirty = TRUE,
                                                                       !.path = hint]]
  BY DEF AdoptRecovered, slot
<1> DEFINE s == [NewSlot(slot.store) EXCEPT !.dirty = TRUE, !.path = hint]
<1>4. s \in DocumentSlot /\ Fits(s, document') /\ s.store = slot.store
  BY <1>1, <1>2 DEF NewSlot, DocumentSlot, Fits
<1>5. UNCHANGED <<active, nextId, parked, disk>> /\ pane' = document' /\ phase' = "running"
  BY DEF AdoptRecovered
<1> HIDE DEF s
<1>6. slots' = [slots EXCEPT ![active] = s]
  BY <1>3 DEF s
<1>7. CoreOK'
  BY <1>1, <1>2, <1>4, <1>5, <1>6, ActiveChanges
<1>8. KeepsTexts
  BY <1>1, <1>2, <1>5, ActiveTextKeepsTexts
<1>9. DiskOK'
  BY <1>1, <1>5 DEF DiskOK
<1> QED
  BY <1>2, <1>5, <1>7, <1>8, <1>9, RunningOK

\* The slot sees the revision of every edit as a new one.
LEMMA EditOK == IInv /\ Edit => StepOK
<1> SUFFICES ASSUME IInv, Edit PROVE StepOK
  OBVIOUS
<1>1. CoreOK /\ DiskOK /\ lastText \in Text /\ pane \in Document /\ slot \in DocumentSlot
      /\ document \in Document /\ slot.rev = document.rev
  BY DEF IInv, ShellOK, CoreOK, slot, Fits, RopeOf
<1>2. /\ lastText' \in Text /\ document' = [text |-> lastText', rev |-> document.rev + 1]
      /\ document' \in Document
  BY <1>1, NextTextIsText DEF Edit, Document
<1> DEFINE s == Edited(slot, document'.rev)
<1>3. s = [slot EXCEPT !.rev = document'.rev, !.dirty = TRUE]
  BY <1>1, <1>2 DEF Edited, Document
<1>4. s \in DocumentSlot /\ Fits(s, document') /\ s.store = slot.store
  BY <1>1, <1>2, <1>3 DEF DocumentSlot, Document, Fits
<1>5. slots' = [slots EXCEPT ![active] = s] /\ UNCHANGED <<active, nextId, parked, disk>>
  BY DEF Edit, slot
<1> HIDE DEF s
<1>6. CoreOK'
  BY <1>1, <1>2, <1>4, <1>5, ActiveChanges
<1>7. KeepsTexts
  BY <1>1, <1>2, <1>5, ActiveTextKeepsTexts
<1>8. DiskOK' /\ phase' = "running"
  BY <1>1, <1>5 DEF DiskOK, Edit, Running
<1>9. pane' \in Document
  BY <1>1, <1>2 DEF Edit, Document
<1> QED
  BY <1>2, <1>6, <1>7, <1>8, <1>9 DEF IInv, ShellOK, StepOK, LaunchOK

\* An adopted file is a step of the running program.
LEMMA AdoptOK ==
  ASSUME IInv, NEW p \in DOMAIN disk, Adopt(p), pane' \in {pane, document'},
         phase' \in {"running", "exited"}, UNCHANGED <<disk, lastText>>
  PROVE  StepOK
<1>1. CoreOK /\ DiskOK /\ lastText \in Text
  BY DEF IInv, ShellOK
<1>2. CoreOK' /\ Adopted(p)
  BY <1>1, AdoptedFile
<1>3. KeepsTexts
  BY <1>1, <1>2, AdoptedKeepsTexts
<1>4. DiskOK'
  BY <1>1 DEF DiskOK
<1> QED
  BY <1>1, <1>2, <1>3, <1>4, RunningOK

\* So is the mark of a conflict.
LEMMA DetectConflictOK ==
  ASSUME IInv, DetectConflict, phase' \in {"running", "exited"}, UNCHANGED <<disk, lastText>>
  PROVE  StepOK
<1>1. CoreOK /\ DiskOK /\ lastText \in Text /\ slot \in DocumentSlot /\ document \in Document
      /\ Fits(slot, document)
  BY DEF IInv, ShellOK, CoreOK, slot, RopeOf
<1> DEFINE s == [slot EXCEPT !.conflict = TRUE]
<1>2. /\ slots' = [slots EXCEPT ![active] = s]
      /\ UNCHANGED <<active, nextId, document, parked, pane>>
  BY DEF DetectConflict, slot
<1>3. s \in DocumentSlot /\ Fits(s, document') /\ s.store = slot.store
  BY <1>1, <1>2 DEF DocumentSlot, Fits
<1> HIDE DEF s
<1>4. CoreOK'
  BY <1>1, <1>2, <1>3, ActiveChanges
<1>5. RopesKept
  BY <1>2 DEF RopesKept, RopeOf
<1>6. DiskOK'
  BY <1>1 DEF DiskOK
<1> QED
  BY <1>1, <1>2, <1>4, <1>5, <1>6, RopesKeptKeepsTexts, RunningOK

\* A save writes the active document and changes no rope.
LEMMA WriteOK ==
  ASSUME IInv, NEW p \in SavePath \cup Path, NEW unsure \in BOOLEAN, Write(p, unsure),
         phase' \in {"running", "exited"},
         UNCHANGED <<active, nextId, document, parked, pane, lastText>>
  PROVE  StepOK
<1>1. CoreOK /\ DiskOK /\ lastText \in Text /\ document.text \in Text /\ p \in Path
  BY SavePathIsFile DEF IInv, ShellOK, CoreOK, Document
<1>2. CoreOK' /\ RopesKept
  BY <1>1, AfterSaveKeepsCore DEF Write
<1>3. DiskOK'
  BY <1>1, DiskWritten DEF Write
<1> QED
  BY <1>1, <1>2, <1>3, RopesKeptKeepsTexts, RunningOK

\* What other programs do to the files leaves the session alone.
LEMMA WriteOutsideOK == IInv /\ WriteOutside => StepOK
<1> SUFFICES ASSUME IInv, WriteOutside PROVE StepOK
  OBVIOUS
<1>1. DiskOK /\ lastText \in Text /\ pane \in Document
  BY DEF IInv, ShellOK
<1>2. UNCHANGED <<core, pane, phase>>
  BY DEF WriteOutside
<1>3. CASE /\ lastText < MaxText /\ lastText' = lastText + 1
           /\ \E p \in Path : disk' = Put(disk, p, lastText')
  <2>1. lastText' \in Text
    BY <1>1, <1>3, NextTextIsText
  <2>2. DiskOK'
    BY <1>1, <1>3, <2>1, DiskWritten
  <2> QED
    BY <1>1, <1>2, <2>1, <2>2, CoreUntouchedOK
<1>4. CASE \E p \in DOMAIN disk : disk' = Without(disk, p) /\ UNCHANGED lastText
  <2>1. DiskOK'
    BY <1>1, <1>4 DEF DiskOK, Without, Restrict
  <2> QED
    BY <1>1, <1>2, <1>4, <2>1, CoreUntouchedOK
<1> QED
  BY <1>3, <1>4 DEF WriteOutside

\* A step of the strip.
LEMMA StripOK ==
  ASSUME IInv, CoreOK', RopesKept, pane' = document', DiskOK', lastText' = lastText,
         phase' = "running"
  PROVE  StepOK
  BY RopesKeptKeepsTexts, RunningOK DEF IInv, ShellOK

\* A new tab is empty and fits its slot (new_tab).
LEMMA NewTabOK == IInv /\ NewTab => StepOK
<1> SUFFICES ASSUME IInv, NewTab PROVE StepOK
  OBVIOUS
<1> DEFINE rope == [text |-> Empty, rev |-> 0]
<1>1. CoreOK /\ DiskOK /\ rope \in Document
  BY StarterTyped DEF IInv, ShellOK, Document
<1>2. /\ NewSlot(InheritedStore) \in DocumentSlot /\ Fits(NewSlot(InheritedStore), rope)
      /\ NewSlot(InheritedStore).store = InheritedStore
  BY <1>1, InheritedIsShared, NewSlotTyped DEF NewSlot, Fits
<1>3. AddTab(NewSlot(InheritedStore), rope) /\ UNCHANGED disk
  BY DEF NewTab
<1> HIDE DEF rope
<1>4. CoreOK' /\ RopesKept
  BY <1>1, <1>2, <1>3, AddedTab
<1>5. DiskOK'
  BY <1>1, <1>3 DEF DiskOK
<1> QED
  BY <1>4, <1>5, StripOK DEF NewTab, Running

\* Switching exchanges two ropes (switch_tab).
LEMMA SwitchTabOK == IInv /\ SwitchTab => StepOK
<1> SUFFICES ASSUME IInv, SwitchTab PROVE StepOK
  OBVIOUS
<1>1. CoreOK /\ DiskOK
  BY DEF IInv, ShellOK
<1>2. CoreOK' /\ RopesKept
  BY <1>1, SwitchedTab DEF SwitchTab
<1>3. DiskOK'
  BY <1>1 DEF DiskOK, SwitchTab
<1> QED
  BY <1>2, <1>3, StripOK DEF SwitchTab, Running

\* Closing removes a slot and its rope (close_tab).
LEMMA CloseTabOK == IInv /\ CloseTab => StepOK
<1> SUFFICES ASSUME IInv, CloseTab PROVE StepOK
  OBVIOUS
<1>1. CoreOK /\ DiskOK
  BY DEF IInv, ShellOK
<1>2. PICK id \in Closable : RemoveTab(id, slots)
  BY DEF CloseTab
<1>3. CoreOK' /\ RopesKept
  BY <1>1, <1>2, ClosableIsNotAlone, RemovedTab DEF CoreOK, StoreShared
<1>4. DiskOK'
  BY <1>1 DEF DiskOK, CloseTab
<1> QED
  BY <1>3, <1>4, StripOK DEF CloseTab, Running

\* A save before closing is a save, and perhaps a removal (run_save, close_tab).
LEMMA SaveAndCloseOK ==
  ASSUME IInv, NEW id \in Closable, SaveAndClose(id)
  PROVE  StepOK
<1>1. CoreOK /\ DiskOK /\ document.text \in Text
  BY DEF IInv, ShellOK, CoreOK, Document
<1>2. PICK p \in SavePath, unsure \in BOOLEAN :
        /\ disk' = Put(disk, p, document.text)
        /\ \/ RemoveTab(id, AfterSave(p, unsure))
           \/ slots' = AfterSave(p, unsure) /\ UNCHANGED <<active, nextId, document, parked>>
  BY DEF SaveAndClose
<1>3. p \in Path
  BY <1>1, SavePathIsFile
<1>4. DiskOK'
  BY <1>1, <1>2, <1>3, DiskWritten
<1>5. CASE RemoveTab(id, AfterSave(p, unsure))
  <2> DEFINE all == AfterSave(p, unsure)
  <2>1. /\ all \in [DOMAIN slots -> DocumentSlot]
        /\ \A i \in DOMAIN slots : Fits(all[i], RopeOf(i)) /\ all[i].store = slots[i].store
    BY <1>1, <1>3, SavedSlots
  <2> HIDE DEF all
  <2>2. \A i, other \in DOMAIN slots : all[i].store = all[other].store
    BY <1>1, <2>1 DEF CoreOK, StoreShared
  <2>3. CoreOK' /\ RopesKept
    BY <1>1, <1>5, <2>1, <2>2, ClosableIsNotAlone, RemovedTab DEF all
  <2> QED
    BY <1>4, <2>3, StripOK DEF SaveAndClose, Running
<1>6. CASE slots' = AfterSave(p, unsure) /\ UNCHANGED <<active, nextId, document, parked>>
  <2>1. CoreOK' /\ RopesKept
    BY <1>1, <1>3, <1>6, AfterSaveKeepsCore
  <2> QED
    BY <1>4, <2>1, StripOK DEF SaveAndClose, Running
<1> QED
  BY <1>2, <1>5, <1>6

\* The saves, and what looks at the file before them.
LEMMA FilesOK == IInv /\ (PollDisk \/ Save \/ CommitSave \/ SaveAs \/ Open \/ SaveAndQuit) => StepOK
<1> SUFFICES ASSUME IInv, PollDisk \/ Save \/ CommitSave \/ SaveAs \/ Open \/ SaveAndQuit PROVE StepOK
  OBVIOUS
<1>1. ASSUME ReloadChanged, pane' \in {pane, document'}, phase' = "running",
             UNCHANGED <<disk, lastText>>
      PROVE  StepOK
  BY <1>1, AdoptOK DEF ReloadChanged, FileChanged
<1>2. CASE PollDisk
  BY <1>1, <1>2, DetectConflictOK DEF PollDisk, Running
<1>3. CASE Save
  <2>1. phase = "running" /\ UNCHANGED <<disk, lastText>>
    BY <1>3 DEF Save
  <2>2. CASE DetectConflict /\ UNCHANGED phase
    BY <2>1, <2>2, DetectConflictOK
  <2>3. CASE ReloadChanged /\ UNCHANGED <<pane, phase>>
    BY <1>1, <2>1, <2>3
  <2>4. CASE phase' = "saving" /\ UNCHANGED <<core, pane>>
    BY <2>1, <2>4, CoreUntouchedOK DEF IInv, ShellOK, DiskOK
  <2> QED
    BY <1>3, <2>2, <2>3, <2>4 DEF Save
<1>7. CASE CommitSave
  <2>1. phase' = "running" /\ UNCHANGED <<active, nextId, document, parked, pane, lastText>>
    BY <1>7 DEF CommitSave
  <2>2. CASE \E p \in SavePath, unsure \in BOOLEAN : Write(p, unsure)
    BY <2>1, <2>2, WriteOK
  <2>3. CASE UNCHANGED <<slots, disk>>
    <3>1. UNCHANGED core
      BY <2>1, <2>3 DEF core
    <3> QED
      BY <2>1, <2>3, <3>1, CoreUntouchedOK DEF IInv, ShellOK, DiskOK
  <2> QED
    BY <1>7, <2>2, <2>3 DEF CommitSave
<1>4. CASE SaveAs
  BY <1>4, WriteOK DEF SaveAs, Running
<1>5. CASE Open
  BY <1>5, AdoptOK DEF Open, Running
<1>6. CASE SaveAndQuit
  BY <1>6, WriteOK DEF SaveAndQuit
<1> QED
  BY <1>2, <1>3, <1>4, <1>5, <1>6, <1>7

\* Every step of the menu's specification.
LEMMA NextOK == IInv /\ [MenuNext]_vars => StepOK
<1> SUFFICES ASSUME IInv, [MenuNext]_vars PROVE StepOK
  OBVIOUS
<1>1. CASE SessionRestored
  BY <1>1, SessionRestoredOK
<1>2. ASSUME UNCHANGED <<core, pane, disk, lastText>>,
             phase' \in {phase, "recover", "running", "saving", "exited"}
      PROVE  StepOK
  BY <1>2, CoreUntouchedOK DEF IInv, ShellOK, DiskOK
<1>3. CASE NoSession \/ DismissRecovered \/ EditRefused \/ Quit \/ UNCHANGED vars
  BY <1>2, <1>3 DEF NoSession, DismissRecovered, EditRefused, Quit, vars
<1>4. CASE AdoptRecovered
  BY <1>4, AdoptRecoveredOK
<1>5. CASE NewTab \/ SwitchTab \/ CloseTab \/ \E id \in Closable : SaveAndClose(id)
  BY <1>5, NewTabOK, SwitchTabOK, CloseTabOK, SaveAndCloseOK
<1>6. CASE Edit
  BY <1>6, EditOK
<1>7. CASE PollDisk \/ Save \/ CommitSave \/ SaveAs \/ Open \/ SaveAndQuit
  BY <1>7, FilesOK
<1>8. CASE WriteOutside
  BY <1>8, WriteOutsideOK
<1> QED
  BY <1>1, <1>3, <1>4, <1>5, <1>6, <1>7, <1>8 DEF MenuNext

-----------------------------------------------------------------------------
(* The tabs and the files *)

\* Only the active tab becomes clean by a save (SaveCompleted).
LEMMA OnlyActiveSaved ==
  ASSUME CoreOK, NEW p \in Path, NEW unsure \in BOOLEAN, NEW id \in DOMAIN slots,
         id # active
  PROVE  AfterSave(p, unsure)[id] = slots[id]
<1>1. slots \in [DOMAIN slots -> DocumentSlot]
  BY DEF CoreOK
<1> QED
  BY <1>1 DEF AfterSave

\* The prompt saves the active tab, and closes the tab it was shown for only
\* if that one is clean then: if they are two, the dirty one stays.
LEMMA ClosedIsSaved ==
  ASSUME CoreOK, NEW id \in Closable, SaveAndClose(id), id \notin DOMAIN slots'
  PROVE  \E p \in DOMAIN disk' : disk'[p] = TextOf(id)
<1>0. id \in DOMAIN slots
  BY ClosableIsNotAlone
<1>1. PICK p \in SavePath, unsure \in BOOLEAN :
        /\ disk' = Put(disk, p, document.text)
        /\ IF ~AfterSave(p, unsure)[id].dirty
             THEN RemoveTab(id, AfterSave(p, unsure))
             ELSE slots' = AfterSave(p, unsure) /\ UNCHANGED <<active, nextId, document, parked>>
  BY DEF SaveAndClose
<1>2. p \in Path
  BY SavePathIsFile
<1>3. DOMAIN AfterSave(p, unsure) = DOMAIN slots
  BY <1>2, SavedSlots
<1>4. ~AfterSave(p, unsure)[id].dirty
  BY <1>0, <1>1, <1>3
<1>5. slots[id].dirty
  BY DEF SaveAndClose
<1>6. id = active
  BY <1>0, <1>2, <1>4, <1>5, OnlyActiveSaved
<1>7. p \in DOMAIN disk' /\ disk'[p] = document.text
  BY <1>1 DEF Put
<1> QED
  BY <1>6, <1>7 DEF TextOf

-----------------------------------------------------------------------------
(* Theorems *)

\* The invariant holds for any number of files, tabs, edits and saves.
THEOREM SessionInvariant == MenuSpec => []IInv
<1>1. IInv /\ [MenuNext]_vars => IInv'
  BY NextOK DEF StepOK
<1> QED
  BY <1>1, InitIInv, PTL DEF MenuSpec

\* The session, its ropes and the files behind it have their types
\* (session_core.rs, document_manager.rs).
THEOREM SessionTypes == MenuSpec => []TypeOK
<1>1. IInv => TypeOK
  <2> SUFFICES ASSUME IInv PROVE TypeOK
    OBVIOUS
  <2>1. DOMAIN parked \subseteq Id
    BY IdsAreNumbers, LimitAssumption DEF IInv, CoreOK, Id
  <2> QED
    BY <2>1 DEF IInv, CoreOK, ShellOK, DiskOK, TypeOK
<1> QED
  BY <1>1, SessionInvariant, PTL

\* Every inactive tab has its rope parked and no closed one has, at the
\* revision the slot of the tab knows (switch_tab, close_tab, adopt_opened).
THEOREM RopesMatch == MenuSpec => []RopesMatchSlots
<1>1. IInv => RopesMatchSlots
  BY CoreMeans DEF IInv
<1> QED
  BY <1>1, SessionInvariant, PTL

\* A document with a file that is not marked dirty has the text that was last
\* read from the file or written to it (SaveCompleted, DocumentOpened).
THEOREM CleanDocumentsAreSaved == MenuSpec => []CleanIsSaved
<1>1. IInv => CleanIsSaved
  BY CoreMeans DEF IInv
<1> QED
  BY <1>1, SessionInvariant, PTL

\* All tabs have the autosave store, or none has (inherit_autosave).
THEOREM StoreIsShared == MenuSpec => []StoreShared
<1>1. IInv => StoreShared
  BY CoreMeans DEF IInv
<1> QED
  BY <1>1, SessionInvariant, PTL

\* No command changes the text of a tab other than the active one, and that
\* only to a text just made or to what its file holds.
THEOREM TextsAreKept == MenuSpec => TextsKept
<1>1. IInv /\ [MenuNext]_vars => KeepsTexts
  BY NextOK DEF StepOK
<1>2. MenuSpec => [][KeepsTexts]_vars
  BY <1>1, SessionInvariant, PTL DEF MenuSpec
<1> QED
  BY <1>2 DEF TextsKept, KeepsTexts

\* A tab that is closed by saving has had its text saved, whichever tab is
\* active when the prompt is answered (NoTabLost; run_save, close_tab).
THEOREM ClosedTabsAreSaved == MenuSpec => NoTabLost
<1>1. CoreOK =>
        [\A id \in Closable :
           SaveAndClose(id) /\ id \notin DOMAIN slots' =>
             \E p \in DOMAIN disk' : disk'[p] = TextOf(id)]_vars
  BY ClosedIsSaved
<1>2. IInv => CoreOK
  BY DEF IInv
<1> QED
  BY <1>1, <1>2, SessionInvariant, PTL DEF MenuSpec, NoTabLost
================================================================================
