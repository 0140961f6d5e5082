------------------------------- MODULE Autosave -------------------------------
(***************************************************************************)
(* The autosave store of crates/rutile-core/src/autosave.rs: a directory   *)
(* with one snapshot file per sequence number, an append-only journal      *)
(* whose lines name the snapshots, and an advisory lock.  Two programs may *)
(* share the directory; each can be killed, or see an I/O error, between   *)
(* any two steps, and the machine can lose power.                          *)
(*                                                                         *)
(* What a power loss leaves is modelled by the sets journalOnDisk and      *)
(* fileOnDisk: every write adds the new content to what may be found       *)
(* afterwards, and only an fsync narrows the set to the current content.   *)
(* Writes that were not fsynced may survive in any combination.            *)
(*                                                                         *)
(* A snapshot is its document (blake3 is taken to be injective), so an     *)
(* entry verifies when the file it names holds the entry's body.           *)
(***************************************************************************)
EXTENDS Naturals, FiniteSets

CONSTANTS
    Proc,         \* programs that open the store
    Body,         \* document contents that are snapshotted
    NoFile,       \* "there is no such file"
    MaxSeq,       \* u64::MAX of the code: the last sequence number
    Retention,    \* AUTOSAVE_RETENTION
    TornAppends,  \* may an append stop half way through the line?
    Foreign       \* lines of another build, undecodable, already journalled

Seqs  == 0 .. MaxSeq
Entry == [seq : Seqs, body : Body]

ASSUME ConstantsAssumption ==
    /\ MaxSeq \in Nat
    /\ Retention \in Nat \ {0}
    /\ NoFile \notin Body
    /\ TornAppends \in BOOLEAN
    /\ Foreign \subseteq Entry

(***************************************************************************)
(* A journal: is the file there, the entries of its lines that decode, the *)
(* entries its undecodable lines were written for, and whether it ends in  *)
(* a partial line.  Order does not matter: the code only takes maxima.     *)
(***************************************************************************)
Journal == [present  : BOOLEAN,
            entries  : SUBSET Entry,
            rejected : SUBSET Entry,
            torn     : BOOLEAN]

VARIABLES
    journal,        \* the journal a program reads
    journalOnDisk,  \* the journals a power loss may leave
    file,           \* the snapshot file of every sequence number
    fileOnDisk,     \* for each, what a power loss may leave
    lock,           \* holder of .autosave.lock, at most one program
    op,             \* what each program is doing
    acked           \* history: the entry record last returned Ok for

stored == <<journal, journalOnDisk, file, fileOnDisk>>
autosaveVars == <<journal, journalOnDisk, file, fileOnDisk, lock, op, acked>>

Steps == {"idle", "recover", "read", "write", "syncFile", "append",
          "syncJournal", "prune", "syncPrune", "gc"}

\* The locals of record: its argument, the allocated sequence number and the
\* rejected lines of the journal it read.
Op == [step : Steps, waiting : BOOLEAN, rejected : SUBSET Entry,
       entry : [seq : Seqs, body : Body \cup {NoFile}]]

-----------------------------------------------------------------------------
(* Reading the store *)

Newer(e, E) == {f \in E : f.seq > e.seq}

\* prune_locked's selection: the newest Retention of the decoded entries.
Newest(E) == {e \in E : Cardinality(Newer(e, E)) < Retention}

\* Mutant of IsNext: the number of the next line, not one past the highest.
IsNextByCount(s, E) == s = Cardinality(E)

\* next_sequence_from_entries, where it does not report SequenceExhausted.
IsNext(s, E) == \/ E = {} /\ s = 0
                \/ /\ \A e \in E : e.seq < s
                   /\ \E e \in E : s = e.seq + 1

Referenced(E) == {e.seq : e \in E}

Verifies(e, f) == f[e.seq] = e.body

\* recover: the highest entry whose snapshot verifies, as a set of at most
\* one entry.
RecoverFrom(E, f) ==
    {e \in E : Verifies(e, f) /\ \A g \in Newer(e, E) : ~Verifies(g, f)}

-----------------------------------------------------------------------------
(* The file system *)

\* sync_parent_directory: every rename and removal in the store is on disk.
SyncDirectory == fileOnDisk' = [s \in Seqs |-> {file[s]}]

\* Appending the line of e: behind a partial line the two run together into
\* one line that does not decode.
Appended(j, e) ==
    [present  |-> TRUE,
     entries  |-> IF j.torn THEN j.entries ELSE j.entries \cup {e},
     rejected |-> IF j.torn THEN j.rejected \cup {e} ELSE j.rejected,
     torn     |-> FALSE]

Partial(j) == [j EXCEPT !.present = TRUE, !.torn = TRUE]

\* collect_orphans: removes snapshots that no entry of E names, all of them
\* or those it reaches and is able to remove.
CollectOrphans(E) ==
    \E gone \in SUBSET (Seqs \ Referenced(E)) :
        /\ file' = [s \in Seqs |-> IF s \in gone THEN NoFile ELSE file[s]]
        /\ fileOnDisk' = [s \in Seqs |-> IF s \in gone
                                           THEN fileOnDisk[s] \cup {NoFile}
                                           ELSE fileOnDisk[s]]

-----------------------------------------------------------------------------
Nothing == [step |-> "idle", waiting |-> FALSE, rejected |-> {},
            entry |-> [seq |-> 0, body |-> NoFile]]

AutosaveInit ==
    /\ journal = [present |-> Foreign # {}, entries |-> {},
                  rejected |-> Foreign, torn |-> FALSE]
    /\ journalOnDisk = {journal}
    /\ file \in [Seqs -> Body \cup {NoFile}]
    /\ \A s \in Seqs : IF s \in Referenced(Foreign)
                         THEN [seq |-> s, body |-> file[s]] \in Foreign
                         ELSE file[s] = NoFile
    /\ fileOnDisk = [s \in Seqs |-> {file[s]}]
    /\ lock = {}
    /\ op = [p \in Proc |-> Nothing]
    /\ acked = {}

At(p, step)   == op[p].step = step /\ ~op[p].waiting
Goto(p, step) == op' = [op EXCEPT ![p].step = step]

\* The operation returns: its lock is dropped with it.
Return(p) == op' = [op EXCEPT ![p] = Nothing] /\ lock' = {}

\* A program calls record or recover and starts polling for the lock.
Call(p) ==
    /\ At(p, "idle")
    /\ \/ \E b \in Body :
            op' = [op EXCEPT ![p].step = "read", ![p].waiting = TRUE,
                             ![p].entry.body = b]
       \/ op' = [op EXCEPT ![p].step = "recover", ![p].waiting = TRUE]
    /\ UNCHANGED <<stored, lock, acked>>

\* acquire_store_lock: the holder changes only when the lock is free.
AcquireLock(p) ==
    /\ op[p].waiting
    /\ lock = {}
    /\ lock' = {p}
    /\ op' = [op EXCEPT ![p].waiting = FALSE]
    /\ UNCHANGED <<stored, acked>>

\* Mutant of LockTimeout: the program polls for ever.
LockNoTimeout(p) == FALSE /\ op[p].waiting /\ UNCHANGED autosaveVars

\* ... and a program that polls in vain for LOCK_TIMEOUT_MS: AutosaveBusy.
LockTimeout(p) ==
    /\ op[p].waiting
    /\ lock # {}
    /\ op' = [op EXCEPT ![p] = Nothing]
    /\ UNCHANGED <<stored, lock, acked>>

-----------------------------------------------------------------------------
(* record *)

\* The journal is read and decoded, the sequence number allocated.
ReadJournal(p) ==
    /\ At(p, "read")
    /\ \E s \in Seqs :
         /\ IsNext(s, journal.entries)
         /\ op' = [op EXCEPT ![p].step = "write", ![p].rejected = journal.rejected,
                             ![p].entry.seq = s]
    /\ UNCHANGED <<stored, lock, acked>>

\* SequenceExhausted.
Exhausted(p) ==
    /\ At(p, "read")
    /\ \E e \in journal.entries : e.seq = MaxSeq
    /\ Return(p)
    /\ UNCHANGED <<stored, acked>>

\* write_snapshot_atomic: the synced temporary file is renamed into place ...
WriteSnapshot(p) ==
    /\ At(p, "write")
    /\ LET e == op[p].entry IN
         /\ file' = [file EXCEPT ![e.seq] = e.body]
         /\ fileOnDisk' = [fileOnDisk EXCEPT ![e.seq] = @ \cup {e.body}]
    /\ Goto(p, "syncFile")
    /\ UNCHANGED <<journal, journalOnDisk, lock, acked>>

\* Mutant of SyncSnapshot: the rename is not synced before the append.
SyncSnapshotSkipped(p) ==
    /\ At(p, "syncFile")
    /\ Goto(p, "append")
    /\ UNCHANGED <<stored, lock, acked>>

\* ... and the directory synced.
SyncSnapshot(p) ==
    /\ At(p, "syncFile")
    /\ SyncDirectory
    /\ Goto(p, "append")
    /\ UNCHANGED <<journal, journalOnDisk, file, lock, acked>>

\* append_bytes_durable: the line is written ...
AppendEntry(p) ==
    /\ At(p, "append")
    /\ journal' = Appended(journal, op[p].entry)
    /\ journalOnDisk' = journalOnDisk \cup {journal'}
                          \cup {j \in {Partial(journal)} : TornAppends}
    /\ Goto(p, "syncJournal")
    /\ UNCHANGED <<file, fileOnDisk, lock, acked>>

\* ... in part only, when the program is killed or the disk is full ...
AppendPartially(p) ==
    /\ TornAppends
    /\ At(p, "append")
    /\ journal' = Partial(journal)
    /\ journalOnDisk' = journalOnDisk \cup {journal'}
    /\ Return(p)
    /\ UNCHANGED <<file, fileOnDisk, acked>>

\* ... and the file and the directory synced.
SyncJournal(p) ==
    /\ At(p, "syncJournal")
    /\ journalOnDisk' = {journal}
    /\ SyncDirectory
    /\ Goto(p, "prune")
    /\ UNCHANGED <<journal, file, lock, acked>>

\* Mutant of Compact: the sort keeps the oldest entries.
CompactToOldest(p) ==
    /\ At(p, "prune")
    /\ Cardinality(journal.entries) > Retention
    /\ journal' = [present |-> TRUE, rejected |-> {}, torn |-> FALSE,
                   entries |-> {e \in journal.entries :
                     Cardinality({f \in journal.entries : f.seq < e.seq}) < Retention}]
    /\ journalOnDisk' = journalOnDisk \cup {journal'}
    /\ Goto(p, "syncPrune")
    /\ UNCHANGED <<file, fileOnDisk, lock, acked>>

\* prune_locked: a journal of more than Retention entries is rewritten from
\* the newest ones; lines that do not decode are dropped.
Compact(p) ==
    /\ At(p, "prune")
    /\ Cardinality(journal.entries) > Retention
    /\ journal' = [present |-> TRUE, entries |-> Newest(journal.entries),
                   rejected |-> {}, torn |-> FALSE]
    /\ journalOnDisk' = journalOnDisk \cup {journal'}
    /\ Goto(p, "syncPrune")
    /\ UNCHANGED <<file, fileOnDisk, lock, acked>>

SyncCompacted(p) ==
    /\ At(p, "syncPrune")
    /\ journalOnDisk' = {journal}
    /\ SyncDirectory
    /\ Goto(p, "gc")
    /\ UNCHANGED <<journal, file, lock, acked>>

SkipCompact(p) ==
    /\ At(p, "prune")
    /\ Cardinality(journal.entries) <= Retention
    /\ Goto(p, "gc")
    /\ UNCHANGED <<stored, lock, acked>>

\* gc_orphans_fail_closed, and record returns Ok(entry).  The gate is the
\* decode before the append; the entries to keep are read afterwards.
GcAndReturn(p) ==
    /\ At(p, "gc")
    /\ IF op[p].rejected = {} THEN CollectOrphans(journal.entries)
                              ELSE UNCHANGED <<file, fileOnDisk>>
    /\ acked' = {op[p].entry}
    /\ Return(p)
    /\ UNCHANGED <<journal, journalOnDisk>>

-----------------------------------------------------------------------------
\* recover, after it has the lock: nothing without a journal, else orphans
\* are collected when every line decodes.
Recover(p) ==
    /\ At(p, "recover")
    /\ IF journal.present /\ journal.rejected = {}
         THEN CollectOrphans(journal.entries)
         ELSE UNCHANGED <<file, fileOnDisk>>
    /\ Return(p)
    /\ UNCHANGED <<journal, journalOnDisk, acked>>

\* An I/O error (every call is followed by ?) or the end of the program: the
\* operation stops where it is and the lock is dropped.
Abort(p) ==
    /\ p \in lock
    /\ Return(p)
    /\ UNCHANGED <<stored, acked>>

\* The machine stops.  What is found afterwards is one of the contents that
\* may have reached the disk, for every file on its own.
PowerLoss ==
    /\ \E j \in journalOnDisk :
         /\ journal' = j
         /\ journalOnDisk' = {j}
    /\ \E f \in [Seqs -> Body \cup {NoFile}] :
         /\ \A s \in Seqs : f[s] \in fileOnDisk[s]
         /\ file' = f
         /\ fileOnDisk' = [s \in Seqs |-> {f[s]}]
    /\ lock' = {}
    /\ op' = [p \in Proc |-> Nothing]
    /\ UNCHANGED acked

\* A step of the code: the next statement of the operation p is in.
Step(p) ==
    \/ ReadJournal(p) \/ Exhausted(p)
    \/ WriteSnapshot(p) \/ SyncSnapshot(p)
    \/ AppendEntry(p) \/ SyncJournal(p)
    \/ Compact(p) \/ SyncCompacted(p) \/ SkipCompact(p)
    \/ GcAndReturn(p)
    \/ Recover(p)

AutosaveNext ==
    \/ \E p \in Proc : Call(p) \/ AcquireLock(p) \/ LockTimeout(p)
                         \/ Step(p) \/ AppendPartially(p) \/ Abort(p)
    \/ PowerLoss

AutosaveSpec == AutosaveInit /\ [][AutosaveNext]_autosaveVars

\* A program that is in an operation goes on with it: the operation runs on
\* the caller's thread and waits for nothing but the lock, which it polls.
FairSpec ==
    AutosaveSpec /\ \A p \in Proc : /\ WF_autosaveVars(Step(p))
                                     /\ WF_autosaveVars(AcquireLock(p) \/ LockTimeout(p))

-----------------------------------------------------------------------------
(* Properties *)

\* Every variable has its type, and the advisory lock has one holder at most
\* (acquire_store_lock).
AutosaveTypeOK ==
    /\ journal \in Journal
    /\ journalOnDisk \subseteq Journal
    /\ file \in [Seqs -> Body \cup {NoFile}]
    /\ fileOnDisk \in [Seqs -> SUBSET (Body \cup {NoFile})]
    /\ lock = {} \/ \E p \in Proc : lock = {p}
    /\ op \in [Proc -> Op]
    /\ acked \subseteq Entry

\* Whatever a crash or a power loss leaves, the Retention newest entries of
\* the journal name snapshots that are there and verify: a snapshot is
\* referenced only after its rename is on disk, compaction comes before
\* removal, and orphan collection never takes a snapshot that a journal which
\* may come back still needs (autosave.rs:27-33, 396-400).
NewestBacked ==
    \A j \in journalOnDisk : \A e \in Newest(j.entries) :
        fileOnDisk[e.seq] = {e.body}

\* Recovery is sure to find an entry at least as new as s.
Guaranteed(s) ==
    \A j \in journalOnDisk : \E e \in Newest(j.entries) : e.seq >= s

\* What recovery is sure to find never gets older, whichever program writes,
\* compacts, collects orphans, fails or loses power in whichever step.
NeverForgets == [][\A s \in Seqs : Guaranteed(s) => Guaranteed(s)']_autosaveVars

\* The document record last returned Ok for is what recovery finds after any
\* crash, or a newer one (module doc, autosave.rs:5-9).
AckedRecoverable ==
    \A a \in acked : \A j \in journalOnDisk :
        \E e \in Newest(j.entries) : e = a \/ e.seq > a.seq

\* A snapshot the journal still points at, from a line this build cannot
\* decode, is kept (autosave.rs:449-454 and the test at 1007).
RejectedKept ==
    \A e \in journal.rejected : file[e.seq] = e.body

\* Every call to record or recover returns, with AutosaveBusy if need be: no
\* path through an operation leaves the lock held.
CallsReturn == \A p \in Proc : op[p].step # "idle" ~> op[p].step = "idle"

-----------------------------------------------------------------------------
(* The documents recovery may find if the power fails now, and the          *)
(* specification they implement.                                            *)
Outcomes ==
    {RecoverFrom(j.entries, f) :
        j \in journalOnDisk,
        f \in {g \in [Seqs -> Body \cup {NoFile}] :
                  \A s \in Seqs : g[s] \in fileOnDisk[s]}}

Recoverable == INSTANCE RecoverableDocument WITH outcomes <- Outcomes

\* The store never offers a document nobody saved, never falls back behind one
\* it acknowledged, and acknowledges only what no crash can take back.
ImplementsRecoverable == Recoverable!Spec
===============================================================================
