----------------------------- MODULE RunnerLock -----------------------------
(***************************************************************************)
(* The publication and the opening of the runner lock of the release       *)
(* tooling (xtask/src/runner/transaction.rs).  A lock is authoritative     *)
(* when two names of one directory agree: the lock file itself and a       *)
(* record ".<lock>.<run>.committed" that holds its run and hash.  A        *)
(* publication walks a record through ".incomplete" to ".committed" with   *)
(* fsyncs in between; whoever takes the transaction lock first repairs     *)
(* what an interrupted publication left.                                   *)
(*                                                                         *)
(* Every rename is a step.  Any system call may fail, a process may be     *)
(* killed between any two steps, and a power cut leaves the directory as   *)
(* it was after any rename since the last fsync of the directory.          *)
(* Quarantined names are never read again and are left out, as is the      *)
(* temporary name of the lock, which holds the run and is never shared.    *)
(***************************************************************************)
EXTENDS FiniteSets

CONSTANTS
    Run,        \* matrix run ids, a fresh random one for each capture
    Reader,     \* the processes that open the lock
    none

ASSUME RunAssumption ==
    /\ Run \intersect Reader = {}
    /\ none \notin Run \union Reader \union {"ok", "err", "lost", "died"}

Actor == Run \union Reader

Dir == [lock : Run \union {none}, incomplete : SUBSET Run, committed : SUBSET Run]

VARIABLES
    dir,        \* the names of the directory
    kept,       \* the directories a power cut can leave
    record,     \* contents of the record of each run
    bytes,      \* contents of the lock file of each run
    pc,         \* where each process is
    holder,     \* the process that holds the transaction lock
    result,     \* what each publication returned
    opened      \* the run each reader was last given

lockVars == <<dir, kept, record, bytes, pc, holder, result, opened>>

Recovering == {"scan", "clear", "pairs", "revoke"}
Publishing == {"create", "note", "syncNote", "fill", "place", "syncPlace",
               "rewrite", "fsync", "commit", "syncCommit"}
Undoing == {"undo", "undoLock", "undoSync"}

RunnerTypeOK ==
    /\ dir \in Dir
    /\ kept \in SUBSET Dir
    /\ dir \in kept
    /\ record \in [Run -> {"absent", "torn", "incomplete", "committed"}]
    /\ bytes \in [Run -> {"absent", "partial", "whole"}]
    /\ pc \in [Actor -> {"idle", "wait", "found"} \union Recovering \union Publishing \union Undoing]
    /\ holder \in Actor \union {none}
    /\ result \in [Run -> {none, "ok", "err", "lost", "died"}]
    /\ opened \in [Reader -> Run \union {none}]

RunnerInit ==
    /\ dir = [lock |-> none, incomplete |-> {}, committed |-> {}]
    /\ kept = {dir}
    /\ record = [r \in Run |-> "absent"]
    /\ bytes = [r \in Run |-> "absent"]
    /\ pc = [a \in Actor |-> "idle"]
    /\ holder = none
    /\ result = [r \in Run |-> none]
    /\ opened = [k \in Reader |-> none]

-----------------------------------------------------------------------------
\* A rename may be lost in a power cut until the directory is synced.
Rename(d) == dir' = d /\ kept' = kept \union {d}
Sync == kept' = {dir} /\ UNCHANGED dir

Go(a, step) == pc' = [pc EXCEPT ![a] = step] /\ UNCHANGED <<holder, result, opened>>

\* The call returns: the descriptor is closed, and with it the lock released.
Return(a, outcome) ==
    /\ pc' = [pc EXCEPT ![a] = "idle"]
    /\ holder' = IF holder = a THEN none ELSE holder
    /\ result' = IF a \in Run THEN [result EXCEPT ![a] = outcome] ELSE result
    /\ opened' = IF a \in Reader
                 THEN [opened EXCEPT ![a] = IF outcome = "ok" THEN dir.lock ELSE none]
                 ELSE opened

Contents == <<record, bytes>>

\* verify_pair: the record is committed and binds the bytes of the lock.
Bound(d) ==
    /\ d.lock # none
    /\ d.committed = {d.lock}
    /\ record[d.lock] = "committed"
    /\ bytes[d.lock] = "whole"

-----------------------------------------------------------------------------
\* Opening the transaction lock syncs the directory before the lock is held.
Arrive(a) ==
    /\ pc[a] = "idle"
    /\ a \in Run => result[a] = none
    /\ Sync
    /\ Go(a, "wait")
    /\ UNCHANGED Contents

Acquire(a) ==
    /\ pc[a] = "wait"
    /\ holder = none
    /\ holder' = a
    /\ pc' = [pc EXCEPT ![a] = "scan"]
    /\ UNCHANGED <<dir, kept, record, bytes, result, opened>>

\* recover_commit_state, first half: a record left incomplete condemns
\* whatever lock is there.
Scan(a) ==
    /\ pc[a] = "scan"
    /\ Go(a, IF dir.incomplete = {} THEN "pairs" ELSE "clear")
    /\ UNCHANGED <<dir, kept, Contents>>

Clear(a) ==
    /\ pc[a] = "clear"
    /\ \/ /\ dir.lock # none
          /\ Rename([dir EXCEPT !.lock = none])
          /\ Go(a, "clear")
       \/ /\ dir.lock = none
          /\ \E r \in dir.incomplete : Rename([dir EXCEPT !.incomplete = @ \ {r}])
          /\ Go(a, "clear")
       \/ /\ dir.lock = none
          /\ dir.incomplete = {}
          /\ Sync
          /\ Go(a, "pairs")
    /\ UNCHANGED Contents

\* Second half: a committed record stands only with the lock it binds.
Proceed(a) == Go(a, IF a \in Reader THEN "found" ELSE "create")

Pairs(a) ==
    /\ pc[a] = "pairs"
    /\ \/ dir.committed = {} /\ UNCHANGED <<dir, kept>> /\ Proceed(a)
       \/ Bound(dir) /\ Sync /\ Proceed(a)
       \/ dir.committed # {} /\ ~Bound(dir) /\ UNCHANGED <<dir, kept>> /\ Go(a, "revoke")
    /\ UNCHANGED Contents

Revoke(a) ==
    /\ pc[a] = "revoke"
    /\ \/ /\ dir.lock # none
          /\ Rename([dir EXCEPT !.lock = none])
          /\ Go(a, "revoke")
       \/ /\ dir.lock = none
          /\ \E r \in dir.committed : Rename([dir EXCEPT !.committed = @ \ {r}])
          /\ Go(a, "revoke")
       \/ /\ dir.lock = none
          /\ dir.committed = {}
          /\ Sync
          /\ Return(a, "err")
    /\ UNCHANGED Contents

\* open_committed_runner_lock: the summary is returned and the lock dropped.
Open(k) ==
    /\ pc[k] = "found"
    /\ Bound(dir)
    /\ Sync
    /\ Return(k, "ok")
    /\ UNCHANGED Contents

-----------------------------------------------------------------------------
(* publish_runner_lock_with, after the recovery. *)

CreateRecord(r) ==
    /\ pc[r] = "create"
    /\ Rename([dir EXCEPT !.incomplete = @ \union {r}])
    /\ record' = [record EXCEPT ![r] = "torn"]
    /\ Go(r, "note")
    /\ UNCHANGED bytes

WriteIncomplete(r) ==
    /\ pc[r] = "note"
    /\ record' = [record EXCEPT ![r] = "incomplete"]
    /\ Go(r, "syncNote")
    /\ UNCHANGED <<dir, kept, bytes>>

SyncIncomplete(r) ==
    /\ pc[r] = "syncNote"
    /\ Sync
    /\ bytes' = [bytes EXCEPT ![r] = "partial"]
    /\ Go(r, "fill")
    /\ UNCHANGED record

\* The temporary file is written, read back, verified and fsynced.
FillLock(r) ==
    /\ pc[r] = "fill"
    /\ bytes' = [bytes EXCEPT ![r] = "whole"]
    /\ Go(r, "place")
    /\ UNCHANGED <<dir, kept, record>>

\* A rename that replaces nothing: it fails when a lock is already there, and
\* the incomplete record stays.
PlaceLock(r) ==
    /\ pc[r] = "place"
    /\ \/ /\ dir.lock = none
          /\ Rename([dir EXCEPT !.lock = r])
          /\ Go(r, "syncPlace")
       \/ /\ dir.lock # none
          /\ Return(r, "err")
          /\ UNCHANGED <<dir, kept>>
    /\ UNCHANGED Contents

SyncPlace(r) ==
    /\ pc[r] = "syncPlace"
    /\ Sync
    /\ Go(r, "rewrite")
    /\ UNCHANGED Contents

\* A plausible bug: the record is renamed before it is on the disk.
CommitUnwritten(r) ==
    /\ pc[r] = "rewrite"
    /\ record' = [record EXCEPT ![r] = "torn"]
    /\ Go(r, "commit")
    /\ UNCHANGED <<dir, kept, bytes>>

\* The record is truncated and rewritten in place.
RewriteRecord(r) ==
    /\ pc[r] = "rewrite"
    /\ record' = [record EXCEPT ![r] = "torn"]
    /\ Go(r, "fsync")
    /\ UNCHANGED <<dir, kept, bytes>>

FsyncRecord(r) ==
    /\ pc[r] = "fsync"
    /\ record' = [record EXCEPT ![r] = "committed"]
    /\ Go(r, "commit")
    /\ UNCHANGED <<dir, kept, bytes>>

CommitRecord(r) ==
    /\ pc[r] = "commit"
    /\ Rename([dir EXCEPT !.incomplete = @ \ {r}, !.committed = @ \union {r}])
    /\ Go(r, "syncCommit")
    /\ UNCHANGED Contents

\* A plausible bug: success is reported before the directory is synced.
UnsyncedCommit(r) ==
    /\ pc[r] = "syncCommit"
    /\ Return(r, "ok")
    /\ UNCHANGED <<dir, kept, Contents>>

SyncCommit(r) ==
    /\ pc[r] = "syncCommit"
    /\ \/ Sync /\ Return(r, "ok")
       \/ UNCHANGED <<dir, kept>> /\ Go(r, "undo")
    /\ UNCHANGED Contents

\* A plausible bug: the failure is reported with the record still committed.
UndoForgotten(r) ==
    /\ pc[r] \in Undoing
    /\ Return(r, "err")
    /\ UNCHANGED <<dir, kept, Contents>>

\* The last fsync failed: the record becomes incomplete again and the lock is
\* put away.  Only when that reaches the disk is the failure an ordinary one.
UndoCommit(r) ==
    /\ \/ /\ pc[r] = "undo"
          /\ Rename([dir EXCEPT !.incomplete = @ \union {r}, !.committed = @ \ {r}])
          /\ Go(r, "undoLock")
       \/ /\ pc[r] = "undoLock"
          /\ Rename([dir EXCEPT !.lock = none])
          /\ Go(r, "undoSync")
       \/ /\ pc[r] = "undoSync"
          /\ Sync
          /\ Return(r, "err")
       \/ /\ pc[r] \in Undoing
          /\ Return(r, "lost")
          /\ UNCHANGED <<dir, kept>>
    /\ UNCHANGED Contents

-----------------------------------------------------------------------------
\* A system call fails, or the reader finds no pair: the error is returned
\* with the directory as it is.
Fail(a) ==
    /\ pc[a] \notin {"idle", "syncCommit"} \union Undoing
    /\ Return(a, "err")
    /\ UNCHANGED <<dir, kept, Contents>>

Kill(a) ==
    /\ pc[a] # "idle"
    /\ Return(a, "died")
    /\ UNCHANGED <<dir, kept, Contents>>

PowerCut ==
    /\ dir' \in kept
    /\ kept' = {dir'}
    /\ result' = [r \in Run |-> IF pc[r] = "idle" THEN result[r] ELSE "died"]
    /\ pc' = [a \in Actor |-> "idle"]
    /\ holder' = none
    /\ opened' = [k \in Reader |-> none]
    /\ UNCHANGED Contents

Publish(r) ==
    \/ CreateRecord(r) \/ WriteIncomplete(r) \/ SyncIncomplete(r)
    \/ FillLock(r) \/ PlaceLock(r) \/ SyncPlace(r)
    \/ RewriteRecord(r) \/ FsyncRecord(r) \/ CommitRecord(r) \/ SyncCommit(r)
    \/ UndoCommit(r)

Recover(a) == Scan(a) \/ Clear(a) \/ Pairs(a) \/ Revoke(a)

RunnerNext ==
    \/ \E a \in Actor : Arrive(a) \/ Acquire(a) \/ Recover(a) \/ Fail(a) \/ Kill(a)
    \/ \E r \in Run : Publish(r)
    \/ \E k \in Reader : Open(k)
    \/ PowerCut

RunnerSpec == RunnerInit /\ [][RunnerNext]_lockVars

-----------------------------------------------------------------------------
\* A publication that reported an ordinary failure is never authoritative
\* again, whatever is killed or cut off later: its record is committed on no
\* disk a power cut can leave, and nobody is given its lock.
FailedNeverAuthorizes ==
    /\ \A r \in Run : result[r] = "err" => \A d \in kept : r \notin d.committed
    /\ \A k \in Reader : opened[k] # none => result[opened[k]] \in {"ok", "died", "lost"}

\* On every disk a power cut can leave, a committed record is the only one,
\* is whole, and the lock beside it is its own, whole, or gone.
CommittedIsWhole ==
    \A d \in kept : \A r \in d.committed :
        /\ d.committed = {r}
        /\ d.lock \in {r, none}
        /\ record[r] = "committed"
        /\ bytes[r] = "whole"

\* A publication that returned success survives every crash until another
\* publication to the same name begins.
OkIsDurable ==
    \A r \in Run :
        /\ result[r] = "ok"
        /\ \A q \in Run \ {r} : pc[q] = "idle" /\ result[q] = none
        => \A d \in kept : Bound(d)

\* Not so: an authoritative pair outlives every later publication.
OkIsKept == \A r \in Run : result[r] = "ok" => dir.lock = r
=============================================================================
