-------------------------- MODULE RunnerLockProofs --------------------------
(***************************************************************************)
(* Proofs about the publication of the runner lock, for any number of      *)
(* captures and readers, and about the keystone that is composed with it:  *)
(* a publication that reported an ordinary failure is never authoritative, *)
(* a committed record is whole on every disk, and a success stays on every *)
(* disk until it is challenged.                                            *)
(***************************************************************************)
EXTENDS Readiness, TLAPS

Steps == {"idle", "wait", "found"} \union Recovering \union Publishing \union Undoing

\* Only the holder of the transaction lock is past waiting for it.
OneHolder == \A a \in Actor : pc[a] \notin {"idle", "wait"} => holder = a

\* A record is committed, on any disk a power cut can leave, only from the
\* rename of its publication on, and no more once the undo has renamed it back
\* and reported.
CommittedBy(r) ==
    \/ pc[r] \in {"syncCommit"} \union Undoing
    \/ pc[r] = "idle" /\ result[r] \in {"ok", "lost", "died"}

CommittedInTime == \A d \in kept : \A r \in d.committed : CommittedBy(r)

UndoneIsGone == \A r \in Run : pc[r] \in {"undoLock", "undoSync"} => r \notin dir.committed

\* A publication that has returned is over.
ResultIsFinal == \A r \in Run : result[r] # none => pc[r] = "idle"

OpenedSound ==
    \A k \in Reader : opened[k] # none =>
        pc[opened[k]] = "idle" /\ result[opened[k]] \in {"ok", "lost", "died"}

RInv ==
    /\ RunnerTypeOK
    /\ OneHolder
    /\ CommittedInTime
    /\ UndoneIsGone
    /\ ResultIsFinal
    /\ OpenedSound

-----------------------------------------------------------------------------
LEMMA RunnerInitInv == RunnerInit => RInv
<1> SUFFICES ASSUME RunnerInit PROVE RInv
  OBVIOUS
<1> USE RunAssumption DEF RunnerInit, Actor
<1>1. RunnerTypeOK
  BY DEF RunnerTypeOK, Dir
<1>2. OneHolder /\ UndoneIsGone /\ ResultIsFinal /\ OpenedSound
  BY DEF OneHolder, UndoneIsGone, ResultIsFinal, OpenedSound
<1>3. CommittedInTime
  BY DEF CommittedInTime
<1> QED
  BY <1>1, <1>2, <1>3 DEF RInv

\* What the shapes of step do to the types.
LEMMA GoTypes ==
    ASSUME RunnerTypeOK, NEW a \in Actor, NEW s \in Steps, Go(a, s)
    PROVE  /\ pc' \in [Actor -> Steps]
           /\ holder' = holder /\ result' = result /\ opened' = opened
  BY DEF RunnerTypeOK, Go, Steps

LEMMA ReturnTypes ==
    ASSUME RunnerTypeOK, NEW a \in Actor, NEW o \in {"ok", "err", "lost", "died"},
           Return(a, o)
    PROVE  /\ pc' \in [Actor -> Steps]
           /\ holder' \in Actor \union {none}
           /\ result' \in [Run -> {none, "ok", "err", "lost", "died"}]
           /\ opened' \in [Reader -> Run \union {none}]
<1> USE DEF RunnerTypeOK, Return, Steps
<1>1. dir.lock \in Run \union {none}
  BY DEF Dir
<1>2. pc' \in [Actor -> Steps] /\ holder' \in Actor \union {none}
  OBVIOUS
<1>3. result' \in [Run -> {none, "ok", "err", "lost", "died"}]
  OBVIOUS
<1>4. opened' \in [Reader -> Run \union {none}]
  BY <1>1
<1> QED
  BY <1>2, <1>3, <1>4

LEMMA RenameTypes ==
    ASSUME RunnerTypeOK, NEW d \in Dir, Rename(d)
    PROVE  dir' \in Dir /\ kept' \in SUBSET Dir /\ dir' \in kept'
  BY DEF RunnerTypeOK, Rename

LEMMA SyncTypes ==
    ASSUME RunnerTypeOK, Sync
    PROVE  dir' \in Dir /\ kept' \in SUBSET Dir /\ dir' \in kept'
  BY DEF RunnerTypeOK, Sync

-----------------------------------------------------------------------------
\* The five parts of the invariant that speak of who did what.
Discipline == OneHolder /\ CommittedInTime /\ UndoneIsGone /\ ResultIsFinal /\ OpenedSound

\* No disk after the step holds a committed record that none held before.
NothingCommitted ==
    /\ dir'.committed \subseteq dir.committed
    /\ \A d \in kept' : \E e \in kept : d.committed \subseteq e.committed

LEMMA RenameCommitsNothing ==
    ASSUME RunnerTypeOK, NEW d \in Dir, d.committed \subseteq dir.committed, Rename(d)
    PROVE  NothingCommitted
  BY DEF RunnerTypeOK, Rename, NothingCommitted, Dir

LEMMA SyncCommitsNothing == RunnerTypeOK /\ Sync => NothingCommitted
  BY DEF RunnerTypeOK, Sync, NothingCommitted, Dir

LEMMA SameCommitsNothing == RunnerTypeOK /\ UNCHANGED <<dir, kept>> => NothingCommitted
  BY DEF RunnerTypeOK, NothingCommitted, Dir

\* A step of a process that is not at or past its commit.
LEMMA GoKeeps ==
    ASSUME RInv, NEW a \in Actor, NEW s \in Steps, Go(a, s), NothingCommitted,
           RunnerTypeOK',
           pc[a] # "idle" \/ (a \in Run => result[a] = none),
           pc[a] \notin {"syncCommit"} \union Undoing,
           s \notin {"idle"} \union Undoing,
           s = "wait" \/ holder = a
    PROVE  Discipline'
<1> USE DEF RInv, RunnerTypeOK, Go
<1>1. OneHolder'
  BY DEF OneHolder
<1>2. CommittedInTime'
  <2> SUFFICES ASSUME NEW d \in kept', NEW r \in d.committed PROVE CommittedBy(r)'
    BY DEF CommittedInTime
  <2>1. r \in Run /\ CommittedBy(r)
    BY DEF NothingCommitted, CommittedInTime, Dir
  <2>2. r # a
    BY <2>1, RunAssumption DEF CommittedBy
  <2> QED
    BY <2>1, <2>2 DEF CommittedBy, Actor
<1>3. UndoneIsGone'
  BY DEF UndoneIsGone, NothingCommitted, Undoing, Actor
<1>4. ResultIsFinal' /\ OpenedSound'
  BY RunAssumption DEF ResultIsFinal, OpenedSound, Actor
<1> QED
  BY <1>1, <1>2, <1>3, <1>4 DEF Discipline

\* A process returns: with an error only if no disk holds its record
\* committed, and with a lock only if its publication is over.
LEMMA ReturnKeeps ==
    ASSUME RInv, NEW a \in Actor, NEW o \in {"ok", "err", "lost", "died"}, Return(a, o),
           NothingCommitted, RunnerTypeOK', pc[a] # "idle",
           a \in Run /\ o = "err" => \A d \in kept' : a \notin d.committed,
           a \in Reader /\ o = "ok" /\ dir.lock # none =>
               pc[dir.lock] = "idle" /\ result[dir.lock] \in {"ok", "lost", "died"}
    PROVE  Discipline'
<1> USE DEF RInv, RunnerTypeOK, Return
<1>1. OneHolder'
  BY DEF OneHolder
<1>2. CommittedInTime'
  <2> SUFFICES ASSUME NEW d \in kept', NEW r \in d.committed PROVE CommittedBy(r)'
    BY DEF CommittedInTime
  <2>1. r \in Run /\ CommittedBy(r)
    BY DEF NothingCommitted, CommittedInTime, Dir
  <2>2. CASE r = a
    BY <2>1, <2>2 DEF CommittedBy
  <2>3. CASE r # a
    BY <2>1, <2>3 DEF CommittedBy, Actor
  <2> QED
    BY <2>2, <2>3
<1>3. UndoneIsGone'
  BY DEF UndoneIsGone, NothingCommitted, Actor
<1>4. ResultIsFinal'
  BY DEF ResultIsFinal, Actor
<1>5. OpenedSound'
  <2> SUFFICES ASSUME NEW k \in Reader, opened'[k] # none
               PROVE  /\ pc'[opened'[k]] = "idle"
                      /\ result'[opened'[k]] \in {"ok", "lost", "died"}
    BY DEF OpenedSound
  <2>1. opened'[k] \in Run
    OBVIOUS
  <2>2. pc[opened'[k]] = "idle" /\ result[opened'[k]] \in {"ok", "lost", "died"}
    BY DEF OpenedSound
  <2> QED
    BY <2>1, <2>2 DEF Actor
<1> QED
  BY <1>1, <1>2, <1>3, <1>4, <1>5 DEF Discipline

-----------------------------------------------------------------------------
LEMMA TypesOfDir == RunnerTypeOK => dir.lock \in Run \union {none} /\ dir.incomplete \subseteq Run /\ dir.committed \subseteq Run
  BY DEF RunnerTypeOK, Dir

\* Types are kept: by the steps of whoever holds or awaits the lock, ...
LEMMA ActorTypes ==
    ASSUME RunnerTypeOK, NEW a \in Actor, Arrive(a) \/ Acquire(a) \/ Recover(a) \/ Fail(a) \/ Kill(a)
    PROVE  RunnerTypeOK'
<1> USE DEF Contents
<1>1. CASE Arrive(a)
  <2>1. "wait" \in Steps
    BY DEF Steps
  <2> QED
    BY <1>1, <2>1, GoTypes, SyncTypes DEF Arrive, RunnerTypeOK, Steps
<1>2. CASE Acquire(a)
  BY <1>2 DEF Acquire, RunnerTypeOK, Recovering
<1>3. CASE Scan(a)
  <2>1. {"clear", "pairs"} \subseteq Steps
    BY DEF Steps, Recovering
  <2> QED
    BY <1>3, <2>1, GoTypes DEF Scan, RunnerTypeOK, Steps
<1>4. CASE Clear(a)
  <2>1. dir' \in Dir /\ kept' \in SUBSET Dir /\ dir' \in kept'
    <3>1. [dir EXCEPT !.lock = none] \in Dir
      BY DEF RunnerTypeOK, Dir
    <3>2. ASSUME NEW r \in Run PROVE [dir EXCEPT !.incomplete = @ \ {r}] \in Dir
      BY DEF RunnerTypeOK, Dir
    <3> QED
      BY <1>4, <3>1, <3>2, TypesOfDir, RenameTypes, SyncTypes DEF Clear
  <2>2. {"clear", "pairs"} \subseteq Steps
    BY DEF Steps, Recovering
  <2> QED
    BY <1>4, <2>1, <2>2, GoTypes DEF Clear, RunnerTypeOK, Steps
<1>5. CASE Pairs(a)
  <2>1. dir' \in Dir /\ kept' \in SUBSET Dir /\ dir' \in kept'
    BY <1>5, SyncTypes DEF Pairs, RunnerTypeOK
  <2>2. {"found", "create", "revoke"} \subseteq Steps
    BY DEF Steps, Recovering, Publishing
  <2> QED
    BY <1>5, <2>1, <2>2, GoTypes DEF Pairs, Proceed, RunnerTypeOK, Steps
<1>6. CASE Revoke(a)
  <2>1. dir' \in Dir /\ kept' \in SUBSET Dir /\ dir' \in kept'
    <3>1. [dir EXCEPT !.lock = none] \in Dir
      BY DEF RunnerTypeOK, Dir
    <3>2. ASSUME NEW r \in Run PROVE [dir EXCEPT !.committed = @ \ {r}] \in Dir
      BY DEF RunnerTypeOK, Dir
    <3> QED
      BY <1>6, <3>1, <3>2, TypesOfDir, RenameTypes, SyncTypes DEF Revoke
  <2>2. "revoke" \in Steps
    BY DEF Steps, Recovering
  <2> QED
    BY <1>6, <2>1, <2>2, GoTypes, ReturnTypes DEF Revoke, RunnerTypeOK, Steps
<1>7. CASE Fail(a) \/ Kill(a)
  BY <1>7, ReturnTypes DEF Fail, Kill, RunnerTypeOK, Steps
<1> QED
  BY <1>1, <1>2, <1>3, <1>4, <1>5, <1>6, <1>7 DEF Recover

\* ... and by those of a publication.
LEMMA PublishTypes ==
    ASSUME RunnerTypeOK, NEW r \in Run, Publish(r)
    PROVE  RunnerTypeOK'
<1> USE DEF Contents
<1>0. r \in Actor
  BY DEF Actor
<1>s. Publishing \subseteq Steps /\ Undoing \subseteq Steps
  BY DEF Steps
<1>1. CASE CreateRecord(r)
  <2>1. dir' \in Dir /\ kept' \in SUBSET Dir /\ dir' \in kept'
    BY <1>1, TypesOfDir, RenameTypes, SyncTypes DEF CreateRecord, Dir, RunnerTypeOK
  <2>2. record' \in [Run -> {"absent", "torn", "incomplete", "committed"}] /\ bytes' \in [Run -> {"absent", "partial", "whole"}]
    BY <1>1 DEF CreateRecord, RunnerTypeOK
  <2> QED
    BY <1>1, <1>0, <1>s, <2>1, <2>2, GoTypes, ReturnTypes DEF CreateRecord, RunnerTypeOK, Steps, Publishing, Undoing
<1>2. CASE WriteIncomplete(r)
  <2>1. dir' \in Dir /\ kept' \in SUBSET Dir /\ dir' \in kept'
    BY <1>2, TypesOfDir, RenameTypes, SyncTypes DEF WriteIncomplete, Dir, RunnerTypeOK
  <2>2. record' \in [Run -> {"absent", "torn", "incomplete", "committed"}] /\ bytes' \in [Run -> {"absent", "partial", "whole"}]
    BY <1>2 DEF WriteIncomplete, RunnerTypeOK
  <2> QED
    BY <1>2, <1>0, <1>s, <2>1, <2>2, GoTypes, ReturnTypes DEF WriteIncomplete, RunnerTypeOK, Steps, Publishing, Undoing
<1>3. CASE SyncIncomplete(r)
  <2>1. dir' \in Dir /\ kept' \in SUBSET Dir /\ dir' \in kept'
    BY <1>3, TypesOfDir, RenameTypes, SyncTypes DEF SyncIncomplete, Dir, RunnerTypeOK
  <2>2. record' \in [Run -> {"absent", "torn", "incomplete", "committed"}] /\ bytes' \in [Run -> {"absent", "partial", "whole"}]
    BY <1>3 DEF SyncIncomplete, RunnerTypeOK
  <2> QED
    BY <1>3, <1>0, <1>s, <2>1, <2>2, GoTypes, ReturnTypes DEF SyncIncomplete, RunnerTypeOK, Steps, Publishing, Undoing
<1>4. CASE FillLock(r)
  <2>1. dir' \in Dir /\ kept' \in SUBSET Dir /\ dir' \in kept'
    BY <1>4, TypesOfDir, RenameTypes, SyncTypes DEF FillLock, Dir, RunnerTypeOK
  <2>2. record' \in [Run -> {"absent", "torn", "incomplete", "committed"}] /\ bytes' \in [Run -> {"absent", "partial", "whole"}]
    BY <1>4 DEF FillLock, RunnerTypeOK
  <2> QED
    BY <1>4, <1>0, <1>s, <2>1, <2>2, GoTypes, ReturnTypes DEF FillLock, RunnerTypeOK, Steps, Publishing, Undoing
<1>5. CASE PlaceLock(r)
  <2>1. dir' \in Dir /\ kept' \in SUBSET Dir /\ dir' \in kept'
    BY <1>5, TypesOfDir, RenameTypes, SyncTypes DEF PlaceLock, Dir, RunnerTypeOK
  <2>2. record' \in [Run -> {"absent", "torn", "incomplete", "committed"}] /\ bytes' \in [Run -> {"absent", "partial", "whole"}]
    BY <1>5 DEF PlaceLock, RunnerTypeOK
  <2> QED
    BY <1>5, <1>0, <1>s, <2>1, <2>2, GoTypes, ReturnTypes DEF PlaceLock, RunnerTypeOK, Steps, Publishing, Undoing
<1>6. CASE SyncPlace(r)
  <2>1. dir' \in Dir /\ kept' \in SUBSET Dir /\ dir' \in kept'
    BY <1>6, TypesOfDir, RenameTypes, SyncTypes DEF SyncPlace, Dir, RunnerTypeOK
  <2>2. record' \in [Run -> {"absent", "torn", "incomplete", "committed"}] /\ bytes' \in [Run -> {"absent", "partial", "whole"}]
    BY <1>6 DEF SyncPlace, RunnerTypeOK
  <2> QED
    BY <1>6, <1>0, <1>s, <2>1, <2>2, GoTypes, ReturnTypes DEF SyncPlace, RunnerTypeOK, Steps, Publishing, Undoing
<1>7. CASE RewriteRecord(r)
  <2>1. dir' \in Dir /\ kept' \in SUBSET Dir /\ dir' \in kept'
    BY <1>7, TypesOfDir, RenameTypes, SyncTypes DEF RewriteRecord, Dir, RunnerTypeOK
  <2>2. record' \in [Run -> {"absent", "torn", "incomplete", "committed"}] /\ bytes' \in [Run -> {"absent", "partial", "whole"}]
    BY <1>7 DEF RewriteRecord, RunnerTypeOK
  <2> QED
    BY <1>7, <1>0, <1>s, <2>1, <2>2, GoTypes, ReturnTypes DEF RewriteRecord, RunnerTypeOK, Steps, Publishing, Undoing
<1>8. CASE FsyncRecord(r)
  <2>1. dir' \in Dir /\ kept' \in SUBSET Dir /\ dir' \in kept'
    BY <1>8, TypesOfDir, RenameTypes, SyncTypes DEF FsyncRecord, Dir, RunnerTypeOK
  <2>2. record' \in [Run -> {"absent", "torn", "incomplete", "committed"}] /\ bytes' \in [Run -> {"absent", "partial", "whole"}]
    BY <1>8 DEF FsyncRecord, RunnerTypeOK
  <2> QED
    BY <1>8, <1>0, <1>s, <2>1, <2>2, GoTypes, ReturnTypes DEF FsyncRecord, RunnerTypeOK, Steps, Publishing, Undoing
<1>9. CASE CommitRecord(r)
  <2>1. dir' \in Dir /\ kept' \in SUBSET Dir /\ dir' \in kept'
    BY <1>9, TypesOfDir, RenameTypes, SyncTypes DEF CommitRecord, Dir, RunnerTypeOK
  <2>2. record' \in [Run -> {"absent", "torn", "incomplete", "committed"}] /\ bytes' \in [Run -> {"absent", "partial", "whole"}]
    BY <1>9 DEF CommitRecord, RunnerTypeOK
  <2> QED
    BY <1>9, <1>0, <1>s, <2>1, <2>2, GoTypes, ReturnTypes DEF CommitRecord, RunnerTypeOK, Steps, Publishing, Undoing
<1>10. CASE SyncCommit(r)
  <2>1. dir' \in Dir /\ kept' \in SUBSET Dir /\ dir' \in kept'
    BY <1>10, TypesOfDir, RenameTypes, SyncTypes DEF SyncCommit, Dir, RunnerTypeOK
  <2>2. record' \in [Run -> {"absent", "torn", "incomplete", "committed"}] /\ bytes' \in [Run -> {"absent", "partial", "whole"}]
    BY <1>10 DEF SyncCommit, RunnerTypeOK
  <2> QED
    BY <1>10, <1>0, <1>s, <2>1, <2>2, GoTypes, ReturnTypes DEF SyncCommit, RunnerTypeOK, Steps, Publishing, Undoing
<1>11. CASE UndoCommit(r)
  <2>1. dir' \in Dir /\ kept' \in SUBSET Dir /\ dir' \in kept'
    BY <1>11, TypesOfDir, RenameTypes, SyncTypes DEF UndoCommit, Dir, RunnerTypeOK
  <2>2. record' \in [Run -> {"absent", "torn", "incomplete", "committed"}] /\ bytes' \in [Run -> {"absent", "partial", "whole"}]
    BY <1>11 DEF UndoCommit, RunnerTypeOK
  <2> QED
    BY <1>11, <1>0, <1>s, <2>1, <2>2, GoTypes, ReturnTypes DEF UndoCommit, RunnerTypeOK, Steps, Publishing, Undoing
<1> QED
  BY <1>1, <1>2, <1>3, <1>4, <1>5, <1>6, <1>7, <1>8, <1>9, <1>10, <1>11 DEF Publish

-----------------------------------------------------------------------------
\* A quarantine takes names away.
LEMMA QuarantineCommitsNothing ==
    ASSUME RunnerTypeOK,
           \/ Rename([dir EXCEPT !.lock = none])
           \/ \E r \in Run : Rename([dir EXCEPT !.incomplete = @ \ {r}])
           \/ \E r \in Run : Rename([dir EXCEPT !.committed = @ \ {r}])
    PROVE  NothingCommitted
<1>1. CASE Rename([dir EXCEPT !.lock = none])
  <2> DEFINE d == [dir EXCEPT !.lock = none]
  <2>1. d \in Dir /\ d.committed = dir.committed
    BY DEF RunnerTypeOK, Dir
  <2> QED
    BY <1>1, <2>1, RenameCommitsNothing
<1>2. ASSUME NEW r \in Run, Rename([dir EXCEPT !.incomplete = @ \ {r}]) PROVE NothingCommitted
  <2> DEFINE d == [dir EXCEPT !.incomplete = @ \ {r}]
  <2>1. d \in Dir /\ d.committed = dir.committed
    BY DEF RunnerTypeOK, Dir
  <2> QED
    BY <1>2, <2>1, RenameCommitsNothing
<1>3. ASSUME NEW r \in Run, Rename([dir EXCEPT !.committed = @ \ {r}]) PROVE NothingCommitted
  <2> DEFINE d == [dir EXCEPT !.committed = @ \ {r}]
  <2>1. d \in Dir /\ d.committed \subseteq dir.committed
    BY DEF RunnerTypeOK, Dir
  <2> QED
    BY <1>3, <2>1, RenameCommitsNothing
<1> QED
  BY <1>1, <1>2, <1>3

LEMMA ActorDiscipline ==
    ASSUME RInv, RunnerTypeOK', NEW a \in Actor,
           Arrive(a) \/ Acquire(a) \/ Recover(a) \/ Fail(a) \/ Kill(a)
    PROVE  Discipline'
<1>t. RunnerTypeOK
  BY DEF RInv
<1>h. pc[a] \notin {"idle", "wait"} => holder = a
  BY DEF RInv, OneHolder
<1>s. {"wait", "scan", "clear", "pairs", "revoke", "found", "create"} \subseteq Steps
  BY DEF Steps, Recovering, Publishing
<1> USE DEF Undoing
<1>1. CASE Arrive(a)
  <2>1. NothingCommitted
    BY <1>1, <1>t, SyncCommitsNothing DEF Arrive
  <2> QED
    BY <1>1, <2>1, <1>s, GoKeeps DEF Arrive
<1>2. CASE Acquire(a)
  <2> USE <1>2, <1>t DEF Acquire, RInv
  <2>1. OneHolder'
    BY RunAssumption DEF OneHolder, RunnerTypeOK, Actor
  <2>2. CommittedInTime' /\ UndoneIsGone' /\ ResultIsFinal' /\ OpenedSound'
    BY DEF CommittedInTime, CommittedBy, UndoneIsGone, ResultIsFinal, OpenedSound, RunnerTypeOK, Dir, Actor
  <2> QED
    BY <2>1, <2>2 DEF Discipline
<1>3. CASE Scan(a)
  BY <1>3, <1>h, <1>s, <1>t, SameCommitsNothing, GoKeeps DEF Scan
<1>4. CASE Clear(a)
  <2>1. NothingCommitted
    BY <1>4, <1>t, QuarantineCommitsNothing, SyncCommitsNothing, TypesOfDir DEF Clear
  <2> QED
    BY <1>4, <2>1, <1>h, <1>s, GoKeeps DEF Clear
<1>5. CASE Pairs(a)
  <2>1. NothingCommitted
    BY <1>5, <1>t, SameCommitsNothing, SyncCommitsNothing DEF Pairs
  <2> QED
    BY <1>5, <2>1, <1>h, <1>s, GoKeeps DEF Pairs, Proceed
<1>6. CASE Revoke(a)
  <2>1. NothingCommitted
    BY <1>6, <1>t, QuarantineCommitsNothing, SyncCommitsNothing, TypesOfDir DEF Revoke
  <2>2. CASE Go(a, "revoke")
    BY <1>6, <2>1, <2>2, <1>h, <1>s, GoKeeps DEF Revoke
  <2>3. CASE Return(a, "err") /\ Sync /\ dir.committed = {}
    BY <1>6, <2>1, <2>3, ReturnKeeps DEF Revoke, Sync
  <2> QED
    BY <1>6, <2>2, <2>3 DEF Revoke
<1>7. CASE Fail(a)
  <2>1. NothingCommitted /\ kept' = kept
    BY <1>7, <1>t, SameCommitsNothing DEF Fail
  <2>2. a \in Run => \A d \in kept : a \notin d.committed
    BY <1>7 DEF Fail, RInv, CommittedInTime, CommittedBy
  <2> QED
    BY <1>7, <2>1, <2>2, ReturnKeeps DEF Fail
<1>8. CASE Kill(a)
  <2>1. NothingCommitted
    BY <1>8, <1>t, SameCommitsNothing DEF Kill
  <2> QED
    BY <1>8, <2>1, ReturnKeeps DEF Kill
<1> QED
  BY <1>1, <1>2, <1>3, <1>4, <1>5, <1>6, <1>7, <1>8 DEF Recover

LEMMA PublishDiscipline ==
    ASSUME RInv, RunnerTypeOK', NEW r \in Run, Publish(r)
    PROVE  Discipline'
<1>t. RunnerTypeOK /\ r \in Actor
  BY DEF RInv, Actor
<1>h. pc[r] \notin {"idle", "wait"} => holder = r
  BY <1>t DEF RInv, OneHolder
<1>s. Publishing \subseteq Steps /\ Undoing \subseteq Steps
  BY DEF Steps
<1> USE DEF Undoing, Publishing
<1>1. CASE CreateRecord(r)
  <2> DEFINE d == [dir EXCEPT !.incomplete = @ \union {r}]
  <2>1. d \in Dir /\ d.committed = dir.committed
    BY <1>t DEF RunnerTypeOK, Dir
  <2>2. NothingCommitted
    BY <1>1, <2>1, <1>t, RenameCommitsNothing DEF CreateRecord
  <2> QED
    BY <1>1, <2>2, <1>t, <1>h, <1>s, GoKeeps DEF CreateRecord
<1>2. CASE WriteIncomplete(r)
  BY <1>2, <1>t, <1>h, <1>s, SameCommitsNothing, GoKeeps DEF WriteIncomplete
<1>3. CASE SyncIncomplete(r)
  BY <1>3, <1>t, <1>h, <1>s, SyncCommitsNothing, GoKeeps DEF SyncIncomplete
<1>4. CASE FillLock(r)
  BY <1>4, <1>t, <1>h, <1>s, SameCommitsNothing, GoKeeps DEF FillLock
<1>5. CASE SyncPlace(r)
  BY <1>5, <1>t, <1>h, <1>s, SyncCommitsNothing, GoKeeps DEF SyncPlace
<1>6. CASE RewriteRecord(r)
  BY <1>6, <1>t, <1>h, <1>s, SameCommitsNothing, GoKeeps DEF RewriteRecord
<1>7. CASE FsyncRecord(r)
  BY <1>7, <1>t, <1>h, <1>s, SameCommitsNothing, GoKeeps DEF FsyncRecord
<1>8. CASE PlaceLock(r)
  <2>1. CASE dir.lock = none
    <3> DEFINE d == [dir EXCEPT !.lock = r]
    <3>1. d \in Dir /\ d.committed = dir.committed
      BY <1>t DEF RunnerTypeOK, Dir
    <3>2. NothingCommitted
      BY <1>8, <2>1, <3>1, <1>t, RenameCommitsNothing DEF PlaceLock
    <3> QED
      BY <1>8, <2>1, <3>2, <1>t, <1>h, <1>s, GoKeeps DEF PlaceLock
  <2>2. CASE dir.lock # none
    <3>1. NothingCommitted /\ kept' = kept
      BY <1>8, <2>2, <1>t, SameCommitsNothing DEF PlaceLock
    <3>2. \A d \in kept : r \notin d.committed
      BY <1>8 DEF PlaceLock, RInv, CommittedInTime, CommittedBy
    <3>3. r \notin Reader
      BY RunAssumption
    <3> QED
      BY <1>8, <2>2, <3>1, <3>2, <3>3, <1>t, ReturnKeeps DEF PlaceLock
  <2> QED
    BY <2>1, <2>2
<1>9. CASE CommitRecord(r)
  <2> USE <1>9, <1>t DEF CommitRecord, Rename, Go, RInv, RunnerTypeOK
  <2>0. dir' = [lock |-> dir.lock, incomplete |-> dir.incomplete \ {r}, committed |-> dir.committed \union {r}]
    BY DEF Dir
  <2>1. OneHolder'
    BY DEF OneHolder
  <2>2. CommittedInTime'
    <3> SUFFICES ASSUME NEW d \in kept', NEW q \in d.committed PROVE CommittedBy(q)'
      BY DEF CommittedInTime
    <3>1. CASE q = r
      BY <3>1 DEF CommittedBy
    <3>2. CASE q # r
      <4>1. q \in Run /\ CommittedBy(q)
        BY <2>0, <3>2 DEF CommittedInTime, Dir
      <4> QED
        BY <3>2, <4>1 DEF CommittedBy, Actor
    <3> QED
      BY <3>1, <3>2
  <2>3. UndoneIsGone'
    BY <1>h DEF UndoneIsGone, OneHolder, Actor, Dir
  <2>4. ResultIsFinal' /\ OpenedSound'
    BY RunAssumption DEF ResultIsFinal, OpenedSound, Actor
  <2> QED
    BY <2>1, <2>2, <2>3, <2>4 DEF Discipline
<1>10. CASE SyncCommit(r)
  <2>0. r \notin Reader
    BY RunAssumption
  <2>1. CASE Sync /\ Return(r, "ok")
    BY <1>10, <2>0, <2>1, <1>t, SyncCommitsNothing, ReturnKeeps DEF SyncCommit
  <2>2. CASE UNCHANGED <<dir, kept>> /\ Go(r, "undo")
    <3> USE <1>10, <2>2, <1>t DEF SyncCommit, Go, RInv, RunnerTypeOK
    <3>1. OneHolder'
      BY DEF OneHolder
    <3>2. CommittedInTime'
      BY DEF CommittedInTime, CommittedBy, Actor, Dir
    <3>3. UndoneIsGone' /\ ResultIsFinal' /\ OpenedSound'
      BY RunAssumption DEF UndoneIsGone, ResultIsFinal, OpenedSound, Actor
    <3> QED
      BY <3>1, <3>2, <3>3 DEF Discipline
  <2> QED
    BY <1>10, <2>1, <2>2 DEF SyncCommit
<1>11. CASE UndoCommit(r)
  <2>0. r \notin Reader
    BY RunAssumption
  <2>1. CASE pc[r] = "undo" /\ Rename([dir EXCEPT !.incomplete = @ \union {r}, !.committed = @ \ {r}]) /\ Go(r, "undoLock")
    <3> DEFINE d == [lock |-> dir.lock, incomplete |-> dir.incomplete \union {r}, committed |-> dir.committed \ {r}]
    <3>a. dir' = [dir EXCEPT !.incomplete = @ \union {r}, !.committed = @ \ {r}]
      BY <2>1 DEF Rename
    <3>b. dir' = d
      BY <3>a, <1>t DEF RunnerTypeOK, Dir
    <3>0. dir' = d /\ kept' = kept \union {d}
      BY <2>1, <3>a, <3>b DEF Rename
    <3>1. d \in Dir /\ d.committed = dir.committed \ {r}
      BY <1>t, TypesOfDir DEF Dir
    <3>2. NothingCommitted
      BY <3>0, <3>1, <1>t, RenameCommitsNothing DEF Rename
    <3> USE <2>1, <1>t DEF Go, RInv, RunnerTypeOK
    <3>3. OneHolder'
      BY DEF OneHolder
    <3>4. CommittedInTime'
      <4> SUFFICES ASSUME NEW e \in kept', NEW q \in e.committed PROVE CommittedBy(q)'
        BY DEF CommittedInTime
      <4>1. q \in Run /\ CommittedBy(q)
        BY <3>2 DEF NothingCommitted, CommittedInTime, Dir
      <4> QED
        BY <4>1 DEF CommittedBy, Actor
    <3>5. UndoneIsGone'
      BY <3>0, <3>1 DEF UndoneIsGone, Actor
    <3>6. ResultIsFinal' /\ OpenedSound'
      BY RunAssumption DEF ResultIsFinal, OpenedSound, Actor
    <3> QED
      BY <3>3, <3>4, <3>5, <3>6 DEF Discipline
  <2>2. CASE pc[r] = "undoLock" /\ Rename([dir EXCEPT !.lock = none]) /\ Go(r, "undoSync")
    <3>1. NothingCommitted
      BY <2>2, <1>t, QuarantineCommitsNothing
    <3> USE <2>2, <1>t DEF Go, RInv, RunnerTypeOK
    <3>2. OneHolder'
      BY DEF OneHolder
    <3>3. CommittedInTime'
      <4> SUFFICES ASSUME NEW e \in kept', NEW q \in e.committed PROVE CommittedBy(q)'
        BY DEF CommittedInTime
      <4>1. q \in Run /\ CommittedBy(q)
        BY <3>1 DEF NothingCommitted, CommittedInTime, Dir
      <4> QED
        BY <4>1 DEF CommittedBy, Actor
    <3>4. UndoneIsGone'
      BY <3>1 DEF UndoneIsGone, NothingCommitted, Actor
    <3>5. ResultIsFinal' /\ OpenedSound'
      BY RunAssumption DEF ResultIsFinal, OpenedSound, Actor
    <3> QED
      BY <3>2, <3>3, <3>4, <3>5 DEF Discipline
  <2>3. CASE pc[r] = "undoSync" /\ Sync /\ Return(r, "err")
    <3>1. \A d \in kept' : r \notin d.committed
      BY <2>3 DEF RInv, UndoneIsGone, Sync
    <3> QED
      BY <2>0, <2>3, <3>1, <1>t, SyncCommitsNothing, ReturnKeeps
  <2>4. CASE pc[r] \in Undoing /\ Return(r, "lost") /\ UNCHANGED <<dir, kept>>
    BY <2>0, <2>4, <1>t, SameCommitsNothing, ReturnKeeps
  <2> QED
    BY <1>11, <2>1, <2>2, <2>3, <2>4 DEF UndoCommit
<1> QED
  BY <1>1, <1>2, <1>3, <1>4, <1>5, <1>6, <1>7, <1>8, <1>9, <1>10, <1>11 DEF Publish

LEMMA RunnerStepInv == RInv /\ [RunnerNext]_lockVars => RInv'
<1> SUFFICES ASSUME RInv, [RunnerNext]_lockVars PROVE RunnerTypeOK' /\ Discipline'
  BY DEF RInv, Discipline
<1>t. RunnerTypeOK
  BY DEF RInv
<1>1. ASSUME NEW a \in Actor, Arrive(a) \/ Acquire(a) \/ Recover(a) \/ Fail(a) \/ Kill(a)
      PROVE  RunnerTypeOK' /\ Discipline'
  BY <1>1, <1>t, ActorTypes, ActorDiscipline
<1>2. ASSUME NEW r \in Run, Publish(r) PROVE RunnerTypeOK' /\ Discipline'
  BY <1>2, <1>t, PublishTypes, PublishDiscipline
<1>3. ASSUME NEW k \in Reader, Open(k) PROVE RunnerTypeOK' /\ Discipline'
  <2>1. k \in Actor /\ k \notin Run
    BY RunAssumption DEF Actor
  <2>2. RunnerTypeOK'
    BY <1>3, <1>t, <2>1, ReturnTypes, SyncTypes DEF Open, Contents, RunnerTypeOK, Steps
  <2>3. CommittedBy(dir.lock) /\ dir.lock \in Run
    BY <1>3, <1>t DEF Open, Bound, RInv, CommittedInTime, RunnerTypeOK, Dir
  <2>4. holder = k /\ holder # dir.lock
    BY <1>3, <2>1, <2>3 DEF Open, RInv, OneHolder
  <2>5. pc[dir.lock] = "idle"
    BY <2>3, <2>4 DEF CommittedBy, RInv, OneHolder, Undoing, Actor
  <2>6. result[dir.lock] \in {"ok", "lost", "died"}
    BY <2>3, <2>5 DEF CommittedBy, Undoing
  <2> QED
    BY <1>3, <1>t, <2>1, <2>2, <2>5, <2>6, SyncCommitsNothing, ReturnKeeps DEF Open
<1>4. CASE PowerCut
  <2> USE <1>4, <1>t DEF PowerCut, Contents, RInv
  <2>1. RunnerTypeOK'
    BY DEF RunnerTypeOK
  <2>2. OneHolder' /\ UndoneIsGone' /\ ResultIsFinal' /\ OpenedSound'
    BY DEF OneHolder, UndoneIsGone, ResultIsFinal, OpenedSound, Actor
  <2>3. CommittedInTime'
    <3> SUFFICES ASSUME NEW d \in kept', NEW r \in d.committed PROVE CommittedBy(r)'
      BY DEF CommittedInTime
    <3>1. r \in Run /\ CommittedBy(r)
      BY DEF CommittedInTime, RunnerTypeOK, Dir
    <3> QED
      BY <3>1 DEF CommittedBy, Undoing, Actor
  <2> QED
    BY <2>1, <2>2, <2>3 DEF Discipline
<1>5. CASE UNCHANGED lockVars
  <2> USE <1>5 DEF lockVars, RInv
  <2>1. RunnerTypeOK' /\ OneHolder' /\ UndoneIsGone' /\ ResultIsFinal' /\ OpenedSound'
    BY DEF RunnerTypeOK, OneHolder, UndoneIsGone, ResultIsFinal, OpenedSound
  <2>2. CommittedInTime'
    BY DEF CommittedInTime, CommittedBy
  <2> QED
    BY <2>1, <2>2 DEF Discipline
<1> QED
  BY <1>1, <1>2, <1>3, <1>4, <1>5 DEF RunnerNext

\* A run whose record is committed somewhere, or whose lock was opened, never
\* reported an ordinary failure.
LEMMA RInvImplies == RInv => FailedNeverAuthorizes
<1> SUFFICES ASSUME RInv PROVE FailedNeverAuthorizes
  OBVIOUS
<1>1. ASSUME NEW r \in Run, result[r] = "err", NEW d \in kept PROVE r \notin d.committed
  BY <1>1, RunAssumption DEF RInv, ResultIsFinal, CommittedInTime, CommittedBy, Undoing
<1>2. ASSUME NEW k \in Reader, opened[k] # none PROVE result[opened[k]] \in {"ok", "died", "lost"}
  BY <1>2 DEF RInv, OpenedSound
<1> QED
  BY <1>1, <1>2 DEF FailedNeverAuthorizes

-----------------------------------------------------------------------------
\* The composition: what a keystone does to the runner lock is what any reader
\* may do.
LEMMA NextIsRunnerNext == [Next]_vars => [RunnerNext]_lockVars
<1> SUFFICES ASSUME [Next]_vars PROVE [RunnerNext]_lockVars
  OBVIOUS
<1>1. ASSUME NEW k \in Reader,
             \/ Load(k) \/ ReadSource(k) \/ OpenLock(k) \/ Assess(k)
             \/ Link(k) \/ SyncOut(k) \/ Refuse(k) \/ KillKeystone(k)
      PROVE  [RunnerNext]_lockVars
  BY <1>1 DEF Load, ReadSource, OpenLock, Assess, Link, SyncOut, Refuse, KillKeystone, RunnerNext, Actor
<1>2. CASE LockStep
  BY <1>2 DEF LockStep, RunnerNext, Actor
<1>3. CASE MoveHead \/ PowerFails \/ UNCHANGED vars
  BY <1>3 DEF MoveHead, PowerFails, vars, RunnerNext
<1> QED
  BY <1>1, <1>2, <1>3 DEF Next

\* The tooling as a whole behaves, for the runner lock, as the publication
\* and its readers alone do.
THEOREM KeystoneRespectsLock == Spec => RunnerSpec
<1>1. Init => RunnerInit
  BY DEF Init
<1> QED
  BY <1>1, NextIsRunnerNext, PTL DEF Spec, RunnerSpec

\* The publication of the runner lock, with any number of captures and
\* readers, failures of any call, kills and power cuts: a publication that
\* reported an ordinary failure never becomes authoritative.
THEOREM FailureIsFinal == RunnerSpec => []FailedNeverAuthorizes
<1> QED
  BY RunnerInitInv, RunnerStepInv, RInvImplies, PTL DEF RunnerSpec

\* The same of the tooling as a whole.
THEOREM FailureIsFinalForKeystone == Spec => []FailedNeverAuthorizes
  BY KeystoneRespectsLock, FailureIsFinal, PTL

-----------------------------------------------------------------------------
\* What a keystone has checked stays true of what it is about to publish.
Final(r) == r \in Run /\ pc[r] = "idle" /\ result[r] \in {"ok", "lost", "died"}

SourceSeen ==
    \A k \in Reader :
        /\ stage[k] # "off" => head \in heads[k]
        /\ stage[k] \in {"sourced", "opening"} => source[k] \in heads[k]

CheckedHolds ==
    \A k \in Reader : stage[k] = "checked" =>
        /\ claim[k] \in Claim
        /\ claim[k].verdict = "ready"
        /\ claim[k].source \in heads[k]
        /\ Final(claim[k].lock)

ClaimTyped ==
    /\ head \in Commit
    /\ stage \in [Reader -> {"off", "loaded", "sourced", "opening", "checked", "linked"}]
    /\ claim \in [Reader -> Claim \union {none}]
    /\ source \in [Reader -> Commit \union {none}]
    /\ heads \in [Reader -> SUBSET Commit]
    /\ \A k \in Reader : stage[k] # "off" => claim[k] \in Claim

\* Of the published file: what a keystone linked is there until it returns,
\* and what it reported is all a power cut can leave.
OutHolds ==
    /\ out \in outKept
    /\ out = none => outKept = {none}
    /\ \A k \in Reader : stage[k] = "linked" => out = claim[k]
    /\ outKept \subseteq Claim \union {none}
    /\ receipt \in [Reader -> Claim \union {none}]
    /\ RetainedForGood

KInv == RInv /\ ClaimTyped /\ SourceSeen /\ CheckedHolds /\ OutHolds

LEMMA KInitInv == Init => KInv
<1> SUFFICES ASSUME Init PROVE KInv
  OBVIOUS
<1>1. RInv
  BY RunnerInitInv DEF Init
<1>2. ClaimTyped /\ SourceSeen /\ CheckedHolds /\ OutHolds
  BY DEF Init, ClaimTyped, SourceSeen, CheckedHolds, OutHolds, RetainedForGood
<1> QED
  BY <1>1, <1>2 DEF KInv

\* A publication that is over stays over.
LEMMA FinalStays ==
    ASSUME RInv, [RunnerNext]_lockVars, NEW r \in Run, Final(r)
    PROVE  Final(r)'
<1> USE RunAssumption DEF Final, RInv, RunnerTypeOK, Contents, Actor
<1>1. ASSUME NEW a \in Actor, Arrive(a) \/ Acquire(a) \/ Fail(a) \/ Kill(a) PROVE Final(r)'
  BY <1>1 DEF Arrive, Acquire, Fail, Kill, Go, Return
<1>2. ASSUME NEW a \in Actor, Recover(a) PROVE Final(r)'
  BY <1>2 DEF Recover, Scan, Clear, Pairs, Proceed, Revoke, Go, Return
<1>3. ASSUME NEW q \in Run, Publish(q) PROVE Final(r)'
  <2>1. pc[q] # "idle"
    BY <1>3 DEF Publish, CreateRecord, WriteIncomplete, SyncIncomplete, FillLock, PlaceLock, SyncPlace,
                RewriteRecord, FsyncRecord, CommitRecord, SyncCommit, UndoCommit, Undoing
  <2>2. (\E s \in Steps : Go(q, s)) \/ (\E o \in {"ok", "err", "lost"} : Return(q, o))
    BY <1>3 DEF Publish, CreateRecord, WriteIncomplete, SyncIncomplete, FillLock, PlaceLock, SyncPlace,
                RewriteRecord, FsyncRecord, CommitRecord, SyncCommit, UndoCommit, Steps, Publishing, Undoing
  <2> QED
    BY <2>1, <2>2 DEF Go, Return
<1>4. ASSUME NEW k \in Reader, Open(k) PROVE Final(r)'
  BY <1>4 DEF Open, Return
<1>5. CASE PowerCut \/ UNCHANGED lockVars
  BY <1>5 DEF PowerCut, lockVars
<1> QED
  BY <1>1, <1>2, <1>3, <1>4, <1>5 DEF RunnerNext

LEMMA ClaimStep == KInv /\ [Next]_vars => ClaimTyped' /\ SourceSeen' /\ OutHolds'
<1> SUFFICES ASSUME KInv, [Next]_vars PROVE ClaimTyped' /\ SourceSeen' /\ OutHolds'
  OBVIOUS
<1> USE ClaimAssumption DEF KInv, ClaimTyped, SourceSeen, OutHolds, RetainedForGood, Enter, Leave
<1>1. ASSUME NEW k \in Reader, Load(k) PROVE ClaimTyped' /\ SourceSeen' /\ OutHolds'
  BY <1>1 DEF Load
<1>2. ASSUME NEW k \in Reader, ReadSource(k) PROVE ClaimTyped' /\ SourceSeen' /\ OutHolds'
  <2>1. head \in Commit /\ source' = [source EXCEPT ![k] = head] /\ stage' = [stage EXCEPT ![k] = "sourced"]
    BY <1>2 DEF ReadSource
  <2>2. source' \in [Reader -> Commit \union {none}]
    BY <2>1
  <2>3. ClaimTyped'
    BY <1>2, <2>1, <2>2 DEF ReadSource
  <2>4. SourceSeen'
    BY <1>2, <2>1 DEF ReadSource
  <2>5. OutHolds'
    BY <1>2, <2>1 DEF ReadSource
  <2> QED
    BY <2>3, <2>4, <2>5
<1>3. ASSUME NEW k \in Reader, OpenLock(k) PROVE ClaimTyped' /\ SourceSeen' /\ OutHolds'
  BY <1>3 DEF OpenLock
<1>4. ASSUME NEW k \in Reader, Assess(k) PROVE ClaimTyped' /\ SourceSeen' /\ OutHolds'
  BY <1>4 DEF Assess
<1>5. ASSUME NEW k \in Reader, Link(k) PROVE ClaimTyped' /\ SourceSeen' /\ OutHolds'
  BY <1>5 DEF Link
<1>6. ASSUME NEW k \in Reader, SyncOut(k) PROVE ClaimTyped' /\ SourceSeen' /\ OutHolds'
  BY <1>6 DEF SyncOut
<1>7. ASSUME NEW k \in Reader, Refuse(k) PROVE ClaimTyped' /\ SourceSeen' /\ OutHolds'
  BY <1>7 DEF Refuse
<1>8. ASSUME NEW k \in Reader, KillKeystone(k) PROVE ClaimTyped' /\ SourceSeen' /\ OutHolds'
  BY <1>8 DEF KillKeystone
<1>9. CASE LockStep
  BY <1>9 DEF LockStep, keyVars
<1>10. CASE MoveHead
  BY <1>10 DEF MoveHead
<1>11. CASE PowerFails
  BY <1>11 DEF PowerFails
<1>12. CASE UNCHANGED vars
  BY <1>12 DEF vars, keyVars
<1> QED
  BY <1>1, <1>2, <1>3, <1>4, <1>5, <1>6, <1>7, <1>8, <1>9, <1>10, <1>11, <1>12 DEF Next

LEMMA CheckedStep ==
    ASSUME KInv, [Next]_vars, NEW k \in Reader, stage'[k] = "checked"
    PROVE  /\ claim'[k] \in Claim
           /\ claim'[k].verdict = "ready"
           /\ claim'[k].source \in heads'[k]
           /\ claim'[k].lock \in Run
           /\ pc'[claim'[k].lock] = "idle"
           /\ result'[claim'[k].lock] \in {"ok", "lost", "died"}
<1>0. RInv /\ [RunnerNext]_lockVars
  BY NextIsRunnerNext DEF KInv
<1>1. CASE stage[k] = "checked" /\ claim'[k] = claim[k] /\ heads[k] \subseteq heads'[k]
  <2>1. claim[k] \in Claim /\ claim[k].verdict = "ready" /\ claim[k].source \in heads[k] /\ Final(claim[k].lock)
    BY <1>1 DEF KInv, CheckedHolds
  <2>2. \A r \in Run : Final(r) => pc'[r] = "idle" /\ result'[r] \in {"ok", "lost", "died"}
    BY <1>0, FinalStays DEF Final
  <2>3. claim[k].lock \in Run
    BY <2>1 DEF Final
  <2> QED
    BY <1>1, <2>1, <2>2, <2>3
<1>2. CASE Assess(k)
  <2>1. claim[k] \in Claim /\ claim[k].verdict = "ready" /\ claim[k].source \in heads[k]
    BY <1>2 DEF Assess, Binds, KInv, ClaimTyped, SourceSeen
  <2>2. claim[k].lock = opened[k] /\ claim[k].lock \in Run /\ claim[k].lock # none
    BY <1>2, <2>1, RunAssumption DEF Assess, Binds, Claim
  <2>3. Final(claim[k].lock)
    BY <2>2 DEF Final, KInv, RInv, OpenedSound
  <2>4. UNCHANGED <<pc, result, claim, heads>>
    BY <1>2 DEF Assess, lockVars
  <2> QED
    BY <2>1, <2>3, <2>4 DEF Final
<1>3. Assess(k) \/ (stage[k] = "checked" /\ claim'[k] = claim[k] /\ heads[k] \subseteq heads'[k])
  <2> USE DEF KInv, ClaimTyped, Enter, Leave
  <2>1. ASSUME NEW j \in Reader,
               \/ Load(j) \/ ReadSource(j) \/ OpenLock(j) \/ Link(j)
               \/ SyncOut(j) \/ Refuse(j) \/ KillKeystone(j)
        PROVE  stage[k] = "checked" /\ claim'[k] = claim[k] /\ heads[k] \subseteq heads'[k]
    BY <2>1 DEF Load, ReadSource, OpenLock, Link, SyncOut, Refuse, KillKeystone
  <2>2. ASSUME NEW j \in Reader, Assess(j), j # k
        PROVE  stage[k] = "checked" /\ claim'[k] = claim[k] /\ heads[k] \subseteq heads'[k]
    BY <2>2 DEF Assess
  <2>3. CASE LockStep \/ MoveHead \/ PowerFails \/ UNCHANGED vars
    BY <2>3 DEF LockStep, MoveHead, PowerFails, vars, keyVars
  <2> QED
    BY <2>1, <2>2, <2>3 DEF Next
<1> QED
  BY <1>1, <1>2, <1>3

LEMMA KStepInv == KInv /\ [Next]_vars => KInv'
<1> SUFFICES ASSUME KInv, [Next]_vars PROVE KInv'
  OBVIOUS
<1>1. CheckedHolds'
  BY CheckedStep DEF CheckedHolds, Final
<1> QED
  BY <1>1, ClaimStep, RunnerStepInv, NextIsRunnerNext DEF KInv

\* The state of the lock and of every keystone has its type.
THEOREM TypesHold == Spec => []TypeOK
<1>1. KInv => TypeOK
  BY DEF KInv, RInv, ClaimTyped, OutHolds, TypeOK
<1> QED
  BY <1>1, KInitInv, KStepInv, PTL DEF Spec

\* A keystone that returned success published for good, whatever the other
\* keystones, the crashes and the runner lock do.
THEOREM PublishedForGood == Spec => []RetainedForGood
<1>1. KInv => RetainedForGood
  BY DEF KInv, OutHolds
<1> QED
  BY <1>1, KInitInv, KStepInv, PTL DEF Spec

\* An attestation is published only ready, for a commit checked out while its
\* keystone ran, and with a lock whose publication did not report a failure.
LEMMA AuthorizedStep ==
    ASSUME KInv, [Next]_vars, NEW c \in Claim, out = none, out' = c
    PROVE  /\ c.verdict = "ready"
           /\ result[c.lock] \in {"ok", "died", "lost"}
           /\ \E k \in Reader : claim[k] = c /\ c.source \in heads[k]
<1>1. out' # out
  BY ClaimAssumption
<1>2. PICK k \in Reader : Link(k)
  <2>1. ASSUME NEW j \in Reader,
               \/ Load(j) \/ ReadSource(j) \/ OpenLock(j) \/ Assess(j)
               \/ SyncOut(j) \/ Refuse(j) \/ KillKeystone(j)
        PROVE  FALSE
    BY <1>1, <2>1 DEF Load, ReadSource, OpenLock, Assess, SyncOut, Refuse, KillKeystone
  <2>2. CASE PowerFails
    BY <1>1, <2>2 DEF PowerFails, KInv, OutHolds
  <2>3. CASE LockStep \/ MoveHead \/ UNCHANGED vars
    BY <1>1, <2>3 DEF LockStep, MoveHead, vars, keyVars
  <2> QED
    BY <2>1, <2>2, <2>3 DEF Next
<1>3. c = claim[k] /\ stage[k] = "checked"
  BY <1>2 DEF Link
<1> QED
  BY <1>3 DEF KInv, CheckedHolds, Final

\* The keystone publishes only what is ready and authorized
\* (PublishedIsAuthorized).
THEOREM OnlyAuthorized == Spec => PublishedIsAuthorized
<1>1. KInv /\ [Next]_vars =>
        [\A c \in Claim : out = none /\ out' = c =>
            /\ c.verdict = "ready"
            /\ result[c.lock] \in {"ok", "died", "lost"}
            /\ \E k \in Reader : claim[k] = c /\ c.source \in heads[k]]_vars
  BY AuthorizedStep
<1> QED
  BY <1>1, KInitInv, KStepInv, PTL DEF Spec, PublishedIsAuthorized
-----------------------------------------------------------------------------
(* What a committed record stands for. *)

Early == {"create", "note", "syncNote", "fill", "place"}
Placed == {"syncPlace", "rewrite", "fsync", "commit"}

\* What a process that holds the transaction lock knows of the directory, of
\* its record and of its lock file, from where it is.
Knows(a) ==
    /\ pc[a] \in {"pairs", "create"} => dir.incomplete = {}
    /\ a \in Run =>
        /\ pc[a] \in Early => dir.committed = {} \/ dir.lock # none
        /\ pc[a] \in (Early \union Placed) \ {"create"} => dir.incomplete = {a}
        /\ pc[a] \in Placed => dir.committed = {} /\ dir.lock = a
        /\ pc[a] \in Placed \union {"place"} => bytes[a] = "whole"
        /\ pc[a] = "commit" => record[a] = "committed"
        /\ pc[a] = "syncCommit" => dir.lock = a /\ dir.incomplete = {} /\ dir.committed = {a}

\* No other capture has begun.
Alone(r) == \A q \in Run \ {r} : pc[q] = "idle" /\ result[q] = none

\* A success nobody has challenged is the only thing on every disk, and no
\* recovery is taking it away.
OkStands ==
    \A r \in Run : result[r] = "ok" /\ Alone(r) =>
        /\ \A d \in kept : d.lock = r /\ d.incomplete = {} /\ d.committed = {r}
        /\ \A a \in Actor : pc[a] \notin {"clear", "revoke"}

WInv == RInv /\ CommittedIsWhole /\ (\A a \in Actor : Knows(a)) /\ OkStands

\* The step of one process.
ActorStep(b) ==
    \/ Arrive(b) \/ Acquire(b) \/ Recover(b) \/ Fail(b) \/ Kill(b)
    \/ b \in Run /\ Publish(b)
    \/ b \in Reader /\ Open(b)

LEMMA StepsOfActors ==
    ASSUME [RunnerNext]_lockVars
    PROVE  \/ \E b \in Actor : ActorStep(b)
           \/ PowerCut
           \/ UNCHANGED lockVars
  BY DEF RunnerNext, ActorStep, Actor

\* A step concerns the process that takes it.
LEMMA StepFrame ==
    ASSUME RunnerTypeOK, NEW b \in Actor, ActorStep(b), NEW a \in Actor, a # b
    PROVE  /\ pc'[a] = pc[a]
           /\ a \in Run => result'[a] = result[a] /\ record'[a] = record[a] /\ bytes'[a] = bytes[a]
<1> USE DEF RunnerTypeOK, Contents
<1>1. CASE Arrive(b) \/ Acquire(b) \/ Fail(b) \/ Kill(b)
  BY <1>1 DEF Arrive, Acquire, Fail, Kill, Go, Return
<1>2. CASE Recover(b)
  BY <1>2 DEF Recover, Scan, Clear, Pairs, Proceed, Revoke, Go, Return
<1>3. CASE b \in Run /\ Publish(b)
  <2>1. CASE CreateRecord(b) \/ WriteIncomplete(b) \/ SyncIncomplete(b) \/ FillLock(b)
    BY <2>1 DEF CreateRecord, WriteIncomplete, SyncIncomplete, FillLock, Go
  <2>2. CASE PlaceLock(b) \/ SyncPlace(b) \/ RewriteRecord(b) \/ FsyncRecord(b)
    BY <2>2 DEF PlaceLock, SyncPlace, RewriteRecord, FsyncRecord, Go, Return
  <2>3. CASE CommitRecord(b) \/ SyncCommit(b) \/ UndoCommit(b)
    BY <2>3 DEF CommitRecord, SyncCommit, UndoCommit, Go, Return
  <2> QED
    BY <1>3, <2>1, <2>2, <2>3 DEF Publish
<1>4. CASE b \in Reader /\ Open(b)
  BY <1>4 DEF Open, Return
<1> QED
  BY <1>1, <1>2, <1>3, <1>4 DEF ActorStep

\* What a process can do before it holds the transaction lock.
LEMMA OutsideStep ==
    ASSUME NEW b \in Actor, ActorStep(b), pc[b] \in {"idle", "wait"}
    PROVE  \/ pc[b] = "idle" /\ Arrive(b)
           \/ pc[b] = "wait" /\ (Acquire(b) \/ Fail(b) \/ Kill(b))
<1>1. ~Recover(b)
  BY DEF Recover, Scan, Clear, Pairs, Revoke
<1>2. ~Publish(b)
  BY DEF Publish, CreateRecord, WriteIncomplete, SyncIncomplete, FillLock, PlaceLock, SyncPlace,
         RewriteRecord, FsyncRecord, CommitRecord, SyncCommit, UndoCommit, Undoing
<1>3. ~Open(b)
  BY DEF Open
<1> QED
  BY <1>1, <1>2, <1>3 DEF ActorStep, Arrive, Acquire, Fail, Kill

\* What a process knows stays so while another one works.
LEMMA OthersKeepKnowing ==
    ASSUME RInv, NEW a \in Actor, Knows(a), NEW b \in Actor, b # a, ActorStep(b)
    PROVE  Knows(a)'
<1>f. pc'[a] = pc[a] /\ (a \in Run => record'[a] = record[a] /\ bytes'[a] = bytes[a])
  BY StepFrame DEF RInv
<1>1. CASE pc[a] \in {"idle", "wait"}
  BY <1>1, <1>f DEF Knows, Early, Placed
<1>2. CASE pc[a] \notin {"idle", "wait"}
  <2>1. holder = a /\ a # none
    BY <1>2, RunAssumption DEF RInv, OneHolder, Actor
  <2>2. pc[b] \in {"idle", "wait"} /\ ~Acquire(b)
    BY <2>1 DEF RInv, OneHolder, Acquire
  <2>3. Arrive(b) \/ Fail(b) \/ Kill(b)
    BY <2>2, OutsideStep
  <2>4. dir' = dir
    BY <2>3 DEF Arrive, Sync, Fail, Kill
  <2> QED
    BY <1>f, <2>4 DEF Knows
<1> QED
  BY <1>1, <1>2

\* What a publication knows after each of its own steps.
LEMMA PublisherKnows ==
    ASSUME RInv, NEW r \in Run, Knows(r), Publish(r)
    PROVE  Knows(r)'
<1> USE DEF RInv, RunnerTypeOK, Knows, Early, Placed, Go, Contents
<1>0. r \in Actor /\ r \notin Reader /\ r # none
  BY RunAssumption DEF Actor
<1>1. CASE CreateRecord(r)
  <2>1. dir'.lock = dir.lock /\ dir'.committed = dir.committed /\ dir'.incomplete = dir.incomplete \union {r}
    BY <1>1 DEF CreateRecord, Rename, Dir
  <2>2. pc[r] = "create" /\ pc'[r] = "note"
    BY <1>0, <1>1 DEF CreateRecord
  <2> QED
    BY <2>1, <2>2
<1>2. CASE WriteIncomplete(r)
  BY <1>0, <1>2 DEF WriteIncomplete
<1>3. CASE SyncIncomplete(r)
  BY <1>0, <1>3 DEF SyncIncomplete, Sync
<1>4. CASE FillLock(r)
  BY <1>0, <1>4 DEF FillLock
<1>5. CASE PlaceLock(r)
  <2>1. CASE pc'[r] = "idle"
    BY <2>1
  <2>2. CASE dir.lock = none /\ Rename([dir EXCEPT !.lock = r]) /\ pc'[r] = "syncPlace"
    <3>1. dir'.lock = r /\ dir'.committed = dir.committed /\ dir'.incomplete = dir.incomplete
      BY <2>2 DEF Rename, Dir
    <3> QED
      BY <1>5, <2>2, <3>1 DEF PlaceLock
  <2> QED
    BY <1>0, <1>5, <2>1, <2>2 DEF PlaceLock, Return
<1>6. CASE SyncPlace(r)
  BY <1>0, <1>6 DEF SyncPlace, Sync
<1>7. CASE RewriteRecord(r)
  BY <1>0, <1>7 DEF RewriteRecord
<1>8. CASE FsyncRecord(r)
  <2>1. pc'[r] = "commit" /\ pc[r] = "fsync" /\ record'[r] = "committed" /\ bytes'[r] = bytes[r] /\ dir' = dir
    BY <1>0, <1>8 DEF FsyncRecord
  <2> QED
    BY <2>1
<1>9. CASE CommitRecord(r)
  <2>1. dir'.lock = dir.lock /\ dir'.incomplete = dir.incomplete \ {r} /\ dir'.committed = dir.committed \union {r}
    BY <1>9 DEF CommitRecord, Rename, Dir
  <2>2. pc[r] = "commit" /\ pc'[r] = "syncCommit"
    BY <1>0, <1>9 DEF CommitRecord
  <2> QED
    BY <2>1, <2>2
<1>10. CASE SyncCommit(r)
  <2>1. pc'[r] \in {"idle", "undo"}
    BY <1>0, <1>10 DEF SyncCommit, Return
  <2> QED
    BY <2>1
<1>11. CASE UndoCommit(r)
  <2>1. pc'[r] \in {"idle", "undoLock", "undoSync"}
    BY <1>0, <1>11 DEF UndoCommit, Return
  <2> QED
    BY <2>1
<1> QED
  BY <1>1, <1>2, <1>3, <1>4, <1>5, <1>6, <1>7, <1>8, <1>9, <1>10, <1>11 DEF Publish

\* What a process knows when the recovery is over.
LEMMA RecovererKnows ==
    ASSUME RInv, CommittedIsWhole, NEW a \in Actor, Knows(a), Recover(a)
    PROVE  Knows(a)'
<1> USE DEF RInv, RunnerTypeOK, Knows, Early, Placed, Go, Contents
<1>1. CASE Scan(a)
  BY <1>1 DEF Scan
<1>2. CASE Clear(a)
  <2>1. CASE pc'[a] = "clear"
    BY <2>1
  <2>2. CASE dir.incomplete = {} /\ Sync /\ pc'[a] = "pairs"
    BY <2>2 DEF Sync
  <2> QED
    BY <1>2, <2>1, <2>2 DEF Clear
<1>3. CASE Pairs(a)
  <2>1. CASE pc'[a] \in {"revoke", "found"}
    BY <2>1
  <2>2. CASE pc'[a] = "create" /\ dir' = dir /\ (dir.committed = {} \/ Bound(dir))
    BY <1>3, <2>2 DEF Pairs, Bound
  <2> QED
    BY <1>3, <2>1, <2>2 DEF Pairs, Proceed, Sync
<1>4. CASE Revoke(a)
  <2>1. pc'[a] \in {"revoke", "idle"}
    BY <1>4 DEF Revoke, Return
  <2> QED
    BY <2>1
<1> QED
  BY <1>1, <1>2, <1>3, <1>4 DEF Recover

LEMMA KnowsStep ==
    ASSUME WInv, NEW b \in Actor, ActorStep(b), NEW a \in Actor
    PROVE  Knows(a)'
<1> USE DEF WInv
<1>1. CASE a # b
  BY <1>1, OthersKeepKnowing
<1>2. CASE a = b
  <2>1. CASE Recover(a)
    BY <2>1, RecovererKnows
  <2>2. CASE a \in Run /\ Publish(a)
    BY <2>2, PublisherKnows
  <2>3. CASE Arrive(a) \/ Acquire(a) \/ Fail(a) \/ Kill(a) \/ Open(a)
    <3>1. pc'[a] \in {"wait", "scan", "idle"}
      BY <2>3 DEF Arrive, Acquire, Fail, Kill, Open, Go, Return, RInv, RunnerTypeOK
    <3> QED
      BY <3>1 DEF Knows, Early, Placed
  <2> QED
    BY <1>2, <2>1, <2>2, <2>3 DEF ActorStep
<1> QED
  BY <1>1, <1>2

\* A disk holds no committed record, and no other lock, than one before it.
Fewer(d, e) == d.committed \subseteq e.committed /\ d.lock \in {e.lock, none}

\* Taking names away leaves what is committed whole, as long as no committed
\* record and no lock it binds is written.
LEMMA WholeShrinks ==
    ASSUME RunnerTypeOK, CommittedIsWhole,
           \A d \in kept' : \E e \in kept : Fewer(d, e),
           \A r \in Run : (\E d \in kept : r \in d.committed) =>
               record'[r] = record[r] /\ bytes'[r] = bytes[r]
    PROVE  CommittedIsWhole'
<1> SUFFICES ASSUME NEW d \in kept', NEW r \in d.committed
             PROVE  /\ d.committed = {r}
                    /\ d.lock \in {r, none}
                    /\ record'[r] = "committed"
                    /\ bytes'[r] = "whole"
  BY DEF CommittedIsWhole
<1>1. PICK e \in kept : Fewer(d, e)
  OBVIOUS
<1>2. r \in e.committed /\ r \in Run
  BY <1>1 DEF Fewer, RunnerTypeOK, Dir
<1>3. e.committed = {r} /\ e.lock \in {r, none} /\ record[r] = "committed" /\ bytes[r] = "whole"
  BY <1>2 DEF CommittedIsWhole
<1>4. record'[r] = record[r] /\ bytes'[r] = bytes[r]
  BY <1>2
<1> QED
  BY <1>1, <1>3, <1>4 DEF Fewer

LEMMA FewerSteps ==
    ASSUME RunnerTypeOK,
           \/ Sync
           \/ UNCHANGED <<dir, kept>>
           \/ \E d \in Dir : Fewer(d, dir) /\ Rename(d)
    PROVE  \A d \in kept' : \E e \in kept : Fewer(d, e)
  BY DEF RunnerTypeOK, Sync, Rename, Fewer

LEMMA UncommittedWhole ==
    ASSUME WInv, NEW b \in Actor, ActorStep(b), ~(b \in Run /\ (PlaceLock(b) \/ CommitRecord(b)))
    PROVE  CommittedIsWhole'
<1> USE DEF WInv, RInv
<1>1. \A d \in kept' : \E e \in kept : Fewer(d, e)
  <2>1. [dir EXCEPT !.lock = none] \in Dir /\ Fewer([dir EXCEPT !.lock = none], dir)
    BY DEF RunnerTypeOK, Dir, Fewer
  <2>2. ASSUME NEW r \in Run
        PROVE  /\ [dir EXCEPT !.incomplete = @ \ {r}] \in Dir /\ Fewer([dir EXCEPT !.incomplete = @ \ {r}], dir)
               /\ [dir EXCEPT !.committed = @ \ {r}] \in Dir /\ Fewer([dir EXCEPT !.committed = @ \ {r}], dir)
               /\ [dir EXCEPT !.incomplete = @ \union {r}] \in Dir /\ Fewer([dir EXCEPT !.incomplete = @ \union {r}], dir)
               /\ [dir EXCEPT !.incomplete = @ \union {r}, !.committed = @ \ {r}] \in Dir
               /\ Fewer([dir EXCEPT !.incomplete = @ \union {r}, !.committed = @ \ {r}], dir)
    BY DEF RunnerTypeOK, Dir, Fewer
  <2>3. dir.incomplete \subseteq Run /\ dir.committed \subseteq Run
    BY TypesOfDir
  <2>4. CASE Arrive(b) \/ Acquire(b) \/ Fail(b) \/ Kill(b) \/ Open(b)
    BY <2>4, FewerSteps DEF Arrive, Acquire, Fail, Kill, Open
  <2>5. CASE Recover(b)
    <3>1. CASE Scan(b) \/ Pairs(b)
      BY <3>1, FewerSteps DEF Scan, Pairs
    <3>2. CASE Clear(b)
      BY <2>1, <2>2, <2>3, <3>2, FewerSteps DEF Clear
    <3>3. CASE Revoke(b)
      BY <2>1, <2>2, <2>3, <3>3, FewerSteps DEF Revoke
    <3> QED
      BY <2>5, <3>1, <3>2, <3>3 DEF Recover
  <2>6. CASE b \in Run /\ Publish(b)
    <3>1. CASE CreateRecord(b) \/ WriteIncomplete(b) \/ SyncIncomplete(b) \/ FillLock(b)
      BY <2>2, <2>6, <3>1, FewerSteps DEF CreateRecord, WriteIncomplete, SyncIncomplete, FillLock
    <3>2. CASE SyncPlace(b) \/ RewriteRecord(b) \/ FsyncRecord(b) \/ SyncCommit(b)
      BY <3>2, FewerSteps DEF SyncPlace, RewriteRecord, FsyncRecord, SyncCommit
    <3>3. CASE UndoCommit(b)
      <4>1. CASE Sync \/ UNCHANGED <<dir, kept>>
        BY <4>1, FewerSteps
      <4>2. CASE Rename([dir EXCEPT !.incomplete = @ \union {b}, !.committed = @ \ {b}])
        BY <2>2, <2>6, <4>2, FewerSteps
      <4>3. CASE Rename([dir EXCEPT !.lock = none])
        BY <2>1, <4>3, FewerSteps
      <4> QED
        BY <3>3, <4>1, <4>2, <4>3 DEF UndoCommit
    <3> QED
      BY <2>6, <3>1, <3>2, <3>3 DEF Publish
  <2> QED
    BY <2>4, <2>5, <2>6 DEF ActorStep
<1>2. ASSUME NEW r \in Run, \E d \in kept : r \in d.committed
      PROVE  record'[r] = record[r] /\ bytes'[r] = bytes[r]
  <2>0. r \in Actor
    BY DEF Actor
  <2>1. CommittedBy(r)
    BY <1>2 DEF CommittedInTime
  <2>2. CASE r # b
    BY <2>0, <2>2, StepFrame
  <2>3. CASE r = b /\ Publish(b)
    <3>1. SyncCommit(b) \/ UndoCommit(b)
      BY <2>1, <2>3 DEF CommittedBy, Undoing, Publish, CreateRecord, WriteIncomplete, SyncIncomplete, FillLock, PlaceLock,
           SyncPlace, RewriteRecord, FsyncRecord, CommitRecord
    <3> QED
      BY <3>1 DEF SyncCommit, UndoCommit, Contents
  <2>4. CASE ~Publish(b)
    <3>1. UNCHANGED Contents
      BY <2>4 DEF ActorStep, Arrive, Acquire, Recover, Scan, Clear, Pairs, Revoke, Fail, Kill, Open, Contents
    <3> QED
      BY <3>1 DEF Contents
  <2> QED
    BY <2>2, <2>3, <2>4
<1> QED
  BY <1>1, <1>2, WholeShrinks

\* The lock is placed, and the record committed, beside no other.
LEMMA CommittedWhole ==
    ASSUME WInv, NEW r \in Run, PlaceLock(r) \/ CommitRecord(r)
    PROVE  CommittedIsWhole'
<1> USE DEF WInv, RInv, RunnerTypeOK
<1>0. r \in Actor /\ r # none /\ Knows(r) /\ UNCHANGED <<record, bytes>>
  BY RunAssumption DEF Actor, PlaceLock, CommitRecord, Contents
<1>1. CASE UNCHANGED <<dir, kept>>
  BY <1>0, <1>1 DEF CommittedIsWhole
<1>2. CASE pc[r] = "place" /\ dir.lock = none /\ Rename([dir EXCEPT !.lock = r])
  <2>1. dir'.committed = {}
    BY <1>0, <1>2 DEF Knows, Early, Rename, Dir
  <2>2. kept' = kept \union {dir'}
    BY <1>2 DEF Rename
  <2> QED
    BY <1>0, <2>1, <2>2 DEF CommittedIsWhole
<1>3. CASE CommitRecord(r)
  <2>1. dir'.committed = {r} /\ dir'.lock = r
    BY <1>0, <1>3 DEF CommitRecord, Knows, Placed, Rename, Dir
  <2>2. kept' = kept \union {dir'}
    BY <1>3 DEF CommitRecord, Rename
  <2>3. record[r] = "committed" /\ bytes[r] = "whole"
    BY <1>0, <1>3 DEF CommitRecord, Knows, Placed
  <2> QED
    BY <1>0, <2>1, <2>2, <2>3 DEF CommittedIsWhole
<1> QED
  BY <1>1, <1>2, <1>3 DEF PlaceLock

LEMMA WholeStep ==
    ASSUME WInv, [RunnerNext]_lockVars
    PROVE  CommittedIsWhole'
<1>1. ASSUME NEW b \in Actor, ActorStep(b) PROVE CommittedIsWhole'
  BY <1>1, UncommittedWhole, CommittedWhole
<1>2. CASE PowerCut
  BY <1>2 DEF PowerCut, Contents, WInv, CommittedIsWhole
<1>3. CASE UNCHANGED lockVars
  BY <1>3 DEF lockVars, WInv, CommittedIsWhole
<1> QED
  BY <1>1, <1>2, <1>3, StepsOfActors

\* Nobody but its own publication and its challengers can touch a success.
LEMMA AloneBefore ==
    ASSUME RunnerTypeOK, NEW b \in Actor, ActorStep(b), NEW r \in Run, Alone(r)'
    PROVE  /\ Alone(r)
           /\ b # r => b \notin Run
<1> USE DEF Alone
<1>1. ASSUME NEW q \in Run \ {r}, q # b PROVE pc[q] = "idle" /\ result[q] = none
  BY <1>1, StepFrame DEF Actor
<1>2. ASSUME b \in Run \ {r} PROVE FALSE
  <2>1. pc'[b] = "idle" /\ result'[b] = none
    BY <1>2
  <2>2. (\E s \in Steps \ {"idle"} : Go(b, s)) \/ Acquire(b) \/ (\E o \in {"ok", "err", "lost", "died"} : Return(b, o))
    <3>1. CASE Arrive(b) \/ Acquire(b) \/ Fail(b) \/ Kill(b)
      BY <3>1 DEF Arrive, Acquire, Fail, Kill, Steps
    <3>2. CASE Recover(b)
      BY <3>2 DEF Recover, Scan, Clear, Pairs, Proceed, Revoke, Steps, Recovering, Publishing
    <3>3. CASE Publish(b)
      BY <3>3 DEF Publish, CreateRecord, WriteIncomplete, SyncIncomplete, FillLock, PlaceLock, SyncPlace,
             RewriteRecord, FsyncRecord, CommitRecord, SyncCommit, UndoCommit, Steps, Publishing, Undoing
    <3>4. b \notin Reader
      BY <1>2, RunAssumption
    <3> QED
      BY <3>1, <3>2, <3>3, <3>4 DEF ActorStep
  <2>3. CASE \E s \in Steps \ {"idle"} : Go(b, s)
    BY <2>1, <2>3 DEF Go, RunnerTypeOK
  <2>4. CASE Acquire(b)
    BY <2>1, <2>4 DEF Acquire, RunnerTypeOK
  <2>5. CASE \E o \in {"ok", "err", "lost", "died"} : Return(b, o)
    BY <1>2, <2>1, <2>5, RunAssumption DEF Return, RunnerTypeOK
  <2> QED
    BY <2>2, <2>3, <2>4, <2>5
<1> QED
  BY <1>1, <1>2

\* What one success leaves on the disks, and the recoveries under way.
Stands(r) ==
    /\ \A d \in kept : d.lock = r /\ d.incomplete = {} /\ d.committed = {r}
    /\ \A a \in Actor : pc[a] \notin {"clear", "revoke"}

\* A publication returns success: nothing else is on the disk.
LEMMA StandsAtReturn ==
    ASSUME WInv, NEW r \in Run, ActorStep(r), result[r] # "ok", result'[r] = "ok"
    PROVE  Stands(r)'
<1> USE DEF WInv, RInv, RunnerTypeOK
<1>0. r \in Actor /\ r \notin Reader
  BY RunAssumption DEF Actor
<1>1. SyncCommit(r) /\ Sync /\ Return(r, "ok")
  <2>1. CASE Arrive(r) \/ Acquire(r) \/ Fail(r) \/ Kill(r)
    BY <1>0, <2>1 DEF Arrive, Acquire, Fail, Kill, Go, Return
  <2>2. CASE Recover(r)
    BY <1>0, <2>2 DEF Recover, Scan, Clear, Pairs, Proceed, Revoke, Go, Return
  <2>3. CASE CreateRecord(r) \/ WriteIncomplete(r) \/ SyncIncomplete(r) \/ FillLock(r) \/ SyncPlace(r)
              \/ RewriteRecord(r) \/ FsyncRecord(r) \/ CommitRecord(r)
    BY <2>3 DEF CreateRecord, WriteIncomplete, SyncIncomplete, FillLock, SyncPlace, RewriteRecord, FsyncRecord, CommitRecord, Go
  <2>4. CASE PlaceLock(r) \/ UndoCommit(r)
    BY <1>0, <2>4 DEF PlaceLock, UndoCommit, Go, Return
  <2>5. CASE SyncCommit(r)
    BY <2>5 DEF SyncCommit, Go
  <2> QED
    BY <1>0, <2>1, <2>2, <2>3, <2>4, <2>5 DEF ActorStep, Publish
<1>2. pc[r] = "syncCommit" /\ Knows(r)
  BY <1>0, <1>1 DEF SyncCommit
<1>3. kept' = {dir'} /\ dir' = dir /\ dir.lock = r /\ dir.incomplete = {} /\ dir.committed = {r}
  BY <1>0, <1>1, <1>2 DEF Sync, Knows
<1>4. ASSUME NEW a \in Actor PROVE pc'[a] \notin {"clear", "revoke"}
  <2>1. holder = r
    BY <1>0, <1>2 DEF OneHolder
  <2>2. CASE a = r
    BY <1>0, <1>1, <2>2 DEF Return
  <2>3. CASE a # r
    BY <1>0, <2>1, <2>3, StepFrame DEF OneHolder
  <2> QED
    BY <2>2, <2>3
<1> QED
  BY <1>3, <1>4 DEF Stands

\* No step of a reader takes it away.
LEMMA StandsThrough ==
    ASSUME WInv, NEW r \in Run, result[r] = "ok", Stands(r), NEW k \in Reader, ActorStep(k)
    PROVE  Stands(r)'
<1> USE DEF WInv, RInv, RunnerTypeOK
<1>0. k \in Actor /\ k \notin Run /\ r # none /\ dir \in kept
  BY RunAssumption DEF Actor
<1>1. pc[k] \notin {"clear", "revoke"} /\ dir.lock = r /\ dir.incomplete = {} /\ dir.committed = {r}
  BY <1>0 DEF Stands
<1>2. Bound(dir)
  BY <1>0, <1>1 DEF Bound, CommittedIsWhole
<1>3. (dir' = dir /\ kept' \subseteq kept) /\ pc'[k] \notin {"clear", "revoke"}
  <2>1. CASE Arrive(k) \/ Acquire(k) \/ Fail(k) \/ Kill(k) \/ Open(k)
    BY <1>0, <2>1 DEF Arrive, Acquire, Fail, Kill, Open, Sync, Go, Return
  <2>2. CASE Scan(k)
    BY <1>0, <1>1, <2>2 DEF Scan, Go
  <2>3. CASE Pairs(k)
    BY <1>0, <1>1, <1>2, <2>3 DEF Pairs, Proceed, Sync, Go
  <2>4. ~Clear(k) /\ ~Revoke(k)
    BY <1>1 DEF Clear, Revoke
  <2> QED
    BY <1>0, <2>1, <2>2, <2>3, <2>4 DEF ActorStep, Recover
<1>4. ASSUME NEW a \in Actor PROVE pc'[a] \notin {"clear", "revoke"}
  BY <1>0, <1>3, StepFrame DEF Stands
<1> QED
  BY <1>3, <1>4 DEF Stands

LEMMA StandsStep ==
    ASSUME WInv, [RunnerNext]_lockVars, NEW r \in Run, result'[r] = "ok", Alone(r)'
    PROVE  Stands(r)'
<1> USE DEF WInv, RInv, RunnerTypeOK
<1>0. r \in Actor
  BY DEF Actor
<1>s. result[r] = "ok" /\ Alone(r) => Stands(r)
  BY DEF OkStands, Stands
<1>1. ASSUME NEW b \in Actor, ActorStep(b) PROVE Stands(r)'
  <2>1. Alone(r) /\ (b # r => b \in Reader)
    BY <1>1, AloneBefore DEF Actor
  <2>2. CASE b # r
    <3>1. result[r] = "ok"
      BY <1>0, <1>1, <2>2, StepFrame
    <3> QED
      BY <1>1, <1>s, <2>1, <2>2, <3>1, StandsThrough
  <2>3. CASE b = r /\ result[r] # "ok"
    BY <1>1, <2>3, StandsAtReturn
  <2>4. CASE b = r /\ result[r] = "ok"
    <3>1. pc[r] = "idle" /\ result[r] # none
      BY <2>4, RunAssumption DEF ResultIsFinal
    <3>2. FALSE
      BY <1>0, <1>1, <2>4, <3>1, OutsideStep DEF Arrive
    <3> QED
      BY <3>2
  <2> QED
    BY <2>2, <2>3, <2>4
<1>2. CASE PowerCut
  <2>1. result[r] = "ok"
    BY <1>2 DEF PowerCut
  <2>2. Alone(r)
    BY <1>2, RunAssumption DEF PowerCut, Alone, Actor
  <2> QED
    BY <1>2, <1>s, <2>1, <2>2 DEF PowerCut, Stands
<1>3. CASE UNCHANGED lockVars
  BY <1>3, <1>s DEF lockVars, Stands, Alone
<1> QED
  BY <1>1, <1>2, <1>3, StepsOfActors

LEMMA WInitInv == RunnerInit => WInv
<1> SUFFICES ASSUME RunnerInit PROVE WInv
  OBVIOUS
<1>1. RInv
  BY RunnerInitInv
<1>2. \A d \in kept : d.committed = {}
  BY DEF RunnerInit
<1>3. \A a \in Actor : pc[a] = "idle"
  BY DEF RunnerInit
<1>4. \A r \in Run : result[r] # "ok"
  BY RunAssumption DEF RunnerInit
<1> QED
  BY <1>1, <1>2, <1>3, <1>4 DEF WInv, CommittedIsWhole, Knows, Early, Placed, OkStands

LEMMA WStepInv == WInv /\ [RunnerNext]_lockVars => WInv'
<1> SUFFICES ASSUME WInv, [RunnerNext]_lockVars PROVE WInv'
  OBVIOUS
<1>1. RInv'
  BY RunnerStepInv DEF WInv
<1>2. \A a \in Actor : Knows(a)'
  <2>1. CASE PowerCut
    BY <2>1 DEF PowerCut, Knows, Early, Placed
  <2>2. CASE UNCHANGED lockVars
    BY <2>2 DEF WInv, lockVars, Knows
  <2> QED
    BY <2>1, <2>2, KnowsStep, StepsOfActors
<1>3. OkStands'
  BY StandsStep DEF OkStands, Stands
<1> QED
  BY <1>1, <1>2, <1>3, WholeStep DEF WInv

\* What success promises follows from what stands on the disks and from their
\* being whole.
LEMMA WInvImplies == WInv => OkIsDurable
<1> SUFFICES ASSUME WInv, NEW r \in Run, result[r] = "ok", Alone(r), NEW d \in kept
             PROVE  Bound(d)
  BY DEF OkIsDurable, Alone
<1>1. d.lock = r /\ d.committed = {r} /\ r # none
  BY RunAssumption DEF WInv, OkStands
<1> QED
  BY <1>1 DEF WInv, CommittedIsWhole, Bound

\* The publication of the runner lock, with any number of captures and
\* readers, failures of any call, kills and power cuts: on every disk a power
\* cut can leave, a committed record is the only one, whole, beside its own
\* lock or none.
THEOREM RecordsAreWhole == RunnerSpec => []CommittedIsWhole
<1>1. WInv => CommittedIsWhole
  BY DEF WInv
<1> QED
  BY <1>1, WInitInv, WStepInv, PTL DEF RunnerSpec

\* A publication that returned success is authoritative on every disk a power
\* cut can leave, until another capture begins, whoever opens the lock and
\* recovers meanwhile.
THEOREM SuccessIsDurable == RunnerSpec => []OkIsDurable
  BY WInitInv, WStepInv, WInvImplies, PTL DEF RunnerSpec

\* The same of the tooling as a whole, keystones included.
THEOREM WholeAndDurableForKeystone == Spec => []CommittedIsWhole /\ []OkIsDurable
  BY KeystoneRespectsLock, RecordsAreWhole, SuccessIsDurable, PTL
=============================================================================
