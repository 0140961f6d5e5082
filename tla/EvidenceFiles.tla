------------------------------ MODULE EvidenceFiles ------------------------------
(***************************************************************************)
(* The evidence a smoke test leaves in a directory: the retained output of *)
(* every step and the receipt that names them.  write_file of              *)
(* native_smoke.rs and write_create_only of package_smoke.rs are the same  *)
(* algorithm: a synced temporary file is hard-linked to its name, which    *)
(* must be free, and then the directory is synced.                         *)
(*                                                                         *)
(* A file is the number of the attempt that wrote it, 0 if there is none.  *)
(***************************************************************************)
EXTENDS Naturals, Sequences

CONSTANTS
    Steps,       \* the number of steps, each with an output file per pipe
    Pipes,       \* the names of the pipes, in the order their files are written
    MaxAttempts  \* bound: attempts in one directory

ASSUME EvidenceAssumption == Steps \in Nat /\ MaxAttempts \in Nat \ {0}

Receipt == <<0, "receipt">>
Logs    == (1 .. Steps) \X {Pipes[i] : i \in DOMAIN Pipes}
Name    == Logs \cup {Receipt}
Attempt == 0 .. MaxAttempts

VARIABLES
    attempt,  \* the attempt that is running
    file,     \* who wrote the file of each name
    onDisk,   \* for each name, what a power cut may leave
    queue,    \* the names still to be written
    linked,   \* the first of them has its name and the directory is not synced
    verdict   \* what the receipt says

evidenceVars == <<attempt, file, onDisk, queue, linked, verdict>>

EvidenceTypeOK ==
    /\ attempt \in 1 .. MaxAttempts
    /\ file \in [Name -> Attempt]
    /\ onDisk \in [Name -> SUBSET Attempt]
    /\ queue \in Seq(Name)
    /\ linked \in BOOLEAN
    /\ verdict \in {"none", "passed", "failed"}

NoEvidence ==
    /\ attempt = 1
    /\ file = [n \in Name |-> 0]
    /\ onDisk = [n \in Name |-> {0}]
    /\ queue = << >>
    /\ linked = FALSE
    /\ verdict = "none"

\* The files of step i, in order.
LogsOf(i) == [j \in DOMAIN Pipes |-> <<i, Pipes[j]>>]

\* Mutant of Link: the name is taken over (File::create, rename).
LinkOver ==
    /\ queue # << >>
    /\ ~ linked
    /\ file' = [file EXCEPT ![Head(queue)] = attempt]
    /\ onDisk' = [onDisk EXCEPT ![Head(queue)] = @ \cup {attempt}]
    /\ linked' = TRUE
    /\ UNCHANGED <<attempt, queue, verdict>>

Link ==
    /\ queue # << >>
    /\ ~ linked
    /\ file[Head(queue)] = 0
    /\ file' = [file EXCEPT ![Head(queue)] = attempt]
    /\ onDisk' = [onDisk EXCEPT ![Head(queue)] = @ \cup {attempt}]
    /\ linked' = TRUE
    /\ UNCHANGED <<attempt, queue, verdict>>

\* Mutant of SyncDirectory: the directory is not synced.
SyncForgotten ==
    /\ linked
    /\ queue' = Tail(queue)
    /\ linked' = FALSE
    /\ UNCHANGED <<attempt, file, onDisk, verdict>>

SyncDirectory ==
    /\ linked
    /\ onDisk' = [n \in Name |-> {file[n]}]
    /\ queue' = Tail(queue)
    /\ linked' = FALSE
    /\ UNCHANGED <<attempt, file, verdict>>

\* The name is taken, or a call fails: what has its name keeps it.
PutFails ==
    /\ queue # << >>
    /\ queue' = << >>
    /\ linked' = FALSE
    /\ UNCHANGED <<attempt, file, onDisk, verdict>>

\* xtask is gone and is started again.
NextAttempt ==
    /\ attempt < MaxAttempts
    /\ attempt' = attempt + 1
    /\ queue' = << >>
    /\ linked' = FALSE
    /\ verdict' = "none"

PowerCut ==
    /\ file' \in {f \in [Name -> Attempt] : \A n \in Name : f[n] \in onDisk[n]}
    /\ onDisk' = [n \in Name |-> {file'[n]}]
===============================================================================
