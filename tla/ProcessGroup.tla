------------------------------ MODULE ProcessGroup ------------------------------
(***************************************************************************)
(* A command that xtask starts in a process group of its own, seen from    *)
(* outside: the command (the leader of the group), one descendant that may *)
(* outlive it, the pipes both write to, and the threads of xtask that read *)
(* them (native_smoke.rs and package_smoke.rs, which have the same         *)
(* readers).  Processes do as they like: ignore SIGTERM, leave the group,  *)
(* end at any time, write, close their output, or do nothing for ever.     *)
(*                                                                         *)
(* Output comes in chunks; a chunk is the marker of a proof or is not.     *)
(***************************************************************************)
EXTENDS Naturals, Sequences, FiniteSets

CONSTANTS
    Stream,     \* the pipes
    MaxWritten, \* bound: chunks written to each of them
    PipeSize,   \* chunks a pipe holds unread
    Retained,   \* RETAINED_OUTPUT_BYTES and MAX_OUTPUT_BYTES, in chunks
    Deadline,   \* when the command has had its time
    Grace       \* how long it may then take to end: TERM_GRACE, term_grace

ASSUME OutputAssumption ==
    /\ Retained \in Nat
    /\ MaxWritten \in [Stream -> Nat]
    /\ PipeSize \in Nat
    /\ Deadline \in Nat
    /\ Grace \in Nat

Process == {"leader", "child"}
Chunk   == {"marker", "noise"}

VARIABLES
    proc,     \* what each process is doing
    group,    \* the processes in the leader's process group
    doomed,   \* those with a SIGKILL on its way
    status,   \* how the leader ended
    holders,  \* for each pipe, the processes that can write to it
    written,  \* for each pipe, all that was written to it
    read,     \* how many chunks its reader has taken
    kept,     \* what the reader has kept of them
    reading,  \* the readers that have not finished
    exceeded, \* some reader could not keep a chunk
    unread,   \* some reader stopped at an error: read_failure
    faulty,   \* a call can still fail (once in each supervision)
    clock     \* the time since the command was started

processVars == <<proc, group, doomed, status, holders>>
readerVars  == <<read, kept, reading, exceeded, unread>>
groupVars   == <<processVars, written, readerVars, faulty, clock>>

ProcessesTypeOK ==
    /\ proc \in [Process -> {"none", "runs", "zombie", "gone"}]
    /\ group \subseteq Process
    /\ doomed \subseteq Process
    /\ status \in {"none", "ok", "failed"}
    /\ holders \in [Stream -> SUBSET Process]
    /\ written \in [Stream -> Seq(Chunk)]
    /\ read \in [Stream -> Nat]
    /\ kept \in [Stream -> Seq(Chunk)]
    /\ reading \subseteq Stream
    /\ exceeded \in BOOLEAN
    /\ unread \in BOOLEAN
    /\ faulty \in BOOLEAN
    /\ clock \in 0 .. Deadline + Grace

NoProcess ==
    /\ proc = [p \in Process |-> "none"]
    /\ group = {}
    /\ doomed = {}
    /\ status = "none"
    /\ holders = [s \in Stream |-> {}]
    /\ written = [s \in Stream |-> << >>]
    /\ read = [s \in Stream |-> 0]
    /\ kept = [s \in Stream |-> << >>]
    /\ reading = {}
    /\ exceeded = FALSE
    /\ unread = FALSE
    /\ faulty = TRUE
    /\ clock = 0

\* spawn, with setpgid in the child before it runs, and the two readers.
Spawn ==
    /\ proc' = [p \in Process |-> IF p = "leader" THEN "runs" ELSE "none"]
    /\ group' = {"leader"}
    /\ doomed' = {}
    /\ status' = "none"
    /\ holders' = [s \in Stream |-> {"leader"}]
    /\ written' = [s \in Stream |-> << >>]
    /\ read' = [s \in Stream |-> 0]
    /\ kept' = [s \in Stream |-> << >>]
    /\ reading' = Stream
    /\ exceeded' = FALSE
    /\ unread' = FALSE
    /\ faulty' = TRUE
    /\ clock' = 0

\* Nothing of the group is looked at any more.
Forget ==
    /\ proc' = [p \in Process |-> "none"]
    /\ group' = {}
    /\ doomed' = {}
    /\ status' = "none"
    /\ holders' = [s \in Stream |-> {}]
    /\ written' = [s \in Stream |-> << >>]
    /\ read' = [s \in Stream |-> 0]
    /\ kept' = [s \in Stream |-> << >>]
    /\ reading' = {}
    /\ exceeded' = FALSE
    /\ unread' = FALSE
    /\ faulty' = TRUE
    /\ clock' = 0

\* kill(-pid, SIGKILL).  It is only now that it matters whether the leader has
\* moved to another group (setpgid), so only now it is said.  SIGTERM needs no
\* action: a process can end at any time.
KillGroup ==
    /\ group' = group \/ (proc["leader"] = "runs" /\ group' = group \ {"leader"})
    /\ doomed' = doomed \cup {p \in group' : proc[p] = "runs"}

\* try_wait finds the leader ended, and reaps it.
Reaped == [proc EXCEPT !["leader"] = "gone"]

\* group_exists finds no process, a zombie counting as one.
GroupGone(processes) == \A p \in group : processes[p] \in {"none", "gone"}

-----------------------------------------------------------------------------
(* What the processes do *)

Fork ==
    /\ proc["leader"] = "runs"
    /\ proc["child"] = "none"
    /\ proc' = [proc EXCEPT !["child"] = "runs"]
    /\ group' = group \cup {"child"}
    /\ holders' = [s \in Stream |-> IF "leader" \in holders[s] THEN Process ELSE {}]
    /\ UNCHANGED <<doomed, status, written, readerVars, faulty, clock>>

\* setsid: signals to the group no longer reach it.
LeaveGroup ==
    /\ proc["child"] = "runs"
    /\ "child" \in group
    /\ group' = group \ {"child"}
    /\ UNCHANGED <<proc, doomed, status, holders, written, readerVars, faulty, clock>>

Close(s, p) ==
    /\ p \in holders[s]
    /\ holders' = [holders EXCEPT ![s] = @ \ {p}]
    /\ UNCHANGED <<proc, group, doomed, status, written, readerVars, faulty, clock>>

Write(s, p) ==
    /\ p \in holders[s]
    /\ s \in reading
    /\ Len(written[s]) < MaxWritten[s]
    /\ Len(written[s]) - read[s] < PipeSize
    /\ \E c \in Chunk : written' = [written EXCEPT ![s] = Append(@, c)]
    /\ UNCHANGED <<processVars, readerVars, faulty, clock>>

Ends(p, how) ==
    /\ proc[p] = "runs"
    /\ proc' = [proc EXCEPT ![p] = IF p = "leader" THEN "zombie" ELSE "gone"]
    /\ status' = IF p = "leader" THEN how ELSE status
    /\ holders' = [s \in Stream |-> holders[s] \ {p}]
    /\ UNCHANGED <<group, doomed, written, readerVars, faulty, clock>>

\* SIGKILL arrives.
Killed(p) == p \in doomed /\ Ends(p, "failed")

-----------------------------------------------------------------------------
(* The readers *)

\* read_stream of one, spawn_reader of the other: a chunk is read and kept if
\* there is room (retain, append).
Read(s) ==
    /\ s \in reading
    /\ read[s] < Len(written[s])
    /\ read' = [read EXCEPT ![s] = @ + 1]
    /\ IF Len(kept[s]) < Retained
         THEN /\ kept' = [kept EXCEPT ![s] = Append(@, written[s][read[s] + 1])]
              /\ UNCHANGED exceeded
         ELSE /\ exceeded' = TRUE
              /\ UNCHANGED kept
    /\ UNCHANGED <<processVars, written, reading, unread, faulty, clock>>

\* read returns 0: everything is read and no process can write.
ReadEnd(s) ==
    /\ s \in reading
    /\ read[s] = Len(written[s])
    /\ holders[s] = {}
    /\ reading' = reading \ {s}
    /\ UNCHANGED <<processVars, written, read, kept, exceeded, unread, faulty, clock>>

\* read returns an error: it is recorded and the reader ends.
ReadFails(s) ==
    /\ s \in reading
    /\ faulty
    /\ faulty' = FALSE
    /\ unread' = TRUE
    /\ reading' = reading \ {s}
    /\ UNCHANGED <<processVars, written, read, kept, exceeded, clock>>

\* Nothing is waited for beyond the last moment that is looked at.
Tick ==
    /\ clock < Deadline + Grace
    /\ clock' = clock + 1
    /\ UNCHANGED <<processVars, written, readerVars, faulty>>

\* What processes write, and what is read of it.
OutputNext == \E s \in Stream : Read(s) \/ \E p \in Process : Write(s, p)

\* Everything else that happens meanwhile, but for how the leader ends.
GroupNext ==
    \/ Fork
    \/ LeaveGroup
    \/ \E s \in Stream, p \in Process : Close(s, p)
    \/ \E p \in Process : Killed(p)
    \/ Ends("child", "ok")
    \/ \E s \in Stream : ReadEnd(s) \/ ReadFails(s)
    \/ Tick
===============================================================================
