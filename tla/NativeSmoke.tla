------------------------------- MODULE NativeSmoke -------------------------------
(***************************************************************************)
(* The native smoke gate, xtask/src/native_smoke.rs: the program is run    *)
(* Repeats times, each time in a process group that supervise_with watches *)
(* and leaves empty, its output is retained, and a report says whether     *)
(* every run passed.  The program file may be built anew meanwhile.        *)
(***************************************************************************)
EXTENDS ProcessGroup, EvidenceFiles

CONSTANTS
    KillSettle, \* the last part of Grace, for what SIGKILL does
    MinRepeats, \* the fewest runs the profile allows: minimum_repeats
    Repeats,    \* runs asked for, which resolve_repeats lets through
    MaxBuilds   \* bound: the file is one of this many builds

ASSUME GateAssumption ==
    /\ KillSettle \in 0 .. Grace
    /\ MinRepeats \in Nat \ {0}
    /\ Repeats \in MinRepeats .. Steps
    /\ MaxBuilds \in Nat \ {0}
    /\ Pipes \in Seq(Stream)

VARIABLES
    gate,      \* where run_gate is
    sup,       \* the locals of supervise_with and cleanup_group
    run,       \* the number of the run
    failure,   \* a run has failed
    binary,    \* the build in the program's file
    captured,  \* the build capture_artifact has seen, 0 before
    ran,       \* history: the builds that were started
    restored   \* history: the captured build was put back after a run of another

gateVars   == <<run, failure, binary, captured, ran, restored>>
nativeVars == <<gate, sup, gateVars>>

Idle == [pending |-> "none", killed |-> FALSE, killAt |-> 0, stopAt |-> 0,
         reaped |-> FALSE]

NativeTypeOK ==
    /\ gate \in {"start", "verify", "launch", "polls", "cleans", "write",
                 "report", "over"}
    /\ sup \in [pending : {"none", "success", "exited", "wait", "read", "timeout", "output"},
                killed : BOOLEAN, killAt : Nat, stopAt : Nat, reaped : BOOLEAN]
    /\ run \in 0 .. Repeats
    /\ failure \in BOOLEAN
    /\ binary \in 1 .. MaxBuilds
    /\ captured \in 0 .. MaxBuilds
    /\ ran \in Seq(1 .. MaxBuilds)
    /\ restored \in BOOLEAN

NativeInit ==
    /\ gate = "start"
    /\ sup = Idle
    /\ run = 0
    /\ failure = FALSE
    /\ binary = 1
    /\ captured = 0
    /\ ran = << >>
    /\ restored = FALSE

-----------------------------------------------------------------------------
(* supervise_with *)

\* The loop ends, the group gets SIGTERM, cleanup_group begins.
Break(pending) ==
    LET stop == IF clock < Deadline THEN clock + Grace ELSE Deadline + Grace IN
    /\ gate' = "cleans"
    /\ sup' = [Idle EXCEPT !.pending = pending, !.stopAt = stop,
                           !.killAt = stop - KillSettle]

\* One turn of the loop that does not sleep.
Poll ==
    /\ gate = "polls"
    /\ \/ /\ exceeded
          /\ Break("output")
          /\ UNCHANGED groupVars
       \/ /\ ~ exceeded /\ unread
          /\ Break("read")
          /\ UNCHANGED groupVars
       \/ /\ ~ exceeded /\ ~ unread /\ proc["leader"] = "zombie"
          /\ Break(IF status = "ok" THEN "success" ELSE "exited")
          /\ proc' = Reaped
          /\ UNCHANGED <<group, doomed, status, holders, written, readerVars, faulty, clock>>
       \/ /\ ~ exceeded /\ ~ unread /\ proc["leader"] = "runs" /\ clock >= Deadline
          /\ Break("timeout")
          /\ UNCHANGED groupVars
       \/ /\ ~ exceeded /\ ~ unread /\ faulty
          /\ Break("wait")
          /\ faulty' = FALSE
          /\ UNCHANGED <<processVars, written, readerVars, clock>>
    /\ UNCHANGED <<gateVars, evidenceVars>>

\* What supervise_with returns for output that is complete or not.
Outcome(pending) ==
    IF pending # "success" THEN pending
    ELSE IF exceeded THEN "output"
    ELSE IF unread THEN "read"
    ELSE IF \A i \in DOMAIN kept["stdout"] : kept["stdout"][i] # "marker" THEN "proof"
    ELSE "receipt"

\* The run is over: its retained output is written.
Supervised(reaped, killed) ==
    /\ gate' = "write"
    /\ sup' = [sup EXCEPT !.reaped = reaped, !.killed = killed]
    /\ failure' = (~ reaped \/ Outcome(sup.pending) # "receipt")
    /\ queue' = LogsOf(run)
    /\ UNCHANGED <<run, binary, captured, ran, restored, attempt, file, onDisk, linked, verdict>>

\* The turn finds nothing left to wait for.
CleanEnds == Forget /\ Supervised(TRUE, sup.killed)

\* Mutant of Waits: the cleanup has no deadline.
WaitsOn(processes) ==
    LET kills == ~ sup.killed /\ clock >= sup.killAt IN
    /\ proc' = processes
    /\ IF kills THEN KillGroup ELSE UNCHANGED <<group, doomed>>
    /\ sup' = [sup EXCEPT !.killed = @ \/ kills]
    /\ UNCHANGED <<gate, gateVars, evidenceVars, status, holders,
                   written, readerVars, faulty, clock>>

\* It does not: SIGKILL in time, and the end of waiting in the end.
Waits(processes) ==
    LET kills == ~ sup.killed /\ clock >= sup.killAt IN
    IF clock >= sup.stopAt
      THEN Forget /\ Supervised(FALSE, sup.killed \/ kills)
      ELSE /\ proc' = processes
           /\ IF kills THEN KillGroup ELSE UNCHANGED <<group, doomed>>
           /\ sup' = [sup EXCEPT !.killed = @ \/ kills]
           /\ UNCHANGED <<gate, gateVars, evidenceVars, status, holders,
                          written, readerVars, faulty, clock>>

\* Mutant of Clean: it is enough that the leader is reaped.
CleanLeaderOnly ==
    LET processes == IF proc["leader"] = "zombie" THEN Reaped ELSE proc IN
    /\ gate = "cleans"
    /\ IF processes["leader"] = "gone" /\ reading = {}
         THEN CleanEnds
         ELSE Waits(processes)

\* One turn of the loop of cleanup_group.  What it looks at one after the
\* other stays so once it is: the leader reaped, the group gone, the readers
\* finished.  (A try_wait that fails makes a turn that finds no end.)
Clean ==
    LET processes == IF proc["leader"] = "zombie" THEN Reaped ELSE proc IN
    /\ gate = "cleans"
    /\ IF processes["leader"] = "gone" /\ GroupGone(processes) /\ reading = {}
         THEN CleanEnds
         ELSE Waits(processes)

-----------------------------------------------------------------------------
(* run_gate *)

\* The provenance and the program are captured, or one of them cannot be.
Capture ==
    /\ gate = "start"
    /\ \/ gate' = "verify" /\ captured' = binary /\ run' = 1
       \/ gate' = "over" /\ UNCHANGED <<captured, run>>
    /\ UNCHANGED <<sup, failure, binary, ran, restored, groupVars, evidenceVars>>

\* verify_artifact.
Verify ==
    /\ gate = "verify"
    /\ IF binary = captured
         THEN gate' = "launch" /\ UNCHANGED <<failure, queue>>
         ELSE gate' = "write" /\ failure' = TRUE /\ queue' = LogsOf(run)
    /\ UNCHANGED <<sup, run, binary, captured, ran, restored, groupVars,
                   attempt, file, onDisk, linked, verdict>>

Launch ==
    /\ gate = "launch"
    /\ gate' = "polls"
    /\ sup' = Idle
    /\ ran' = Append(ran, binary)
    /\ Spawn
    /\ UNCHANGED <<run, failure, binary, captured, restored, evidenceVars>>

LaunchFails ==
    /\ gate = "launch"
    /\ gate' = "write"
    /\ failure' = TRUE
    /\ queue' = LogsOf(run)
    /\ UNCHANGED <<sup, run, binary, captured, ran, restored, groupVars,
                   attempt, file, onDisk, linked, verdict>>

\* The run is entered; the next one, or the report.
Written ==
    /\ gate = "write"
    /\ queue = << >>
    /\ IF failure \/ run = Repeats
         THEN /\ gate' = "report"
              /\ verdict' = IF failure THEN "failed" ELSE "passed"
              /\ queue' = <<Receipt>>
              /\ UNCHANGED run
         ELSE /\ gate' = "verify"
              /\ run' = run + 1
              /\ UNCHANGED <<verdict, queue>>
    /\ UNCHANGED <<sup, failure, binary, captured, ran, restored, groupVars,
                   attempt, file, onDisk, linked>>

Reported ==
    /\ gate = "report"
    /\ queue = << >>
    /\ gate' = "over"
    /\ UNCHANGED <<sup, gateVars, groupVars, evidenceVars>>

\* write_file; if it fails, run_gate returns with it.
NativePut ==
    /\ gate \in {"write", "report"}
    /\ \/ (Link \/ SyncDirectory) /\ UNCHANGED gate
       \/ PutFails /\ gate' = "over"
    /\ UNCHANGED <<sup, gateVars, groupVars>>

\* What was started last is not what was captured.
Misled == ran # << >> /\ ran[Len(ran)] # captured

\* cargo build, run by someone else, or an earlier build put back in place.
\* (A build during a run is not looked at before the run is over.)
Rebuild ==
    /\ gate \notin {"start", "polls", "cleans"}
    /\ binary' \in 1 .. MaxBuilds \ {binary}
    /\ restored' = (restored \/ (binary' = captured /\ Misled))
    /\ UNCHANGED <<gate, sup, run, failure, captured, ran, groupVars, evidenceVars>>

NativeNext ==
    \/ Capture \/ Verify \/ Launch \/ LaunchFails
    \/ Poll \/ Clean
    \/ Written \/ Reported \/ NativePut
    \/ Rebuild
    \/ /\ gate \in {"polls", "cleans"}
       /\ GroupNext \/ OutputNext \/ \E how \in {"ok", "failed"} : Ends("leader", how)
       /\ UNCHANGED <<nativeVars, evidenceVars>>
===============================================================================
