------------------------------ MODULE PackageSmoke ------------------------------
(***************************************************************************)
(* The package smoke row, xtask/src/package_smoke.rs: a package is         *)
(* installed, opened and uninstalled, each stage by a plan of commands     *)
(* that execute runs in process groups of their own.  The output of every  *)
(* stage and the receipt are written create-only, the row is started again *)
(* in the same directory, and the machine may lose power.  What outlives   *)
(* its command or xtask goes on beside what xtask does next.  What a       *)
(* command writes is retained and decides nothing: nothing is written here.*)
(***************************************************************************)
EXTENDS ProcessGroup, EvidenceFiles

CONSTANT Kinds   \* kinds of package; "rootdeb" is a deb whose install_target
                 \* is the root, or the executable itself

ASSUME SmokeAssumption == Steps >= 3 /\ Kinds \subseteq {"dmg", "tar", "deb", "rootdeb"}

VARIABLES
    phase,     \* where run_smoke is
    kind,      \* the kind of the package, "none" for the other gate
    stage,     \* 1 is install, 2 open, 3 uninstall; 0 before
    plan,      \* the commands of the stage still to be executed
    cleaning,  \* they are its cleanup_on_failure
    timedOut,  \* supervise_child has returned an error
    outcome,   \* the status of each stage; "failed" is TimedOut, too
    observed,  \* the stages after which the binary had the expected hash
    failed,    \* failure is some
    done,      \* the command has done what it is there for
    installed, \* what is at binary_path, or left at install_target, "unknown"
               \* while a process that nobody waits for may be changing it
    mounted,   \* the disk image is attached
    opened     \* history: the executables open was run on, and left

commandVars == <<kind, stage, plan, cleaning>>
machineVars == <<done, installed, mounted, opened>>
rowVars     == <<outcome, observed, failed>>
packageVars == <<phase, commandVars, timedOut, machineVars, rowVars>>

Finding  == {"none", "left", "expected", "other"}
Commands == {"attach", "mkdir", "copy", "detach", "open", "remove"}

PackageTypeOK ==
    /\ phase \in {"start", "command", "supervise", "wait", "join", "record",
                  "publish", "over"}
    /\ kind \in Kinds \cup {"none"}
    /\ stage \in 0 .. 3
    /\ plan \in Seq(Commands)
    /\ cleaning \in BOOLEAN
    /\ timedOut \in BOOLEAN
    /\ outcome \in [1 .. 3 -> {"none", "passed", "failed", "skipped"}]
    /\ observed \subseteq {1, 2}
    /\ failed \in BOOLEAN
    /\ done \in BOOLEAN
    /\ installed \in Finding \cup {"unknown"}
    /\ mounted \in BOOLEAN
    /\ opened \subseteq Finding \cup {"unknown"}

PackageInit ==
    /\ phase = "start"
    /\ kind \in Kinds \cup {"none"}
    /\ stage = 0
    /\ plan = << >>
    /\ cleaning = FALSE
    /\ timedOut = FALSE
    /\ outcome = [i \in 1 .. 3 |-> "none"]
    /\ observed = {}
    /\ failed = FALSE
    /\ done = FALSE
    /\ installed = "none"
    /\ mounted = FALSE
    /\ opened = {}

Managed == kind \in {"deb", "rootdeb"}

\* The plan builders; deb stands for rpm, and for a zip, too.
Plan(i) ==
    CASE i = 1 /\ kind = "dmg" -> <<"attach", "copy", "detach">>
      [] i = 1 /\ kind = "tar" -> <<"mkdir", "copy">>
      [] i = 1 /\ Managed -> <<"copy">>
      [] i = 2 -> <<"open">>
      [] i = 3 -> <<"remove">>

CleanupOnFailure == IF stage = 1 /\ kind = "dmg" THEN <<"detach">> ELSE << >>

\* What a look at the paths may find.
Seen == IF installed = "unknown" THEN Finding ELSE {installed}

BinaryExists(seen) == seen \in {"expected", "other"}

\* What uninstall has left; is_residue_candidate exempts some targets.
Residue(seen) == BinaryExists(seen) \/ (kind # "rootdeb" /\ seen = "left")

-----------------------------------------------------------------------------
(* What the commands do to the machine *)

Command == Head(plan)

\* The command, or its descendant, does its work; what it does is not told
\* from what others do at the same time.
Does ==
    /\ phase \in {"supervise", "wait", "join"}
    /\ \E p \in Process : proc[p] = "runs"
    /\ installed # "unknown"
    /\ ~ done
    /\ done' = TRUE
    /\ CASE Command = "attach" -> mounted' = TRUE /\ UNCHANGED <<installed, opened>>
         [] Command = "detach" -> mounted' = FALSE /\ UNCHANGED <<installed, opened>>
         [] Command = "mkdir" ->
              /\ installed' = IF installed = "none" THEN "left" ELSE installed
              /\ UNCHANGED <<mounted, opened>>
         [] Command = "copy" ->
              /\ kind = "dmg" => mounted
              /\ installed' \in {"expected", "other"}
              /\ UNCHANGED <<mounted, opened>>
         [] Command = "open" ->
              /\ installed' = "other"
              /\ opened' = opened \cup {"other"}
              /\ UNCHANGED mounted
         [] Command = "remove" ->
              /\ installed' \in IF Managed THEN {"none", "left"} ELSE {"none"}
              /\ UNCHANGED <<mounted, opened>>
    /\ UNCHANGED <<phase, commandVars, timedOut, rowVars, groupVars, evidenceVars>>

\* The group is not waited for any more.  A process of it that still runs
\* may go on installing, removing, attaching at any later time.
Abandon ==
    /\ IF \E p \in Process : proc[p] = "runs"
         THEN installed' = "unknown" /\ mounted' = FALSE
         ELSE UNCHANGED <<installed, mounted>>
    /\ Forget

\* A command succeeds when it has done its work; the program that is opened,
\* and a package manager that finds nothing to remove, need not do any.
CommandEnds ==
    /\ phase \in {"supervise", "wait", "join"}
    /\ \/ Ends("leader", "failed")
       \/ /\ done \/ installed = "unknown" \/ Command = "open" \/ (Command = "remove" /\ Managed)
          /\ Ends("leader", "ok")
    /\ UNCHANGED <<packageVars, evidenceVars>>

-----------------------------------------------------------------------------
(* execute and run_stage_plan *)

\* The last command is done with: the output of the stage is recorded.
Record(how) ==
    /\ phase' = "record"
    /\ outcome' = [outcome EXCEPT ![stage] = how]
    /\ queue' = LogsOf(stage)

\* run_stage_plan, when a command of the plan has ended.
Concluded(how) ==
    /\ \/ /\ ~ cleaning /\ how # "passed" /\ CleanupOnFailure # << >>
          /\ outcome' = [outcome EXCEPT ![stage] = how]
          /\ plan' = CleanupOnFailure
          /\ cleaning' = TRUE
          /\ phase' = "command"
          /\ UNCHANGED queue
       \/ /\ ~ cleaning /\ how # "passed" /\ CleanupOnFailure = << >>
          /\ plan' = << >>
          /\ Record(how)
          /\ UNCHANGED cleaning
       \/ /\ cleaning \/ how = "passed"
          /\ plan' = Tail(plan)
          /\ IF Len(plan) > 1
               THEN phase' = "command" /\ UNCHANGED <<outcome, queue>>
               ELSE Record(IF cleaning THEN outcome[stage] ELSE "passed")
          /\ UNCHANGED cleaning
    /\ UNCHANGED <<kind, stage, observed, failed, attempt, file, onDisk, linked, verdict>>

Execute ==
    /\ phase = "command"
    /\ phase' = "supervise"
    /\ timedOut' = FALSE
    /\ done' = FALSE
    /\ opened' = IF Command = "open" THEN opened \cup {installed} ELSE opened
    /\ Spawn
    /\ UNCHANGED <<commandVars, installed, mounted, rowVars, evidenceVars>>

\* The tool is not there or cannot be started.
ExecuteFails ==
    /\ phase = "command"
    /\ Concluded("failed")
    /\ UNCHANGED <<timedOut, machineVars, groupVars>>

\* A turn of supervise_child that does not sleep.
Supervise ==
    /\ phase = "supervise"
    /\ \/ /\ proc["leader"] = "zombie"
          /\ proc' = Reaped
          /\ phase' = "join"
          /\ UNCHANGED <<group, doomed, faulty, timedOut>>
       \/ /\ proc["leader"] = "runs"
          /\ clock >= Deadline + Grace
          /\ KillGroup
          /\ phase' = "wait"
          /\ UNCHANGED <<proc, faulty, timedOut>>
       \/ /\ faulty
          /\ faulty' = FALSE
          /\ phase' = "join"
          /\ timedOut' = TRUE
          /\ UNCHANGED <<proc, group, doomed>>
    /\ UNCHANGED <<status, holders, written, readerVars, clock,
                   commandVars, machineVars, rowVars, evidenceVars>>

\* wait, after SIGKILL.
WaitKilled ==
    /\ phase = "wait"
    /\ proc["leader"] = "zombie"
    /\ proc' = Reaped
    /\ phase' = "join"
    /\ timedOut' = TRUE
    /\ UNCHANGED <<group, doomed, status, holders, written, readerVars, faulty, clock,
                   commandVars, machineVars, rowVars, evidenceVars>>

\* Both readers have been joined: the outcome of the command.
Join ==
    /\ phase = "join"
    /\ reading = {}
    /\ Concluded(IF ~ timedOut /\ status = "ok" THEN "passed" ELSE "failed")
    /\ Abandon
    /\ timedOut' = FALSE
    /\ done' = FALSE
    /\ UNCHANGED opened

-----------------------------------------------------------------------------
(* run_smoke *)

\* A package or a binary that is there already is refused.
Begin ==
    /\ phase = "start"
    /\ \E seen \in Seen :
          IF BinaryExists(seen)
            THEN phase' = "over" /\ UNCHANGED <<stage, plan>>
            ELSE phase' = "command" /\ stage' = 1 /\ plan' = Plan(1)
    /\ UNCHANGED <<kind, cleaning, timedOut, machineVars, rowVars, groupVars, evidenceVars>>

Refuse ==
    /\ phase = "start"
    /\ phase' = "over"
    /\ UNCHANGED <<commandVars, timedOut, machineVars, rowVars, groupVars, evidenceVars>>

Recorded == phase = "record" /\ queue = << >>

\* After install the binary is hashed; without it open is skipped.
Installed ==
    /\ Recorded /\ stage = 1
    /\ stage' = 2
    /\ cleaning' = FALSE
    /\ \E seen \in Seen :
          IF outcome[1] = "passed" /\ seen = "expected"
            THEN /\ observed' = {1}
                 /\ phase' = "command"
                 /\ plan' = Plan(2)
                 /\ UNCHANGED <<outcome, failed, queue>>
            ELSE /\ failed' = TRUE
                 /\ outcome' = [outcome EXCEPT ![2] = "skipped"]
                 /\ queue' = LogsOf(2)
                 /\ UNCHANGED <<phase, plan, observed>>
    /\ UNCHANGED <<kind, timedOut, machineVars, groupVars, attempt, file, onDisk, linked, verdict>>

\* Mutant of Opened: the binary is not hashed again.
OpenedUnhashed ==
    /\ Recorded /\ stage = 2
    /\ stage' = 3
    /\ phase' = "command"
    /\ plan' = Plan(3)
    /\ IF outcome[2] = "passed"
         THEN observed' = observed \cup {2} /\ UNCHANGED failed
         ELSE failed' = TRUE /\ UNCHANGED observed
    /\ UNCHANGED <<kind, cleaning, timedOut, outcome, machineVars, groupVars, evidenceVars>>

\* After open it is hashed again; uninstall comes in any case.
Opened ==
    /\ Recorded /\ stage = 2
    /\ stage' = 3
    /\ phase' = "command"
    /\ plan' = Plan(3)
    /\ \E seen \in Seen :
          IF outcome[2] = "passed" /\ seen = "expected"
            THEN observed' = observed \cup {2} /\ UNCHANGED failed
            ELSE failed' = TRUE /\ UNCHANGED observed
    /\ UNCHANGED <<kind, cleaning, timedOut, outcome, machineVars, groupVars, evidenceVars>>

\* The check for residue, and the receipt.
Uninstalled ==
    /\ Recorded /\ stage = 3
    /\ phase' = "publish"
    /\ \E seen \in Seen : failed' = (failed \/ outcome[3] # "passed" \/ Residue(seen))
    /\ verdict' = IF ~ failed' /\ observed = {1, 2} /\ \A i \in 1 .. 3 : outcome[i] = "passed"
                    THEN "passed" ELSE "failed"
    /\ queue' = <<Receipt>>
    /\ UNCHANGED <<commandVars, timedOut, outcome, observed, machineVars, groupVars,
                   attempt, file, onDisk, linked>>

Published ==
    /\ phase = "publish"
    /\ queue = << >>
    /\ phase' = "over"
    /\ UNCHANGED <<commandVars, timedOut, machineVars, rowVars, groupVars, evidenceVars>>

\* write_create_only; if it fails, run_smoke returns with it.
PackagePut ==
    /\ phase \in {"record", "publish"}
    /\ \/ (Link \/ SyncDirectory) /\ UNCHANGED phase
       \/ PutFails /\ phase' = "over"
    /\ UNCHANGED <<commandVars, timedOut, machineVars, rowVars, groupVars>>

-----------------------------------------------------------------------------
Restarted ==
    /\ phase' = "start"
    /\ stage' = 0
    /\ plan' = << >>
    /\ cleaning' = FALSE
    /\ timedOut' = FALSE
    /\ outcome' = [i \in 1 .. 3 |-> "none"]
    /\ observed' = {}
    /\ failed' = FALSE
    /\ done' = FALSE
    /\ opened' = {}
    /\ UNCHANGED kind

\* xtask returns, or is killed whatever it is waiting for, and is started again.
Again ==
    /\ NextAttempt
    /\ Restarted
    /\ Abandon
    /\ UNCHANGED <<file, onDisk>>

PowerLoss ==
    /\ NextAttempt
    /\ PowerCut
    /\ Restarted
    /\ mounted' = FALSE
    /\ Forget
    /\ installed' \in Seen

PackageNext ==
    \/ Begin \/ Refuse
    \/ Execute \/ ExecuteFails \/ Supervise \/ WaitKilled \/ Join
    \/ Installed \/ Opened \/ Uninstalled \/ Published \/ PackagePut
    \/ Does \/ CommandEnds
    \/ Again \/ PowerLoss
    \/ /\ phase \in {"supervise", "wait", "join"}
       /\ GroupNext
       /\ UNCHANGED <<packageVars, evidenceVars>>
===============================================================================
