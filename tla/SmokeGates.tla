------------------------------- MODULE SmokeGates -------------------------------
(***************************************************************************)
(* xtask's two smoke tests.  They are commands of one program, run one at  *)
(* a time, and share what they supervise and how they leave evidence.      *)
(***************************************************************************)
EXTENDS NativeSmoke, PackageSmoke

VARIABLE tool    \* the command: "native-smoke" or "package smoke-row"

vars == <<tool, nativeVars, packageVars, groupVars, evidenceVars>>

Init ==
    /\ tool \in {"native", "package"}
    /\ NativeInit
    /\ PackageInit
    /\ kind = "none" <=> tool = "native"
    /\ NoProcess
    /\ NoEvidence

Next ==
    \/ tool = "native" /\ NativeNext /\ UNCHANGED <<tool, packageVars>>
    \/ tool = "package" /\ PackageNext /\ UNCHANGED <<tool, nativeVars>>

Spec == Init /\ [][Next]_vars

\* The supervising threads run, time passes and SIGKILL arrives; nothing else
\* is taken for granted of the processes, their output, or the readers.
FairSpec ==
    /\ Spec
    /\ WF_vars(tool = "native" /\ (Poll \/ Clean) /\ UNCHANGED <<tool, packageVars>>)
    /\ WF_vars(tool = "package" /\ (Supervise \/ WaitKilled) /\ UNCHANGED <<tool, nativeVars>>)
    /\ WF_vars(Tick /\ UNCHANGED <<tool, nativeVars, packageVars, evidenceVars>>)
    /\ \A p \in Process :
          WF_vars(Killed(p) /\ UNCHANGED <<tool, nativeVars, packageVars, evidenceVars>>)

\* Readers, too, go on reading.
ReadingSpec ==
    /\ FairSpec
    /\ \A s \in Stream :
          WF_vars((Read(s) \/ ReadEnd(s)) /\ UNCHANGED <<tool, nativeVars, packageVars, evidenceVars>>)

TypeOK == NativeTypeOK /\ PackageTypeOK /\ ProcessesTypeOK /\ EvidenceTypeOK

-----------------------------------------------------------------------------
(* Properties *)

(***************************************************************************)
(* Evidence of the native gate that says `reaped` is true: no process of   *)
(* the group is left, whatever it ignored and whoever outlived its leader; *)
(* nobody, in the group or gone from it, can still write; and what is      *)
(* retained is all that was written, unless a limit or an error is         *)
(* reported (supervise_with, cleanup_group; the tests of xtask,            *)
(* tests/native_smoke.rs:94, 105).                                         *)
(***************************************************************************)
ReapedMeansGone ==
    [][gate = "cleans" /\ gate' = "write" /\ sup'.reaped
         => /\ \A p \in group : proc[p] = "gone" \/ (p = "leader" /\ proc[p] = "zombie")
            /\ unread \/ \A s \in Stream : holders[s] = {}
            /\ exceeded \/ unread \/ kept = written]_vars

(***************************************************************************)
(* Supervision returns however the processes behave: supervise_with        *)
(* always, supervise_child up to where execute joins the readers, unless   *)
(* the command has left the group that SIGKILL is sent to: child.wait then *)
(* waits for it for ever.                                                  *)
(***************************************************************************)
SupervisionEnds ==
    gate \in {"polls", "cleans"} \/ phase \in {"supervise", "wait"}
      ~> \/ gate \notin {"polls", "cleans"} /\ phase \notin {"supervise", "wait"}
         \/ phase = "wait" /\ "leader" \notin group

(***************************************************************************)
(* A passed report is about the executable it names.  The native gate has  *)
(* run the captured build every time but, if it was replaced after the     *)
(* last verification, the last, unless it was replaced and put back where  *)
(* no verification looks.  The package row has opened the expected         *)
(* executable, which stayed it until it was removed, with what is at the   *)
(* install target where that is looked at, and detached the image, unless  *)
(* a process that nobody waits for was left to meddle.                     *)
(***************************************************************************)
PassedIsTrue ==
    verdict = "passed" =>
      /\ tool = "native" => /\ Len(ran) = Repeats
                            /\ restored \/ \A i \in 1 .. Repeats - 1 : ran[i] = captured
      /\ tool = "package" /\ installed # "unknown" =>
            /\ opened = {"expected"}
            /\ ~ BinaryExists(installed)
            /\ kind # "rootdeb" => installed = "none"
            /\ ~ mounted

\* The files a receipt refers to.
Named == {n \in Logs : n[1] <= IF tool = "native" THEN run ELSE 3}

(***************************************************************************)
(* Whatever is lost, a receipt that is found has its evidence with it, of  *)
(* the attempt it is about (write_file, write_create_only).                *)
(***************************************************************************)
EvidenceIsOwn ==
    \A a \in onDisk[Receipt] \ {0} : \A n \in Named : onDisk[n] = {a}

\* The comment of run_smoke: "Uninstall (always runs for cleanup)".
UninstallRuns == tool = "package" /\ phase = "over" /\ BinaryExists(installed) => stage \in {0, 3}

\* What every receipt of the row says: `reaped`.
RowReaped ==
    [][phase = "join" /\ phase' \in {"command", "record"} => \A p \in Process : proc[p] # "runs"]_vars

\* The comment of execute: "deadline enforcement".
ExecuteReturns == phase = "join" ~> phase # "join"
===============================================================================
