------------------------------ MODULE GtkPreview ------------------------------
(***************************************************************************)
(* The render pipeline as the GTK shell drives it (platform/linux_gtk.rs): *)
(* every change is submitted with the time it was made, and pump_ui_work   *)
(* runs once for every wake-up message, on the main thread.  Wake-ups come *)
(* from events of the editor widget and from the worker thread.            *)
(***************************************************************************)
EXTENDS RenderPipeline

CONSTANT MaxWakes   \* wake-up messages waiting at a time

ASSUME WakesAssumption == MaxWakes \in Nat \ {0}

VARIABLES
    pump,    \* the statement pump_ui_work is at
    wakes    \* wake-up messages in the channel

gtkVars == <<pipeline, pump, wakes>>

GtkInit ==
    /\ Init
    /\ pump = "waiting"
    /\ wakes = 1

\* The pump runs for a wake-up; no edit is waiting ...
Wake ==
    /\ pump = "waiting"
    /\ wakes > 0
    /\ wakes' = wakes - 1
    /\ pump' = "start"
    /\ UNCHANGED pipeline

\* ... or for typing: the commit is applied and submitted (the pump may take
\* 50 ms itself), its acknowledgement asks for a paint, and the paint wakes
\* the pump once more.
WakeWithEdit ==
    /\ pump = "waiting"
    /\ wakes < MaxWakes
    /\ Commit
    /\ \E quiet \in BOOLEAN : pending' = Submitted(Current', quiet)
    /\ wakes' = wakes + 1
    /\ pump' = "start"
    /\ UNCHANGED <<running, nextId, worker, results>>

PumpStart ==
    /\ pump = "start"
    /\ StartReady(running, pending, nextId)
    /\ pump' = "finish"
    /\ UNCHANGED <<documents, executing, completed, results, wakes>>

PumpFinish ==
    /\ pump = "finish"
    /\ \/ \E fits \in BOOLEAN : Finish(fits)
       \/ completed = {} /\ UNCHANGED <<running, completed, results>>
    /\ pump' = "waiting"
    /\ UNCHANGED <<documents, pending, nextId, request, executing, wakes>>

\* Undo, formatting, replacing and the other shared edits submit from their
\* own signal handlers.
SharedEdit ==
    /\ pump = "waiting"
    /\ Commit
    /\ pending' = Submitted(Current', FALSE)
    /\ UNCHANGED <<running, nextId, worker, results, pump, wakes>>

\* Mutant of Open: the new document is not submitted.
OpenUnsubmitted ==
    /\ pump = "waiting"
    /\ Install
    /\ pending' = {}
    /\ UNCHANGED <<running, nextId, worker, results, pump, wakes>>

\* Opening a file, reloading one that changed on disk, adopting a recovered
\* document.
GtkOpen ==
    /\ pump = "waiting"
    /\ Install
    /\ pending' = Submitted(Current', FALSE)
    /\ UNCHANGED <<running, nextId, worker, results, pump, wakes>>

\* 50 ms go by.
Quiet ==
    /\ \E q \in pending : ~q.quiet
    /\ pending' = {[q EXCEPT !.quiet = TRUE] : q \in pending}
    /\ UNCHANGED <<documents, running, nextId, worker, results, pump, wakes>>

\* The caret or the viewport moves, a preedit starts: an event, nothing else.
EditorEvent ==
    /\ wakes < MaxWakes
    /\ wakes' = wakes + 1
    /\ UNCHANGED <<pipeline, pump>>

\* Mutant of WorkerDelivers: the completion does not wake the pump.
WorkerDeliversSilently == Deliver /\ UNCHANGED <<pump, wakes>>

\* A completion wakes the pump.
WorkerDelivers ==
    /\ Deliver
    /\ wakes' = wakes + 1
    /\ UNCHANGED pump

WorkerTakes == Take /\ UNCHANGED <<pump, wakes>>

GtkNext ==
    \/ Wake \/ WakeWithEdit \/ PumpStart \/ PumpFinish
    \/ SharedEdit \/ GtkOpen \/ Quiet \/ EditorEvent
    \/ WorkerTakes \/ WorkerDelivers

GtkSpec == GtkInit /\ [][GtkNext]_gtkVars

\* The main loop delivers its messages, the worker renders, time goes by.
GtkFairSpec == /\ GtkSpec
               /\ WF_gtkVars(Wake) /\ WF_gtkVars(PumpStart) /\ WF_gtkVars(PumpFinish)
               /\ WF_gtkVars(Quiet) /\ WF_gtkVars(WorkerTakes) /\ WF_gtkVars(WorkerDelivers)

-----------------------------------------------------------------------------
(* Properties *)

\* The types of the pipeline and of the pump.
GtkTypeOK == SlotsTyped /\ pump \in {"waiting", "start", "finish"} /\ wakes \in Nat

\* A job that is running is finished in the end and makes room for the next:
\* its completion wakes the pump, whatever is opened or typed meanwhile.
JobsFinish == running # {} ~> running = {}

\* When the user stops, the preview shows, or reports a failure of, what is
\* in the editor (build-plan.md:327: "accepted final revision=current").
GtkCatchesUp == []<>(Current \in staged \cup failed)
===============================================================================
