------------------------------ MODULE MacPreview ------------------------------
(***************************************************************************)
(* The render pipeline as the macOS shell drives it (platform/macos.rs,    *)
(* platform/macos/native.rs).  Every handler runs on the main thread: it   *)
(* submits with time stamp 0, so that the quiet period has always passed,  *)
(* starts the job at once if none is running, and drains the completions,  *)
(* as about_to_wait does between the handlers.  Opening a document makes a *)
(* new scheduler; the worker and what it holds stay.                       *)
(***************************************************************************)
EXTENDS RenderPipeline

CONSTANT MaxTabs    \* MAX_OPEN_DOCUMENTS, which is 16

ASSUME TabsAssumption == MaxTabs \in Nat \ {0, 1}

VARIABLES
    tabs,       \* the documents of the open tabs
    deciding,   \* a recovered document waits for the user's decision
    turn,       \* the main thread waits for events, or drains completions
    exited      \* self.fail has stopped the event loop

vars == <<pipeline, tabs, deciding, turn, exited>>

MacInit ==
    /\ Init
    /\ tabs = {1}
    /\ deciding \in BOOLEAN
    /\ turn = "events"
    /\ exited = FALSE

Handling == ~exited /\ turn = "events"

\* Typing starts the job and waits for the next drain; formatting, replacing
\* and the other shared edits drain at once.
Edit ==
    /\ Handling
    /\ ~deciding
    /\ Commit
    /\ StartReady(running, Submitted(Current', TRUE), nextId)
    /\ exited' = Refused(running, Submitted(Current', TRUE))
    /\ turn' \in {"events", "drain"}
    /\ UNCHANGED <<executing, completed, results, tabs, deciding>>

\* Opening a file or reloading it by hand: a new scheduler, and the document
\* in a new tab or in place of the one that had the path.
Open ==
    /\ Handling
    /\ Install
    /\ \E gone \in SUBSET tabs :
         /\ Cardinality(gone) <= 1
         /\ gone = {} => Cardinality(tabs) < MaxTabs
         /\ tabs' = (tabs \ gone) \cup {doc'}
    /\ StartReady({}, Submitted(Current', TRUE), 0)
    /\ exited' = Refused({}, Submitted(Current', TRUE))
    /\ turn' = "drain"
    /\ UNCHANGED <<executing, completed, results, deciding>>

\* ... or neither, when every tab is taken: the new scheduler stays empty.
OpenAtCap ==
    /\ Handling
    /\ Cardinality(tabs) = MaxTabs
    /\ running' = {} /\ pending' = {} /\ nextId' = 0
    /\ turn' = "drain"
    /\ UNCHANGED <<documents, worker, results, tabs, deciding, exited>>

\* The file changed on disk and was clean in the editor.  A refused job is
\* logged only, and the completions wait for the next about_to_wait.
ExternalReload ==
    /\ Handling
    /\ Install
    /\ tabs' = (tabs \ {doc}) \cup {doc'}
    /\ StartReady({}, Submitted(Current', TRUE), 0)
    /\ UNCHANGED <<executing, completed, results, deciding, turn, exited>>

\* The recovered document is adopted: what is queued is the text in the
\* editor, and then the recovered text is set.
Recover ==
    /\ Handling
    /\ deciding
    /\ deciding' = FALSE
    /\ Install
    /\ tabs' = (tabs \ {doc}) \cup {doc'}
    /\ StartReady({}, Submitted(Current, TRUE), 0)
    /\ exited' = Refused({}, Submitted(Current, TRUE))
    /\ turn' = "drain"
    /\ UNCHANGED <<executing, completed, results>>

Dismiss ==
    /\ Handling
    /\ deciding
    /\ deciding' = FALSE
    /\ UNCHANGED <<pipeline, tabs, turn, exited>>

\* refresh_after_document_swap after a tab command: a job that is pending is
\* started, nothing is submitted.
Refresh ==
    /\ StartReady(running, pending, nextId)
    /\ exited' = Refused(running, pending)
    /\ turn' = "drain"
    /\ UNCHANGED <<executing, completed, results, deciding>>

NewTab ==
    /\ Handling
    /\ Cardinality(tabs) < MaxTabs
    /\ Install
    /\ tabs' = tabs \cup {doc'}
    /\ Refresh

SwitchTab ==
    /\ Handling
    /\ doc' \in tabs
    /\ UNCHANGED <<loaded, rev, tabs>>
    /\ Refresh

CloseTab ==
    /\ Handling
    /\ \E d \in tabs :
         /\ tabs' = tabs \ {d}
         /\ doc' \in IF d = doc THEN tabs' ELSE {doc}
    /\ UNCHANGED <<loaded, rev>>
    /\ Refresh

\* drain_render_completions.  A failure, and a page whose blocks do not fit,
\* stop the event loop.
Drain ==
    /\ ~exited
    /\ turn' = "events"
    /\ \/ \E fits \in BOOLEAN :
            /\ Finish(fits)
            /\ exited' = \E c \in completed : Accepted(c) /\ (~c.ok \/ ~fits)
       \/ completed = {} /\ UNCHANGED <<running, completed, results, exited>>
    /\ UNCHANGED <<documents, pending, nextId, request, executing, tabs, deciding>>

Worker == (Take \/ Deliver) /\ UNCHANGED <<tabs, deciding, turn, exited>>

MacNext ==
    \/ Edit \/ Open \/ OpenAtCap \/ ExternalReload \/ Recover \/ Dismiss
    \/ NewTab \/ SwitchTab \/ CloseTab
    \/ Drain \/ Worker

Spec == MacInit /\ [][MacNext]_vars

\* The event loop comes round (it waits five seconds at most), and the worker
\* goes on.
FairSpec == Spec /\ WF_vars(Drain) /\ WF_vars(Worker)

-----------------------------------------------------------------------------
(* Properties *)

\* The types of the pipeline and of the shell.
TypeOK ==
    /\ SlotsTyped
    /\ tabs \subseteq 1 .. loaded /\ doc \in tabs
    /\ Cardinality(tabs) <= MaxTabs
    /\ deciding \in BOOLEAN /\ exited \in BOOLEAN /\ turn \in {"events", "drain"}

\* Until another document comes into the editor the scheduler and the worker
\* agree on the one job there is, and the text in the editor is not dropped,
\* although edits made during a job wait for the next one.
FirstDocumentKept == loaded = 1 => OneOutstanding /\ CurrentInPipeline

\* A document too large to preview, or one that does not render, is shown as
\* such; the editor stays (build-plan.md:194).
AppSurvives == ~exited

\* A tab that is switched to is rendered, or was (architecture.md:52: the
\* shell must "reschedule render").
TabIsRendered ==
    [][doc' # doc /\ loaded' = loaded /\ ~exited' => CurrentInPipeline']_vars

\* Adopting the recovered document queues its text: "the current document's",
\* says queue_current (macos.rs:1545).
RecoveredIsQueued ==
    [][deciding /\ ~deciding' /\ doc' # doc /\ ~exited' => CurrentInPipeline']_vars

\* When the user stops, the preview shows, or reports a failure of, what is
\* in the editor (build-plan.md:327: "accepted final revision=current").
PreviewCatchesUp == []<>(exited \/ Current \in staged \cup failed)
===============================================================================
