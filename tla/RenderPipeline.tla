---------------------------- MODULE RenderPipeline ----------------------------
(***************************************************************************)
(* The background renderer both shells are built from: RenderScheduler     *)
(* (crates/rutile-app/src/render_scheduler.rs), the worker thread with its *)
(* two bounded channels, and the page last handed to the preview.          *)
(* GtkPreview and MacPreview add what the shells do with it.               *)
(*                                                                         *)
(* A rendered page is identified by the document and the revision whose    *)
(* text it shows.  The code compares revisions only; the document is kept  *)
(* here to say what the user sees.                                         *)
(***************************************************************************)
EXTENDS Naturals, FiniteSets

CONSTANTS
    MaxDoc,    \* documents loaded or created in a run
    MaxRev     \* edits made to one document

ASSUME BoundsAssumption == MaxDoc \in Nat \ {0} /\ MaxRev \in Nat

Doc  == 1 .. MaxDoc
Rev  == 0 .. MaxRev
Page == [doc : Doc, rev : Rev]

\* A RenderPermit in the worker, and a CompletedRender: ok, or too large or
\* not renderable.
Job       == [id : Nat, page : Page]
Completed == [id : Nat, page : Page, ok : BOOLEAN]

\* The scheduler's two slots.  quiet: 50 ms have gone by since the submission.
Running == [id : Nat, rev : Rev]
Pending == [page : Page, quiet : BOOLEAN]

VARIABLES
    doc,        \* the document in the editor
    loaded,     \* documents 1 .. loaded have been loaded or created
    rev,        \* the revision of every document
    running,    \* the scheduler's running slot: at most one Running
    pending,    \* its pending slot: at most one Pending
    nextId,     \* next_job_id
    request,    \* the request channel: at most one Job
    executing,  \* what the worker renders: at most one Job
    completed,  \* the completion channel: at most one Completed
    staged,     \* the page last staged for the preview
    failed      \* the page whose failure was last reported

documents == <<doc, loaded, rev>>
scheduler == <<running, pending, nextId>>
worker    == <<request, executing, completed>>
results   == <<staged, failed>>
pipeline  == <<documents, scheduler, worker, results>>

Current == [doc |-> doc, rev |-> rev[doc]]

\* What the worker holds, as jobs.
InWorker == request \cup executing
              \cup {[id |-> c.id, page |-> c.page] : c \in completed}

\* The first page is rendered synchronously before the window is shown.
Init ==
    /\ doc = 1
    /\ loaded = 1
    /\ rev = [d \in Doc |-> 0]
    /\ running = {} /\ pending = {} /\ nextId = 1
    /\ request = {} /\ executing = {} /\ completed = {}
    /\ staged = {[doc |-> 1, rev |-> 0]}
    /\ failed = {}

-----------------------------------------------------------------------------
(* The scheduler *)

\* Mutant of Submitted: an older snapshot that is pending keeps its place.
SubmittedIfFree(p, quiet) ==
    IF pending = {} THEN {[page |-> p, quiet |-> quiet]} ELSE pending

\* submit: the pending slot after it.
Submitted(p, quiet) == {[page |-> p, quiet |-> quiet]}

\* Mutant of StartReady: a newer revision does not wait for the running job.
StartReadyAtOnce(run, pend, id) ==
    IF \E q \in pend : q.quiet
      THEN \E q \in pend :
             /\ nextId' = id + 1
             /\ running' = {[id |-> nextId', rev |-> q.page.rev]}
             /\ pending' = {}
             /\ request' = IF request = {} THEN {[id |-> nextId', page |-> q.page]}
                                           ELSE request
      ELSE /\ running' = run /\ pending' = pend /\ nextId' = id
           /\ UNCHANGED request

\* start_ready on a scheduler with these slots, and submit of its permit to
\* the worker, whose try_send drops the job when the channel is full.
StartReady(run, pend, id) ==
    IF run = {} /\ \E q \in pend : q.quiet
      THEN \E q \in pend :
             /\ nextId' = id + 1
             /\ running' = {[id |-> nextId', rev |-> q.page.rev]}
             /\ pending' = {}
             /\ request' = IF request = {} THEN {[id |-> nextId', page |-> q.page]}
                                           ELSE request
      ELSE /\ running' = run /\ pending' = pend /\ nextId' = id
           /\ UNCHANGED request

\* ... in which case the caller sees an error.
Refused(run, pend) == run = {} /\ (\E q \in pend : q.quiet) /\ request # {}

\* The running slot names this completion, and its revision is the editor's.
Known(c)    == [id |-> c.id, rev |-> c.page.rev] \in running
Accepted(c) == Known(c) /\ c.page.rev = rev[doc]

\* finish, and what both shells do with the outcome: a completion of another
\* job than the running one changes nothing (UnknownJob), one of another
\* revision than the editor's is discarded, the rest is staged or reported.
\* Before a page is staged its blocks must fit into the text in the editor
\* (ScrollMap::new); those of another text may not.
Finish(fits) ==
    \E c \in completed :
        /\ fits \/ c.page # Current
        /\ completed' = {}
        /\ running' = IF Known(c) THEN {} ELSE running
        /\ staged' = IF Accepted(c) /\ c.ok /\ fits THEN {c.page} ELSE staged
        /\ failed' = IF Accepted(c) /\ ~c.ok THEN {c.page} ELSE failed

-----------------------------------------------------------------------------
(* The worker thread *)

Take ==
    /\ executing = {}
    /\ request # {}
    /\ executing' = request
    /\ request' = {}
    /\ UNCHANGED <<documents, scheduler, completed, results>>

\* Mutant of Deliver: a second thread takes jobs from the same channel, and
\* the younger job may complete first.
DeliverUnordered ==
    /\ completed = {}
    /\ \E j \in request \cup executing, ok \in BOOLEAN :
         /\ completed' = {[id |-> j.id, page |-> j.page, ok |-> ok]}
         /\ request' = request \ {j}
         /\ executing' = executing \ {j}
    /\ UNCHANGED <<documents, scheduler, results>>

\* The job is rendered and its result sent; a full channel blocks the thread.
Deliver ==
    /\ completed = {}
    /\ \E j \in executing, ok \in BOOLEAN :
         completed' = {[id |-> j.id, page |-> j.page, ok |-> ok]}
    /\ executing' = {}
    /\ UNCHANGED <<documents, scheduler, request, results>>

-----------------------------------------------------------------------------
(* Changes to the documents *)

\* A transaction is applied to the document in the editor.
Commit ==
    /\ rev[doc] < MaxRev
    /\ rev' = [rev EXCEPT ![doc] = @ + 1]
    /\ UNCHANGED <<doc, loaded>>

\* A freshly loaded document, at revision 0, comes into the editor.
Install ==
    /\ loaded < MaxDoc
    /\ loaded' = loaded + 1
    /\ doc' = loaded + 1
    /\ UNCHANGED rev

-----------------------------------------------------------------------------
(* Properties *)

AtMostOne(S) == \A x, y \in S : x = y

\* Every slot and channel holds at most one thing (render_scheduler.rs:162,
\* sync_channel(1)), and of its type.
SlotsTyped ==
    /\ doc \in Doc /\ loaded \in Doc /\ rev \in [Doc -> Rev]
    /\ nextId \in Nat
    /\ running \subseteq Running     /\ AtMostOne(running)
    /\ pending \subseteq Pending     /\ AtMostOne(pending)
    /\ request \subseteq Job         /\ AtMostOne(request)
    /\ executing \subseteq Job       /\ AtMostOne(executing)
    /\ completed \subseteq Completed /\ AtMostOne(completed)
    /\ staged \subseteq Page         /\ AtMostOne(staged)
    /\ failed \subseteq Page         /\ AtMostOne(failed)

\* The scheduler and the worker agree on the one job there is: the running
\* slot names a job the worker holds, and the worker holds no other
\* (build-plan.md:191: "exactly one running job").
OneOutstanding ==
    /\ running = {} => InWorker = {}
    /\ \A r \in running : \E j \in InWorker :
         InWorker = {j} /\ j.id = r.id /\ j.page.rev = r.rev

\* The text in the editor is somewhere on its way: its page is staged, its
\* failure reported, or it is pending or in the job the scheduler runs.  No
\* completion, stale or not, may take the last trace of it away.
CurrentInPipeline ==
    \/ Current \in staged \cup failed
    \/ \E q \in pending : q.page = Current
    \/ \E r \in running, j \in InWorker : j.id = r.id /\ j.page = Current

\* A page is staged only while the editor shows the text it was rendered
\* from (build-plan.md:191: stale results "are dropped without navigation").
AcceptedIsCurrent == [][staged' # staged => staged' = {Current}']_pipeline

\* The preview never falls back to an older page of the same document.
NeverBackwards ==
    [][\A p \in staged, q \in staged' : p.doc = q.doc => p.rev <= q.rev]_pipeline
===============================================================================
