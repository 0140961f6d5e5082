------------------------------ MODULE PreviewHost ------------------------------
(***************************************************************************)
(* The page beside the macOS editor: PreviewHost (preview_host.rs), the    *)
(* web view it serves, the bounded queue of the frames the page sends back *)
(* (PreviewIpcIngress, platform/macos.rs), and the two panes scrolling     *)
(* after each other (platform/macos/native.rs).                            *)
(*                                                                         *)
(* Staging a page takes the authority from the page in the web view; the   *)
(* new one has it once the web view asks to navigate there.  Frames carry  *)
(* a revision and nothing else; the page that sent one is kept here to say *)
(* whose it was.  When pages are rendered is the matter of MacPreview: here *)
(* one that was submitted may be accepted whenever its revision is the     *)
(* editor's, or never.                                                     *)
(***************************************************************************)
EXTENDS Naturals, Sequences

CONSTANTS
    MaxDoc,     \* documents loaded or created in a run
    MaxRev,     \* edits made to one document
    Capacity    \* preview_ipc_channel(8)

ASSUME HostAssumption ==
    MaxDoc \in Nat \ {0} /\ MaxRev \in Nat /\ Capacity \in Nat \ {0}

Doc  == 1 .. MaxDoc
Page == [doc : Doc, rev : 0 .. MaxRev]

VARIABLES
    doc,        \* the document in the editor
    loaded,     \* documents 1 .. loaded have been loaded or created
    rev,        \* the revision of every document
    submitted,  \* the pages the renderer was asked for
    staged,     \* host.document: the page that is served
    navigating, \* host.pending_navigation is its URL
    authority,  \* host.loaded_revision
    map,        \* session.scroll: the page its blocks were measured in
    fetching,   \* the web view loads "nothing", the "staged" page, an "older"
    view,       \* the page in the web view: at most one Shown
    ipc,        \* the frames it sent, oldest first
    lost,       \* health.fatal
    polling,    \* about_to_wait empties the queue
    painted,    \* the page whose painted frame was heard last
    exited      \* self.fail has stopped the event loop

documents == <<doc, loaded, rev>>
host  == <<staged, navigating, authority, map>>
web   == <<fetching, view>>
queue == <<ipc, lost, polling>>
vars  == <<documents, submitted, host, web, queue, painted, exited>>

\* due: what the script will send of itself; programmatic: it is about to
\* report a scroll it was told to make.
Shown == [page : Page, due : {"bridge_ready", "painted", "nothing"},
          programmatic : BOOLEAN]

Frame == [kind : {"bridge_ready", "painted", "link_activated", "scroll"},
          page : Page, user : BOOLEAN]

Current == [doc |-> doc, rev |-> rev[doc]]

\* The first page is staged before the window and its web view are made.
Init ==
    /\ doc = 1 /\ loaded = 1 /\ rev = [d \in Doc |-> 0]
    /\ submitted = {}
    /\ staged = Current
    /\ navigating = TRUE /\ authority = {} /\ map = {staged}
    /\ fetching = "nothing" /\ view = {}
    /\ ipc = <<>> /\ lost = FALSE /\ polling = FALSE
    /\ painted = {}
    /\ exited = FALSE

Handling == ~exited /\ ~polling

-----------------------------------------------------------------------------
(* The editor and the renderer *)

\* Typing and the shared edits.
Edit ==
    /\ Handling
    /\ rev[doc] < MaxRev
    /\ rev' = [rev EXCEPT ![doc] = @ + 1]
    /\ UNCHANGED doc
    /\ submitted' = submitted \cup {Current'}
    /\ UNCHANGED <<loaded, host, web, queue, painted, exited>>

\* A document at revision 0 is in the editor, and there is no map.
Install ==
    /\ loaded < MaxDoc
    /\ loaded' = loaded + 1
    /\ doc' = loaded'
    /\ UNCHANGED rev
    /\ map' = {}
    /\ UNCHANGED <<staged, navigating, authority, web, queue, painted, exited>>

\* Opening and reloading: the new document is submitted.
Load ==
    /\ Handling
    /\ Install
    /\ submitted' = submitted \cup {Current'}

\* The recovered text is put in place of the text in the editor, at revision
\* 0, however many tabs there are; what is submitted is the text it replaces.
\* (The program asks for it once, here it may at any time.)
Recover ==
    /\ Handling
    /\ Install
    /\ submitted' = submitted \cup {Current}

\* Opening when every tab is taken: the document stays, without a map.
OpenAtCap ==
    /\ Handling
    /\ map' = {}
    /\ UNCHANGED <<documents, submitted, staged, navigating, authority, web, queue, painted, exited>>

\* The tab commands leave the map alone.
Switch ==
    /\ Handling
    /\ \/ loaded < MaxDoc /\ loaded' = loaded + 1 /\ doc' = loaded'
       \/ doc' \in 1 .. loaded /\ doc' # doc /\ UNCHANGED loaded
    /\ UNCHANGED <<rev, submitted, host, web, queue, painted, exited>>

\* Mutant of Stage: the old page keeps its authority until the new one loads.
StageBeside(p) ==
    /\ staged' = p
    /\ map' = {p}
    /\ navigating' = TRUE
    /\ fetching' = IF fetching = "nothing" THEN "nothing" ELSE "older"
    /\ UNCHANGED authority

\* stage_document, the scroll map of the page, and load_url.
Stage(p) ==
    /\ staged' = p
    /\ map' = {p}
    /\ navigating' = TRUE
    /\ authority' = {}
    /\ fetching' = IF fetching = "nothing" THEN "nothing" ELSE "older"

\* A completion is accepted: revision and job agree with the scheduler's, the
\* document may be another that had them.
Accept ==
    /\ Handling
    /\ \E p \in submitted :
         /\ p.rev = rev[doc]
         /\ submitted' = submitted \ {p}
         /\ Stage(p)
    /\ UNCHANGED <<documents, view, queue, painted, exited>>

-----------------------------------------------------------------------------
(* The web view *)

\* allow_navigation, asked for the last URL given to load_url.  (An earlier
\* one is refused, which changes nothing.)
Navigate ==
    /\ Handling
    /\ navigating
    /\ navigating' = FALSE
    /\ authority' = {staged.rev}
    /\ fetching' = "staged"
    /\ UNCHANGED <<documents, submitted, staged, map, view, queue, painted, exited>>

\* serve: the staged page, or a 404 for one that was staged before it, if the
\* web view still asks for that.
Serve ==
    /\ Handling
    /\ fetching # "nothing"
    /\ fetching' = "nothing"
    /\ IF fetching = "staged"
         THEN view' = {[page |-> staged, due |-> "bridge_ready", programmatic |-> FALSE]}
         ELSE view' \in {view, {}}
    /\ UNCHANGED <<documents, submitted, host, queue, painted, exited>>

\* Mutant of Push: what does not fit is forgotten, of whatever kind.
PushOrForget(f) ==
    /\ ipc' = IF Len(ipc) < Capacity THEN Append(ipc, f) ELSE ipc
    /\ lost' = lost

\* try_push: a full queue may lose a scroll frame; losing another is fatal.
Push(f) ==
    /\ ipc' = IF Len(ipc) < Capacity THEN Append(ipc, f) ELSE ipc
    /\ lost' = (lost \/ (Len(ipc) = Capacity /\ f.kind # "scroll"))

\* bridge.js: bridge_ready when the page is parsed, painted two frames later.
Report ==
    /\ Handling
    /\ \E v \in view :
         /\ v.due # "nothing"
         /\ Push([kind |-> v.due, page |-> v.page, user |-> FALSE])
         /\ view' = {[v EXCEPT !.due = IF v.due = "bridge_ready" THEN "painted" ELSE "nothing"]}
    /\ UNCHANGED <<documents, submitted, host, fetching, polling, painted, exited>>

\* emitScroll, after a scroll of the user's or one that receiveScrollTo made.
Scrolled ==
    /\ Handling
    /\ \E v \in view :
         /\ Push([kind |-> "scroll", page |-> v.page, user |-> ~v.programmatic])
         /\ view' = {[v EXCEPT !.programmatic = FALSE]}
    /\ UNCHANGED <<documents, submitted, host, fetching, polling, painted, exited>>

\* The user clicks a link.
Activated ==
    /\ Handling
    /\ \E v \in view : Push([kind |-> "link_activated", page |-> v.page, user |-> TRUE])
    /\ UNCHANGED <<documents, submitted, host, web, polling, painted, exited>>

-----------------------------------------------------------------------------
(* The event loop *)

\* receiveScrollTo, in the page that is in the web view when the script runs:
\* a page of another revision ignores it.
ScrollTo(r) ==
    view' = {IF v.page.rev = r THEN [v EXCEPT !.programmatic = TRUE] ELSE v : v \in view}

\* The user scrolls the source pane.  The host refuses a scroll for another
\* page than the one with authority, and the event loop ends.
SourceScroll ==
    /\ Handling
    /\ \E m \in map :
         \/ authority = {m.rev} /\ ScrollTo(m.rev) /\ UNCHANGED exited
         \/ authority # {m.rev} /\ exited' = TRUE /\ UNCHANGED view
    /\ UNCHANGED <<documents, submitted, host, fetching, queue, painted>>

\* about_to_wait: take_fatal, and if there is none the queue.
AboutToWait ==
    /\ Handling
    /\ \/ lost /\ lost' = FALSE /\ exited' = TRUE /\ UNCHANGED polling
       \/ ~lost /\ polling' = TRUE /\ UNCHANGED <<lost, exited>>
    /\ UNCHANGED <<documents, submitted, host, web, ipc, painted>>

\* handle_ipc: the frame has the revision of the page with authority.
Heard(f) == authority = {f.page.rev}

\* The frame of a user's scroll, while there is a map.
Follows(f) == Heard(f) /\ f.kind = "scroll" /\ f.user /\ map # {}

\* preview_scroll and scroll_to_byte: the source pane moves, or refuses a map
\* of another revision, or a place that its text does not have.
Follow ==
    \E m \in map :
      \/ m.rev = rev[doc] /\ UNCHANGED exited
      \/ m # Current /\ exited' = TRUE

\* The next frame.  bridge_ready is answered with the top line of the source
\* pane, which has one for its own revision only.
Frames ==
    /\ polling /\ ipc # <<>>
    /\ ipc' = Tail(ipc)
    /\ LET f == Head(ipc) IN
         /\ \/ Follows(f) /\ Follow /\ UNCHANGED view
            \/ /\ Heard(f) /\ f.kind = "bridge_ready"
               /\ IF rev[doc] = f.page.rev
                    THEN ScrollTo(f.page.rev) /\ UNCHANGED exited
                    ELSE exited' = TRUE /\ UNCHANGED view
            \/ /\ ~Follows(f)
               /\ Heard(f) => f.kind # "bridge_ready"
               /\ UNCHANGED <<view, exited>>
         /\ painted' = IF Heard(f) /\ f.kind = "painted" THEN {f.page} ELSE painted
    /\ UNCHANGED <<documents, submitted, host, fetching, lost, polling>>

Polled ==
    /\ polling /\ ipc = <<>>
    /\ polling' = FALSE
    /\ UNCHANGED <<documents, submitted, host, web, ipc, lost, painted, exited>>

Next ==
    \/ Edit \/ Load \/ Recover \/ OpenAtCap \/ Switch \/ Accept
    \/ Navigate \/ Serve \/ Report \/ Scrolled \/ Activated
    \/ SourceScroll \/ AboutToWait \/ Frames \/ Polled

Spec == Init /\ [][Next]_vars

\* Every pass of the run loop delivers the callbacks of the web view and calls
\* about_to_wait, however many events come between, and that returns.
FairSpec ==
    /\ Spec
    /\ WF_vars(Frames \/ Polled)
    /\ SF_vars(Navigate \/ Serve \/ Report)
    /\ SF_vars(AboutToWait)

-----------------------------------------------------------------------------
(* Properties *)

\* The types of the state.
TypeOK ==
    /\ doc \in Doc /\ loaded \in Doc /\ doc <= loaded
    /\ rev \in [Doc -> 0 .. MaxRev]
    /\ submitted \subseteq Page /\ staged \in Page
    /\ navigating \in BOOLEAN /\ authority \subseteq 0 .. MaxRev
    /\ map \subseteq Page
    /\ fetching \in {"nothing", "staged", "older"} /\ view \subseteq Shown
    /\ ipc \in Seq(Frame) /\ lost \in BOOLEAN /\ polling \in BOOLEAN
    /\ painted \subseteq Page /\ exited \in BOOLEAN

\* While one document is loaded, the source pane only ever follows a frame of
\* the page its scroll map was measured in: the frames of the page before,
\* still in the queue, are not taken for frames of the page that was staged
\* meanwhile.  (Once there are two it may be a frame of the other document's
\* page, of the same revision: HeardIsStaged.)
ScrollsAgree ==
    loaded = 1 =>
      \A i \in DOMAIN ipc :
        Follows(ipc[i]) => ipc[i].page \in map

\* The last page that was staged is loaded, sends its frames, and they are
\* heard, whatever was staged, scrolled or dropped before; or the loss of one
\* has ended the program.
PageIsPainted ==
    []<>(exited \/ painted = {staged})

\* A frame that comes late is dropped, "transient" (native.rs:2460), and so is
\* a scroll that cannot be delivered any more.
LateFramesAreDropped == [][Frames \/ SourceScroll => exited' = exited]_vars

\* A frame is only heard from the page that is staged ("the old document
\* loses IPC authority as soon as a newer revision is staged",
\* preview_host.rs:146).
HeardIsStaged == [][Frames /\ Heard(Head(ipc)) => Head(ipc).page = staged]_vars
================================================================================
