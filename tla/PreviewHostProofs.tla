--------------------------- MODULE PreviewHostProofs ---------------------------
(***************************************************************************)
(* PreviewHost keeps its types, and while one document is loaded the       *)
(* source pane follows only the page its map was measured in, for every    *)
(* number of documents and edits and every capacity of the queue.          *)
(***************************************************************************)
EXTENDS PreviewHost, TLAPS

\* The host listens to the staged page's revision or to none, and the map is
\* that of the staged page or there is none.
HostConsistent ==
    /\ authority \subseteq {staged.rev}
    /\ map \subseteq {staged}

\* Every page there is, is one of the first document until another comes.
FirstOnly ==
    loaded = 1 =>
      /\ staged.doc = 1
      /\ \A p \in submitted : p.doc = 1
      /\ \A v \in view : v.page.doc = 1
      /\ \A i \in DOMAIN ipc : ipc[i].page.doc = 1

IInv == TypeOK /\ HostConsistent /\ FirstOnly

-----------------------------------------------------------------------------

\* The page in the editor is a page, of the first document if there is no
\* other.
LEMMA CurrentTyped ==
    ASSUME TypeOK
    PROVE  Current \in Page /\ (loaded = 1 => Current.doc = 1)
  BY HostAssumption DEF TypeOK, Current, Page, Doc

\* What try_push leaves in the queue: the frames that were there and perhaps
\* the new one.
LEMMA PushTyped ==
    ASSUME NEW f \in Frame, ipc \in Seq(Frame), lost \in BOOLEAN, Push(f)
    PROVE  /\ ipc' \in Seq(Frame) /\ lost' \in BOOLEAN
           /\ \A i \in DOMAIN ipc' :
                ipc'[i] = f \/ (i \in DOMAIN ipc /\ ipc'[i] = ipc[i])
  BY DEF Push

\* A script that runs in the page changes no page.
LEMMA ScrollToTyped ==
    ASSUME NEW r, view \subseteq Shown, ScrollTo(r)
    PROVE  /\ view' \subseteq Shown
           /\ \A w \in view' : \E v \in view : w.page = v.page
  BY DEF ScrollTo, Shown

\* The program starts with one document, whose page is staged.
LEMMA InitHolds == Init => IInv
<1>. SUFFICES ASSUME Init PROVE IInv
  OBVIOUS
<1>1. 1 \in Doc /\ 0 \in 0 .. MaxRev
  BY HostAssumption DEF Doc
<1>2. staged = [doc |-> 1, rev |-> 0] /\ staged \in Page
  BY <1>1 DEF Init, Current, Page
<1>3. rev \in [Doc -> 0 .. MaxRev]
  BY <1>1 DEF Init
<1>4. ipc \in Seq(Frame)
  BY DEF Init
<1>5. TypeOK
  <2>1. doc \in Doc /\ loaded \in Doc /\ doc <= loaded
    BY <1>1 DEF Init
  <2>2. submitted \subseteq Page /\ authority \subseteq 0 .. MaxRev /\ map \subseteq Page
    BY <1>2 DEF Init
  <2>3. view \subseteq Shown /\ painted \subseteq Page
    BY DEF Init
  <2>. QED BY <1>2, <1>3, <1>4, <2>1, <2>2, <2>3 DEF Init, TypeOK
<1>6. HostConsistent /\ FirstOnly
  BY <1>2 DEF Init, HostConsistent, FirstOnly
<1>. QED BY <1>5, <1>6 DEF IInv

\* The handlers of the shell: editing, loading, switching, staging.
LEMMA ShellStep ==
    ASSUME IInv, Edit \/ Load \/ Recover \/ OpenAtCap \/ Switch \/ Accept
    PROVE  IInv'
<1>1. CASE Edit
  <2>1. TypeOK'
    <3>1. doc \in Doc /\ rev[doc] + 1 \in 0 .. MaxRev
      BY <1>1, HostAssumption DEF IInv, TypeOK, Edit, Doc
    <3>2. rev' \in [Doc -> 0 .. MaxRev]
      BY <1>1, <3>1 DEF IInv, TypeOK, Edit
    <3>3. Current' \in Page
      BY <1>1, <3>1, <3>2 DEF Edit, Current, Page
    <3>4. submitted' \subseteq Page
      BY <1>1, <3>3 DEF IInv, TypeOK, Edit
    <3>. QED BY <1>1, <3>2, <3>4 DEF IInv, TypeOK, Edit, host, web, queue
  <2>2. HostConsistent'
    BY <1>1 DEF IInv, HostConsistent, Edit, host
  <2>3. FirstOnly'
    BY <1>1, HostAssumption DEF IInv, TypeOK, FirstOnly, Edit, host, web, queue, Current, Doc
  <2>. QED BY <2>1, <2>2, <2>3 DEF IInv
<1>2. CASE Load \/ Recover
  <2>1. Install /\ submitted' \in {submitted \cup {Current}, submitted \cup {Current'}}
    BY <1>2 DEF Load, Recover
  <2>2. loaded' # 1 /\ loaded' \in Doc /\ doc' = loaded' /\ rev' = rev
    BY <2>1, HostAssumption DEF IInv, TypeOK, Install, Doc
  <2>3. Current \in Page /\ Current' \in Page
    BY <2>2, HostAssumption DEF IInv, TypeOK, Current, Page, Doc
  <2>4. submitted' \subseteq Page
    BY <2>1, <2>3 DEF IInv, TypeOK
  <2>5. TypeOK'
    BY <2>1, <2>2, <2>4 DEF IInv, TypeOK, Install, web, queue, Doc
  <2>6. HostConsistent'
    BY <2>1 DEF IInv, HostConsistent, Install
  <2>. QED BY <2>2, <2>5, <2>6 DEF IInv, FirstOnly
<1>3. CASE OpenAtCap
  BY <1>3 DEF IInv, TypeOK, HostConsistent, FirstOnly, OpenAtCap, documents, web, queue
<1>4. CASE Switch
  <2>1. TypeOK' /\ (loaded' = 1 => loaded = 1)
    BY <1>4, HostAssumption DEF IInv, TypeOK, Switch, host, web, queue, Doc
  <2>. QED BY <1>4, <2>1 DEF IInv, HostConsistent, FirstOnly, Switch, host, web, queue
<1>5. CASE Accept
  <2>1. PICK p \in submitted : submitted' = submitted \ {p} /\ Stage(p)
    BY <1>5 DEF Accept
  <2>2. TypeOK'
    BY <1>5, <2>1 DEF IInv, TypeOK, Accept, Stage, documents, queue
  <2>3. HostConsistent'
    BY <2>1 DEF HostConsistent, Stage
  <2>4. FirstOnly'
    BY <1>5, <2>1 DEF IInv, FirstOnly, Accept, Stage, documents, queue
  <2>. QED BY <2>2, <2>3, <2>4 DEF IInv
<1>. QED BY <1>1, <1>2, <1>3, <1>4, <1>5

\* The callbacks of the web view.
LEMMA WebStep ==
    ASSUME IInv, Navigate \/ Serve \/ Report \/ Scrolled \/ Activated
    PROVE  IInv'
<1>1. CASE Navigate
  BY <1>1 DEF IInv, TypeOK, HostConsistent, FirstOnly, Navigate, documents, queue, Page
<1>2. CASE Serve
  <2>. DEFINE new == [page |-> staged, due |-> "bridge_ready", programmatic |-> FALSE]
  <2>1. new \in Shown /\ new.page = staged
    BY DEF IInv, TypeOK, Shown
  <2>2. view' \subseteq view \cup {new}
    BY <1>2 DEF Serve
  <2>. HIDE DEF new
  <2>3. view' \subseteq Shown
    BY <2>1, <2>2 DEF IInv, TypeOK
  <2>4. TypeOK'
    BY <1>2, <2>3 DEF IInv, TypeOK, Serve, documents, host, queue
  <2>5. HostConsistent' /\ FirstOnly'
    BY <1>2, <2>1, <2>2 DEF IInv, HostConsistent, FirstOnly, Serve, documents, host, queue
  <2>. QED BY <2>4, <2>5 DEF IInv
<1>3. CASE Report
  <2>1. PICK v \in view :
          /\ v.due # "nothing"
          /\ Push([kind |-> v.due, page |-> v.page, user |-> FALSE])
          /\ view' = {[v EXCEPT !.due = IF v.due = "bridge_ready" THEN "painted" ELSE "nothing"]}
    BY <1>3 DEF Report
  <2>2. [kind |-> v.due, page |-> v.page, user |-> FALSE] \in Frame
    BY <2>1 DEF IInv, TypeOK, Shown, Frame
  <2>3. view' \subseteq Shown /\ \A w \in view' : w.page = v.page
    <3>1. v \in Shown
      BY DEF IInv, TypeOK
    <3>. QED BY <2>1, <3>1 DEF Shown
  <2>4. /\ ipc' \in Seq(Frame) /\ lost' \in BOOLEAN
        /\ \A i \in DOMAIN ipc' :
             ipc'[i].page = v.page \/ (i \in DOMAIN ipc /\ ipc'[i] = ipc[i])
    <3>1. /\ ipc' \in Seq(Frame) /\ lost' \in BOOLEAN
          /\ \A i \in DOMAIN ipc' :
               \/ ipc'[i] = [kind |-> v.due, page |-> v.page, user |-> FALSE]
               \/ i \in DOMAIN ipc /\ ipc'[i] = ipc[i]
      BY <2>1, <2>2, PushTyped DEF IInv, TypeOK
    <3>. QED BY <3>1
  <2>5. TypeOK'
    BY <1>3, <2>3, <2>4 DEF IInv, TypeOK, Report, documents, host
  <2>6. HostConsistent' /\ FirstOnly'
    BY <1>3, <2>1, <2>3, <2>4 DEF IInv, HostConsistent, FirstOnly, Report, documents, host
  <2>. QED BY <2>5, <2>6 DEF IInv
<1>4. CASE Scrolled
  <2>1. PICK v \in view :
          /\ Push([kind |-> "scroll", page |-> v.page, user |-> ~v.programmatic])
          /\ view' = {[v EXCEPT !.programmatic = FALSE]}
    BY <1>4 DEF Scrolled
  <2>2. [kind |-> "scroll", page |-> v.page, user |-> ~v.programmatic] \in Frame
    BY <2>1 DEF IInv, TypeOK, Shown, Frame
  <2>3. view' \subseteq Shown /\ \A w \in view' : w.page = v.page
    <3>1. v \in Shown
      BY DEF IInv, TypeOK
    <3>. QED BY <2>1, <3>1 DEF Shown
  <2>4. /\ ipc' \in Seq(Frame) /\ lost' \in BOOLEAN
        /\ \A i \in DOMAIN ipc' :
             ipc'[i].page = v.page \/ (i \in DOMAIN ipc /\ ipc'[i] = ipc[i])
    <3>1. /\ ipc' \in Seq(Frame) /\ lost' \in BOOLEAN
          /\ \A i \in DOMAIN ipc' :
               \/ ipc'[i] = [kind |-> "scroll", page |-> v.page, user |-> ~v.programmatic]
               \/ i \in DOMAIN ipc /\ ipc'[i] = ipc[i]
      BY <2>1, <2>2, PushTyped DEF IInv, TypeOK
    <3>. QED BY <3>1
  <2>5. TypeOK'
    BY <1>4, <2>3, <2>4 DEF IInv, TypeOK, Scrolled, documents, host
  <2>6. HostConsistent' /\ FirstOnly'
    BY <1>4, <2>1, <2>3, <2>4 DEF IInv, HostConsistent, FirstOnly, Scrolled, documents, host
  <2>. QED BY <2>5, <2>6 DEF IInv
<1>5. CASE Activated
  <2>1. PICK v \in view : Push([kind |-> "link_activated", page |-> v.page, user |-> TRUE])
    BY <1>5 DEF Activated
  <2>2. [kind |-> "link_activated", page |-> v.page, user |-> TRUE] \in Frame
    BY <2>1 DEF IInv, TypeOK, Shown, Frame
  <2>. QED BY <1>5, <2>1, <2>2, PushTyped
           DEF IInv, TypeOK, HostConsistent, FirstOnly, Activated, documents, host, web
<1>. QED BY <1>1, <1>2, <1>3, <1>4, <1>5

\* The event loop: scrolling, polling, the frames.
LEMMA LoopStep ==
    ASSUME IInv, SourceScroll \/ AboutToWait \/ Frames \/ Polled
    PROVE  IInv'
<1>1. CASE SourceScroll
  <2>1. exited' \in BOOLEAN /\ view' \subseteq Shown /\ \A w \in view' : \E v \in view : w.page = v.page
    BY <1>1, ScrollToTyped DEF IInv, TypeOK, SourceScroll
  <2>. QED BY <1>1, <2>1
           DEF IInv, TypeOK, HostConsistent, FirstOnly, SourceScroll, documents, host, queue
<1>2. CASE AboutToWait
  BY <1>2 DEF IInv, TypeOK, HostConsistent, FirstOnly, AboutToWait, documents, host, web
<1>3. CASE Frames
  <2>1. /\ ipc' \in Seq(Frame)
        /\ \A i \in DOMAIN ipc' : i + 1 \in DOMAIN ipc /\ ipc'[i] = ipc[i + 1]
        /\ Head(ipc) \in Frame
    BY <1>3 DEF IInv, TypeOK, Frames
  <2>2. exited' \in BOOLEAN /\ view' \subseteq Shown /\ \A w \in view' : \E v \in view : w.page = v.page
    BY <1>3, ScrollToTyped DEF IInv, TypeOK, Frames, Follow
  <2>3. painted' \subseteq Page
    BY <1>3, <2>1 DEF IInv, TypeOK, Frames, Frame
  <2>4. TypeOK'
    BY <1>3, <2>1, <2>2, <2>3 DEF IInv, TypeOK, Frames, documents, host
  <2>5. HostConsistent'
    BY <1>3 DEF IInv, HostConsistent, Frames, host
  <2>6. FirstOnly'
    BY <1>3, <2>1, <2>2 DEF IInv, FirstOnly, Frames, documents, host
  <2>. QED BY <2>4, <2>5, <2>6 DEF IInv
<1>4. CASE Polled
  BY <1>4 DEF IInv, TypeOK, HostConsistent, FirstOnly, Polled, documents, host, web
<1>. QED BY <1>1, <1>2, <1>3, <1>4

\* Every step keeps the invariant.
LEMMA StepHolds == IInv /\ [Next]_vars => IInv'
<1>. SUFFICES ASSUME IInv, [Next]_vars PROVE IInv'
  OBVIOUS
<1>1. CASE UNCHANGED vars
  BY <1>1 DEF IInv, TypeOK, HostConsistent, FirstOnly, vars, documents, host, web, queue
<1>2. CASE Next
  BY <1>2, ShellStep, WebStep, LoopStep DEF Next
<1>. QED BY <1>1, <1>2

\* The authority, the map and the pages agree in every reachable state.
THEOREM Invariance == Spec => []IInv
<1>1. Init => IInv
  BY InitHolds
<1>2. IInv /\ [Next]_vars => IInv'
  BY StepHolds
<1>. QED BY <1>1, <1>2, PTL DEF Spec

\* The types of the host, its web view and the queue (TypeOK).
THEOREM Typed == Spec => []TypeOK
<1>1. IInv => TypeOK
  BY DEF IInv
<1>. QED BY <1>1, Invariance, PTL

\* While one document is loaded the source pane follows only frames of the page
\* that its map was measured in (ScrollsAgree).
THEOREM PanesAgree == Spec => []ScrollsAgree
<1>1. IInv => ScrollsAgree
  <2>. SUFFICES ASSUME IInv, loaded = 1, NEW i \in DOMAIN ipc, Follows(ipc[i])
                PROVE  ipc[i].page \in map
    BY DEF ScrollsAgree
  <2>1. ipc[i].page \in Page /\ staged \in Page
    <3>1. ipc[i] \in Frame
      BY DEF IInv, TypeOK
    <3>. QED BY <3>1 DEF IInv, TypeOK, Frame
  <2>2. ipc[i].page.rev = staged.rev
    BY DEF IInv, HostConsistent, Follows, Heard
  <2>3. ipc[i].page.doc = staged.doc
    BY DEF IInv, FirstOnly
  <2>4. ipc[i].page = staged
    BY <2>1, <2>2, <2>3 DEF Page
  <2>5. map = {staged}
    BY DEF IInv, HostConsistent, Follows
  <2>. QED BY <2>4, <2>5
<1>. QED BY <1>1, Invariance, PTL
================================================================================
