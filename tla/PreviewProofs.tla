---------------------------- MODULE PreviewProofs ----------------------------
(***************************************************************************)
(* Proofs about the render pipeline as the two shells drive it, for any    *)
(* number of documents, edits, tabs and wake-ups.  On macOS: the preview   *)
(* never falls back to an older page, and the text of the first document   *)
(* is kept in the pipeline until another document comes into the editor.   *)
(* On GTK: scheduler and worker agree on the one job there is, and the     *)
(* text in the editor never drops out of the pipeline.                     *)
(***************************************************************************)
EXTENDS MacPreview, GtkPreview, FiniteSetTheorems, TLAPS

\* The pages on their way, in the order the worker takes them.
Waiting == {q.page : q \in pending}
Asked   == {j.page : j \in request}
Made    == {j.page : j \in executing}
Done    == {c.page : c \in completed}

Before(A, B) == \A p \in A, q \in B : p.doc = q.doc => p.rev <= q.rev

Ordered ==
    /\ Before(staged, Done \cup Made \cup Asked \cup Waiting)
    /\ Before(Done, Made \cup Asked \cup Waiting)
    /\ Before(Made, Asked \cup Waiting)
    /\ Before(Asked, Waiting)
    /\ \A p \in staged \cup Done \cup Made \cup Asked \cup Waiting : p.rev <= rev[p.doc]

\* The one job is in one place.
OnePlace ==
    /\ request # {} => executing = {} /\ completed = {}
    /\ executing # {} => completed = {}

\* The pending slot, if it is taken, holds the text in the editor.
PendingIsCurrent == \A q \in pending : q.page = Current

\* A job of another text is in the worker only while the text in the editor is
\* pending.
OthersAreFollowed == \A j \in InWorker : j.page # Current => pending # {}

FirstInv ==
    /\ OneOutstanding
    /\ OnePlace
    /\ PendingIsCurrent
    /\ OthersAreFollowed
    /\ CurrentInPipeline

Inv == TypeOK /\ Ordered /\ (loaded = 1 => FirstInv)

-----------------------------------------------------------------------------
(* Types *)

LEMMA StartTypes ==
    ASSUME NEW run, run \subseteq Running, AtMostOne(run),
           NEW pend, pend \subseteq Pending, AtMostOne(pend),
           NEW id \in Nat, request \subseteq Job, AtMostOne(request),
           StartReady(run, pend, id)
    PROVE  /\ nextId' \in Nat
           /\ running' \subseteq Running /\ AtMostOne(running')
           /\ pending' \subseteq Pending /\ AtMostOne(pending')
           /\ request' \subseteq Job     /\ AtMostOne(request')
<1>1. CASE run = {} /\ \E q \in pend : q.quiet
  <2>1. PICK q \in pend :
          /\ nextId' = id + 1
          /\ running' = {[id |-> nextId', rev |-> q.page.rev]}
          /\ pending' = {}
          /\ request' = IF request = {} THEN {[id |-> nextId', page |-> q.page]} ELSE request
    BY <1>1 DEF StartReady
  <2>2. q.page \in Page /\ q.page.rev \in Rev
    BY DEF Pending, Page
  <2> QED
    BY <2>1, <2>2 DEF AtMostOne, Running, Job
<1>2. CASE ~ (run = {} /\ \E q \in pend : q.quiet)
  BY <1>2 DEF StartReady
<1> QED
  BY <1>1, <1>2

LEMMA SubmittedTypes ==
    ASSUME NEW p \in Page
    PROVE  /\ Submitted(p, TRUE) \subseteq Pending /\ AtMostOne(Submitted(p, TRUE))
           /\ {q.page : q \in Submitted(p, TRUE)} = {p}
  BY DEF Submitted, Pending, AtMostOne

LEMMA DocumentsKept ==
    ASSUME TypeOK, Commit \/ Install \/ (doc' \in tabs /\ UNCHANGED <<loaded, rev>>)
    PROVE  /\ doc' \in Doc /\ loaded' \in Doc /\ rev' \in [Doc -> Rev]
           /\ Current' \in Page /\ Current \in Page
           /\ \A d \in Doc : rev[d] <= rev'[d]
<1>1. /\ doc \in Doc /\ loaded \in Doc /\ rev \in [Doc -> Rev] /\ tabs \subseteq 1 .. loaded
      /\ \A d \in Doc : rev[d] \in Nat
  BY BoundsAssumption DEF TypeOK, SlotsTyped, Rev
<1>2. doc' \in Doc /\ loaded' \in Doc /\ rev' \in [Doc -> Rev]
      /\ \A d \in Doc : rev[d] <= rev'[d]
  <2>1. CASE Commit
    <3>1. rev[doc] < MaxRev /\ rev' = [rev EXCEPT ![doc] = @ + 1]
      BY <2>1 DEF Commit
    <3>2. rev[doc] + 1 \in Rev
      BY <1>1, <3>1, BoundsAssumption DEF Rev
    <3> QED
      BY <1>1, <2>1, <3>1, <3>2 DEF Commit
  <2>2. CASE Install
    BY <1>1, <2>2, BoundsAssumption DEF Install, Doc
  <2>3. CASE doc' \in tabs /\ UNCHANGED <<loaded, rev>>
    BY <1>1, <2>3, BoundsAssumption DEF Doc
  <2> QED
    BY <2>1, <2>2, <2>3
<1> QED
  BY <1>1, <1>2 DEF Current, Page

LEMMA TabsOf ==
    ASSUME NEW n \in Nat, NEW S \in SUBSET (1 .. n)
    PROVE  /\ IsFiniteSet(S) /\ Cardinality(S) \in Nat
           /\ \A d : Cardinality(S \ {d}) <= Cardinality(S)
           /\ \A d \in S : Cardinality(S \ {d}) = Cardinality(S) - 1
           /\ \A d : Cardinality(S \cup {d}) <= Cardinality(S) + 1
           /\ S \subseteq {1} => Cardinality(S) <= 1
<1>1. IsFiniteSet(S) /\ Cardinality(S) \in Nat
  <2>1. 1 \in Int /\ n \in Int
    OBVIOUS
  <2>2. IsFiniteSet(1 .. n)
    BY <2>1, FS_Interval
  <2>3. IsFiniteSet(S)
    BY <2>2, FS_Subset
  <2> QED
    BY <2>3, FS_CardinalityType
<1>2. ASSUME NEW d
      PROVE  Cardinality(S \ {d}) = IF d \in S THEN Cardinality(S) - 1 ELSE Cardinality(S)
  BY <1>1, FS_RemoveElement
<1>3. ASSUME NEW d
      PROVE  Cardinality(S \cup {d}) = IF d \in S THEN Cardinality(S) ELSE Cardinality(S) + 1
  BY <1>1, FS_AddElement
<1>4. S \subseteq {1} => Cardinality(S) <= 1
  <2>1. IsFiniteSet({1}) /\ Cardinality({1}) = 1
    BY FS_Singleton
  <2> QED
    BY <2>1, FS_Subset
<1>5. /\ \A d : Cardinality(S \ {d}) <= Cardinality(S)
      /\ \A d \in S : Cardinality(S \ {d}) = Cardinality(S) - 1
  BY <1>1, <1>2
<1>6. \A d : Cardinality(S \cup {d}) <= Cardinality(S) + 1
  BY <1>1, <1>3
<1> QED
  BY <1>1, <1>4, <1>5, <1>6

\* The new tab takes a free place or that of one tab.
LEMMA TabTaken ==
    ASSUME TypeOK, Install, NEW gone \in SUBSET tabs, Cardinality(gone) <= 1,
           gone = {} => Cardinality(tabs) < MaxTabs,
           tabs' = (tabs \ gone) \cup {doc'}
    PROVE  tabs' \subseteq 1 .. loaded' /\ doc' \in tabs' /\ Cardinality(tabs') <= MaxTabs
<1>1. /\ loaded \in Nat /\ tabs \in SUBSET (1 .. loaded) /\ doc' = loaded + 1 /\ loaded' = loaded + 1
      /\ MaxTabs \in Nat /\ Cardinality(tabs) <= MaxTabs
  BY BoundsAssumption, TabsAssumption DEF TypeOK, SlotsTyped, Install, Doc
<1>2. tabs' \subseteq 1 .. loaded' /\ doc' \in tabs'
  BY <1>1
<1>3. Cardinality(tabs \ gone) < MaxTabs
  <2>1. CASE gone = {}
    <3>1. tabs \ gone = tabs
      BY <2>1
    <3> QED
      BY <2>1, <3>1
  <2>2. CASE gone # {}
    <3>1. PICK d \in gone : TRUE
      BY <2>2
    <3>2. IsFiniteSet(gone)
      BY <1>1, TabsOf, FS_Subset
    <3>3. gone = {d}
      <4>1. ASSUME NEW e \in gone, e # d PROVE FALSE
        <5>1. IsFiniteSet({d, e}) /\ Cardinality({d, e}) = 2
          <6>1. IsFiniteSet({d}) /\ Cardinality({d}) = 1 /\ e \notin {d} /\ {d} \cup {e} = {d, e}
            BY <4>1, FS_Singleton
          <6>2. IsFiniteSet({d} \cup {e}) /\ Cardinality({d} \cup {e}) = Cardinality({d}) + 1
            BY <6>1, FS_AddElement
          <6> QED
            BY <6>1, <6>2
        <5>2. Cardinality({d, e}) <= Cardinality(gone) /\ Cardinality(gone) \in Nat
          BY <3>2, FS_Subset, FS_CardinalityType
        <5> QED
          BY <5>1, <5>2
      <4> QED
        BY <4>1
    <3>4. Cardinality(tabs \ {d}) = Cardinality(tabs) - 1 /\ Cardinality(tabs) \in Nat
      BY <1>1, <3>1, TabsOf
    <3> QED
      BY <1>1, <3>3, <3>4
  <2> QED
    BY <2>1, <2>2
<1>4. tabs \ gone \in SUBSET (1 .. loaded)
  BY <1>1
<1>5. Cardinality(tabs') <= Cardinality(tabs \ gone) + 1 /\ Cardinality(tabs \ gone) \in Nat
  BY <1>1, <1>4, TabsOf
<1>6. Cardinality(tabs') \in Nat
  <2>1. loaded' \in Nat /\ tabs' \in SUBSET (1 .. loaded')
    BY <1>1, <1>2
  <2> QED
    BY <2>1, TabsOf
<1> QED
  BY <1>1, <1>2, <1>3, <1>5, <1>6

\* Types are kept when the tabs and the document are typed and a job starts.
LEMMA StartedTypes ==
    ASSUME TypeOK, doc' \in Doc, loaded' \in Doc, rev' \in [Doc -> Rev],
           tabs' \subseteq 1 .. loaded', doc' \in tabs', Cardinality(tabs') <= MaxTabs,
           deciding' \in BOOLEAN, exited' \in BOOLEAN, turn' \in {"events", "drain"},
           NEW run \in {running, {}}, NEW pend, pend \subseteq Pending, AtMostOne(pend),
           NEW id \in Nat, StartReady(run, pend, id),
           UNCHANGED <<executing, completed, results>>
    PROVE  TypeOK'
<1>1. run \subseteq Running /\ AtMostOne(run)
  BY DEF TypeOK, SlotsTyped, AtMostOne
<1>2. /\ nextId' \in Nat
      /\ running' \subseteq Running /\ AtMostOne(running')
      /\ pending' \subseteq Pending /\ AtMostOne(pending')
      /\ request' \subseteq Job     /\ AtMostOne(request')
  BY <1>1, StartTypes DEF TypeOK, SlotsTyped
<1> QED
  BY <1>2 DEF TypeOK, SlotsTyped, results

\* The handlers that queue the text that comes into the editor.
LEMMA QueueTypes ==
    ASSUME TypeOK, Edit \/ Open \/ ExternalReload \/ Recover
    PROVE  TypeOK'
<1>1. Commit \/ Install
  BY DEF Edit, Open, ExternalReload, Recover
<1>2. /\ doc' \in Doc /\ loaded' \in Doc /\ rev' \in [Doc -> Rev]
      /\ Current' \in Page /\ Current \in Page
  BY <1>1, DocumentsKept
<1>3. {} \subseteq tabs /\ doc \in tabs /\ tabs \subseteq 1 .. loaded /\ loaded \in Nat
      /\ Cardinality(tabs) <= MaxTabs /\ deciding \in BOOLEAN /\ exited \in BOOLEAN
      /\ turn \in {"events", "drain"} /\ nextId \in Nat
  BY BoundsAssumption DEF TypeOK, SlotsTyped, Doc
<1>4. /\ tabs' \subseteq 1 .. loaded' /\ doc' \in tabs' /\ Cardinality(tabs') <= MaxTabs
  <2>1. CASE Edit
    BY <1>3, <2>1 DEF Edit, Commit
  <2>2. CASE Open
    <3>1. PICK gone \in SUBSET tabs :
            /\ Cardinality(gone) <= 1
            /\ gone = {} => Cardinality(tabs) < MaxTabs
            /\ tabs' = (tabs \ gone) \cup {doc'}
      BY <2>2 DEF Open
    <3>2. Install
      BY <2>2 DEF Open
    <3> QED
      BY <3>1, <3>2, TabTaken
  <2>3. CASE ExternalReload \/ Recover
    <3>1. Install /\ tabs' = (tabs \ {doc}) \cup {doc'}
      BY <2>3 DEF ExternalReload, Recover
    <3>2. IsFiniteSet({doc}) /\ Cardinality({doc}) = 1 /\ {doc} \in SUBSET tabs /\ {doc} # {}
      BY <1>3, FS_Singleton
    <3>3. Cardinality({doc}) <= 1
      BY <3>2
    <3> QED
      BY <3>1, <3>2, <3>3, TabTaken
  <2> QED
    BY <2>1, <2>2, <2>3
<1>5. deciding' \in BOOLEAN /\ turn' \in {"events", "drain"} /\ exited' \in BOOLEAN
  <2>1. deciding' \in BOOLEAN
    BY <1>3 DEF Edit, Open, ExternalReload, Recover
  <2>2. turn' \in {"events", "drain"}
    BY <1>3 DEF Edit, Open, ExternalReload, Recover
  <2>3. exited' \in BOOLEAN
    BY <1>3 DEF Edit, Open, ExternalReload, Recover, Refused
  <2> QED
    BY <2>1, <2>2, <2>3
<1>6. Submitted(Current', TRUE) \subseteq Pending /\ AtMostOne(Submitted(Current', TRUE))
      /\ Submitted(Current, TRUE) \subseteq Pending /\ AtMostOne(Submitted(Current, TRUE))
  BY <1>2, SubmittedTypes
<1>7. UNCHANGED <<executing, completed, results>>
  BY DEF Edit, Open, ExternalReload, Recover
<1>8. CASE Edit
  BY <1>2, <1>3, <1>4, <1>5, <1>6, <1>7, <1>8, StartedTypes DEF Edit
<1>9. CASE Open \/ ExternalReload
  BY <1>2, <1>4, <1>5, <1>6, <1>7, <1>9, StartedTypes DEF Open, ExternalReload
<1>10. CASE Recover
  BY <1>2, <1>4, <1>5, <1>6, <1>7, <1>10, StartedTypes DEF Recover
<1> QED
  BY <1>8, <1>9, <1>10

LEMMA TabCommandTypes ==
    ASSUME TypeOK, NewTab \/ SwitchTab \/ CloseTab
    PROVE  TypeOK'
<1>1. /\ tabs \subseteq 1 .. loaded /\ loaded \in Nat /\ tabs \in SUBSET (1 .. loaded)
      /\ Cardinality(tabs) <= MaxTabs /\ MaxTabs \in Nat /\ deciding \in BOOLEAN
      /\ pending \subseteq Pending /\ AtMostOne(pending) /\ nextId \in Nat
  BY BoundsAssumption, TabsAssumption DEF TypeOK, SlotsTyped, Doc
<1>2. /\ StartReady(running, pending, nextId)
      /\ UNCHANGED <<executing, completed, results>>
      /\ deciding' = deciding /\ turn' = "drain" /\ exited' = Refused(running, pending)
  BY DEF NewTab, SwitchTab, CloseTab, Refresh
<1>3. Install \/ (doc' \in tabs /\ UNCHANGED <<loaded, rev>>)
  BY DEF NewTab, SwitchTab, CloseTab, TypeOK
<1>4. doc' \in Doc /\ loaded' \in Doc /\ rev' \in [Doc -> Rev]
  BY <1>3, DocumentsKept
<1>5. tabs' \subseteq 1 .. loaded' /\ doc' \in tabs' /\ Cardinality(tabs') <= MaxTabs
  <2>1. CASE NewTab
    <3>1. Install /\ {} \in SUBSET tabs /\ Cardinality(tabs) < MaxTabs /\ tabs' = (tabs \ {}) \cup {doc'}
      BY <2>1 DEF NewTab
    <3>2. Cardinality({}) <= 1
      BY FS_EmptySet
    <3> QED
      BY <3>1, <3>2, TabTaken
  <2>2. CASE SwitchTab
    BY <1>1, <2>2 DEF SwitchTab
  <2>3. CASE CloseTab
    <3>1. PICK d \in tabs : tabs' = tabs \ {d} /\ doc' \in IF d = doc THEN tabs' ELSE {doc}
      BY <2>3 DEF CloseTab
    <3>2. doc' \in tabs' /\ tabs' \subseteq 1 .. loaded'
      BY <1>1, <2>3, <3>1 DEF CloseTab, TypeOK
    <3>3. Cardinality(tabs \ {d}) = Cardinality(tabs) - 1 /\ Cardinality(tabs) \in Nat
      BY <1>1, TabsOf
    <3> QED
      BY <1>1, <3>1, <3>2, <3>3
  <2> QED
    BY <2>1, <2>2, <2>3
<1>6. exited' \in BOOLEAN
  BY <1>2 DEF Refused
<1> QED
  BY <1>1, <1>2, <1>4, <1>5, <1>6, StartedTypes

LEMMA DrainTypes ==
    ASSUME TypeOK, Drain
    PROVE  TypeOK'
<1>1. /\ UNCHANGED <<doc, loaded, rev, pending, nextId, request, executing, tabs, deciding>>
      /\ turn' = "events"
  BY DEF Drain, documents
<1>2. CASE completed = {} /\ UNCHANGED <<running, completed, results, exited>>
  BY <1>1, <1>2 DEF TypeOK, SlotsTyped, results
<1>3. ASSUME NEW fits \in BOOLEAN, Finish(fits),
             exited' = \E c \in completed : Accepted(c) /\ (~c.ok \/ ~fits)
      PROVE  TypeOK'
  <2>1. completed' = {} /\ running' \subseteq running
    BY <1>3 DEF Finish
  <2>2. PICK c \in completed :
          /\ staged' = staged \/ staged' = {c.page}
          /\ failed' = failed \/ failed' = {c.page}
    BY <1>3 DEF Finish
  <2>3. c.page \in Page
    BY DEF TypeOK, SlotsTyped, Completed
  <2>4. exited' \in BOOLEAN
    BY <1>3
  <2> QED
    BY <1>1, <2>1, <2>2, <2>3, <2>4 DEF TypeOK, SlotsTyped, AtMostOne
<1> QED
  BY <1>2, <1>3 DEF Drain

LEMMA TypeStep == TypeOK /\ [MacNext]_vars => TypeOK'
<1> SUFFICES ASSUME TypeOK, [MacNext]_vars PROVE TypeOK'
  OBVIOUS
<1>1. CASE Edit \/ Open \/ ExternalReload \/ Recover
  BY <1>1, QueueTypes
<1>2. CASE NewTab \/ SwitchTab \/ CloseTab
  BY <1>2, TabCommandTypes
<1>3. CASE Drain
  BY <1>3, DrainTypes
<1>4. CASE OpenAtCap
  BY <1>4 DEF OpenAtCap, documents, worker, results, TypeOK, SlotsTyped, AtMostOne
<1>5. CASE Dismiss
  BY <1>5 DEF Dismiss, pipeline, documents, scheduler, worker, results, TypeOK, SlotsTyped
<1>6. CASE Worker
  <2>1. CASE Take
    BY <1>6, <2>1 DEF Worker, Take, documents, scheduler, results, TypeOK, SlotsTyped, AtMostOne
  <2>2. CASE Deliver
    BY <1>6, <2>2 DEF Worker, Deliver, documents, scheduler, results, TypeOK, SlotsTyped, AtMostOne,
                      Job, Completed
  <2> QED
    BY <1>6, <2>1, <2>2 DEF Worker
<1>7. CASE UNCHANGED vars
  BY <1>7 DEF vars, pipeline, documents, scheduler, worker, results, TypeOK, SlotsTyped
<1> QED
  BY <1>1, <1>2, <1>3, <1>4, <1>5, <1>6, <1>7 DEF MacNext

-----------------------------------------------------------------------------
(* Pages keep their order *)

\* A job starts or waits: what is pending is not older than what is on its way.
LEMMA StartedInOrder ==
    ASSUME TypeOK, TypeOK', Ordered,
           \A d \in Doc : rev[d] <= rev'[d],
           NEW run, NEW id, NEW pend, pend \subseteq Pending,
           Before(staged \cup Done \cup Made \cup Asked, {q.page : q \in pend}),
           \A q \in pend : q.page.rev <= rev'[q.page.doc],
           StartReady(run, pend, id),
           UNCHANGED <<executing, completed, results>>
    PROVE  Ordered'
<1> DEFINE New == {q.page : q \in pend}
<1>1. /\ staged \subseteq Page /\ Done \subseteq Page /\ Made \subseteq Page /\ Asked \subseteq Page
      /\ New \subseteq Page
  BY DEF TypeOK, SlotsTyped, Done, Made, Asked, Completed, Job, Pending
<1>2. staged' = staged /\ Done' = Done /\ Made' = Made
  BY DEF results, Done, Made
<1>3. Asked' \subseteq Asked \cup New /\ Waiting' \subseteq New
      /\ (Waiting' # {} => Asked' = Asked)
  <2>1. CASE run = {} /\ \E q \in pend : q.quiet
    <3>1. PICK q \in pend :
            /\ pending' = {}
            /\ request' = IF request = {} THEN {[id |-> nextId', page |-> q.page]} ELSE request
      BY <2>1 DEF StartReady
    <3>2. Asked' \subseteq Asked \cup New
      BY <3>1 DEF Asked
    <3>3. Waiting' = {}
      BY <3>1 DEF Waiting
    <3> QED
      BY <3>2, <3>3
  <2>2. CASE ~ (run = {} /\ \E q \in pend : q.quiet)
    BY <2>2 DEF StartReady, Asked, Waiting
  <2> QED
    BY <2>1, <2>2
<1>4. \A p \in staged \cup Done \cup Made \cup Asked \cup New : p.rev <= rev'[p.doc]
  <2>1. ASSUME NEW p \in staged \cup Done \cup Made \cup Asked
        PROVE  p.rev <= rev'[p.doc]
    <3>1. p.rev <= rev[p.doc]
      BY DEF Ordered
    <3>2. p.doc \in Doc /\ p.rev \in Nat /\ rev[p.doc] \in Nat /\ rev'[p.doc] \in Nat
      <4>1. p \in Page /\ rev \in [Doc -> Rev] /\ rev' \in [Doc -> Rev]
        BY <1>1 DEF TypeOK, SlotsTyped
      <4>2. Rev \subseteq Nat
        BY BoundsAssumption DEF Rev
      <4> QED
        BY <4>1, <4>2 DEF Page
    <3> QED
      BY <3>1, <3>2
  <2> QED
    BY <2>1
<1>5. Before(staged, New) /\ Before(Done, New) /\ Before(Made, New) /\ Before(Asked, New)
  BY DEF Before
<1>6. Before(staged', (Done \cup Made \cup Asked \cup Waiting)')
  BY <1>2, <1>3, <1>5 DEF Before, Ordered
<1>7. Before(Done', (Made \cup Asked \cup Waiting)')
  BY <1>2, <1>3, <1>5 DEF Before, Ordered
<1>8. Before(Made', (Asked \cup Waiting)')
  BY <1>2, <1>3, <1>5 DEF Before, Ordered
<1>9. Before(Asked', Waiting')
  BY <1>3, <1>5 DEF Before
<1>10. \A p \in (staged \cup Done \cup Made \cup Asked \cup Waiting)' : p.rev <= rev'[p.doc]
  BY <1>2, <1>3, <1>4
<1> QED
  BY <1>6, <1>7, <1>8, <1>9, <1>10 DEF Ordered, Before

\* A page of the latest revision is not older than any.
LEMMA LatestIsLast ==
    ASSUME TypeOK, Ordered, NEW p \in Page, \A d \in Doc : rev[d] <= rev'[d],
           rev' \in [Doc -> Rev],
           p.rev = rev[p.doc] \/ p.rev = rev'[p.doc]
    PROVE  /\ Before(staged \cup Done \cup Made \cup Asked, {q.page : q \in Submitted(p, TRUE)})
           /\ \A q \in Submitted(p, TRUE) : q.page.rev <= rev'[q.page.doc]
<1>1. p.doc \in Doc /\ rev[p.doc] \in Nat /\ rev'[p.doc] \in Nat /\ p.rev \in Nat
      /\ rev[p.doc] <= rev'[p.doc] /\ rev[p.doc] <= p.rev /\ p.rev <= rev'[p.doc]
  <2>1. rev \in [Doc -> Rev]
    BY DEF TypeOK, SlotsTyped
  <2>2. Rev \subseteq Nat
    BY BoundsAssumption DEF Rev
  <2>3. p.doc \in Doc /\ rev[p.doc] \in Nat /\ rev'[p.doc] \in Nat /\ p.rev \in Nat
    BY <2>1, <2>2 DEF Page
  <2> QED
    BY <2>3
<1>2. {q.page : q \in Submitted(p, TRUE)} = {p} /\ \A q \in Submitted(p, TRUE) : q.page = p
  BY SubmittedTypes DEF Submitted
<1>3. ASSUME NEW o \in staged \cup Done \cup Made \cup Asked, o.doc = p.doc
      PROVE  o.rev <= p.rev
  <2>1. o.rev <= rev[p.doc]
    BY <1>3 DEF Ordered
  <2>2. o.rev \in Nat
    BY BoundsAssumption
    DEF TypeOK, SlotsTyped, Done, Made, Asked, Completed, Job, Page, Rev
  <2> QED
    BY <1>1, <2>1, <2>2
<1> QED
  BY <1>1, <1>2, <1>3 DEF Before

LEMMA FinishInOrder ==
    ASSUME TypeOK, Ordered, Drain
    PROVE  /\ Ordered'
           /\ \A p \in staged, q \in staged' : p.doc = q.doc => p.rev <= q.rev
<1>1. UNCHANGED <<rev, pending, request, executing>>
  BY DEF Drain, documents
<1>2. Waiting' = Waiting /\ Asked' = Asked /\ Made' = Made
  BY <1>1 DEF Waiting, Asked, Made
<1>3. \A p, q \in staged : p = q /\ p.rev \in Nat
  BY BoundsAssumption DEF TypeOK, SlotsTyped, AtMostOne, Page, Rev
<1>4. CASE completed = {} /\ UNCHANGED <<running, completed, results>>
  <2>1. staged' = staged /\ Done' = Done
    BY <1>4 DEF results, Done
  <2>2. Ordered'
    BY <1>1, <1>2, <2>1 DEF Ordered, Before
  <2> QED
    BY <1>3, <2>1, <2>2
<1>5. CASE \E fits \in BOOLEAN : Finish(fits)
  <2>1. PICK c \in completed : completed' = {} /\ (staged' = staged \/ staged' = {c.page})
    BY <1>5 DEF Finish
  <2>2. Done' = {} /\ c.page \in Done
    BY <2>1 DEF Done
  <2>3. CASE staged' = staged
    <3>1. Ordered'
      BY <1>1, <1>2, <2>2, <2>3 DEF Ordered, Before
    <3> QED
      BY <1>3, <2>3, <3>1
  <2>4. CASE staged' = {c.page}
    <3>1. Ordered'
      BY <1>1, <1>2, <2>2, <2>4 DEF Ordered, Before
    <3>2. \A p \in staged, q \in staged' : p.doc = q.doc => p.rev <= q.rev
      BY <2>2, <2>4 DEF Ordered, Before
    <3> QED
      BY <3>1, <3>2
  <2> QED
    BY <2>1, <2>3, <2>4
<1> QED
  BY <1>4, <1>5 DEF Drain

\* Nothing but the tabs and the flags changes.
LEMMA OrderKept ==
    ASSUME Ordered, UNCHANGED <<rev, staged, completed, executing, request, pending>>
    PROVE  Ordered'
<1>1. Waiting' = Waiting /\ Asked' = Asked /\ Made' = Made /\ Done' = Done
  BY DEF Waiting, Asked, Made, Done
<1> QED
  BY <1>1 DEF Ordered, Before

LEMMA OrderStep ==
    ASSUME TypeOK, TypeOK', Ordered, [MacNext]_vars
    PROVE  /\ Ordered'
           /\ staged' = staged \/ Drain
<1>1. CASE Edit \/ Open \/ ExternalReload \/ Recover
  <2>1. Commit \/ Install
    BY <1>1 DEF Edit, Open, ExternalReload, Recover
  <2>2. /\ Current \in Page /\ Current' \in Page /\ rev' \in [Doc -> Rev]
        /\ \A d \in Doc : rev[d] <= rev'[d]
    BY <2>1, DocumentsKept
  <2>3. Current.rev = rev[Current.doc] /\ Current'.rev = rev'[Current'.doc]
    BY DEF Current
  <2>4. UNCHANGED <<executing, completed, results>>
    BY <1>1 DEF Edit, Open, ExternalReload, Recover
  <2>5. PICK p \in {Current, Current'}, run \in {running, {}}, id \in {0, nextId} :
          StartReady(run, Submitted(p, TRUE), id)
    BY <1>1 DEF Edit, Open, ExternalReload, Recover
  <2>6. p \in Page /\ (p.rev = rev[p.doc] \/ p.rev = rev'[p.doc])
    BY <2>2, <2>3
  <2>7. Submitted(p, TRUE) \subseteq Pending
    BY <2>6, SubmittedTypes
  <2>8. /\ Before(staged \cup Done \cup Made \cup Asked, {q.page : q \in Submitted(p, TRUE)})
        /\ \A q \in Submitted(p, TRUE) : q.page.rev <= rev'[q.page.doc]
    BY <2>2, <2>6, LatestIsLast
  <2> QED
    BY <2>2, <2>4, <2>5, <2>7, <2>8, StartedInOrder DEF results
<1>2. CASE NewTab \/ SwitchTab \/ CloseTab
  <2>1. StartReady(running, pending, nextId) /\ UNCHANGED <<executing, completed, results>>
    BY <1>2 DEF NewTab, SwitchTab, CloseTab, Refresh
  <2>2. UNCHANGED rev
    BY <1>2 DEF NewTab, SwitchTab, CloseTab, Install
  <2>3. \A d \in Doc : rev[d] <= rev'[d]
    BY <2>2, BoundsAssumption DEF TypeOK, SlotsTyped, Rev
  <2>4. /\ Before(staged \cup Done \cup Made \cup Asked, {q.page : q \in pending})
        /\ \A q \in pending : q.page.rev <= rev'[q.page.doc]
    BY <2>2 DEF Ordered, Before, Waiting
  <2>5. pending \subseteq Pending
    BY DEF TypeOK, SlotsTyped
  <2> QED
    BY <2>1, <2>3, <2>4, <2>5, StartedInOrder DEF results
<1>3. CASE Drain
  BY <1>3, FinishInOrder
<1>4. CASE OpenAtCap
  <2>1. /\ UNCHANGED <<rev, staged, completed, executing, request>> /\ pending' = {}
    BY <1>4 DEF OpenAtCap, documents, worker, results
  <2>2. Waiting' = {} /\ Asked' = Asked /\ Made' = Made /\ Done' = Done
    BY <2>1 DEF Waiting, Asked, Made, Done
  <2> QED
    BY <2>1, <2>2 DEF Ordered, Before
<1>5. CASE Dismiss \/ UNCHANGED vars
  <2>1. UNCHANGED <<rev, staged, completed, executing, request, pending>>
    BY <1>5 DEF Dismiss, vars, pipeline, documents, scheduler, worker, results
  <2> QED
    BY <2>1, OrderKept
<1>6. CASE Worker
  <2>1. UNCHANGED <<rev, staged, pending>>
    BY <1>6 DEF Worker, Take, Deliver, documents, scheduler, results
  <2>2. Waiting' = Waiting
    BY <2>1 DEF Waiting
  <2>3. CASE Take
    <3>1. Made = {} /\ Made' = Asked /\ Asked' = {} /\ Done' = Done
      BY <2>3 DEF Take, Made, Asked, Done
    <3> QED
      BY <2>1, <2>2, <3>1 DEF Ordered, Before
  <2>4. CASE Deliver
    <3>1. Done = {} /\ Done' \subseteq Made /\ Made' = {} /\ Asked' = Asked
      BY <2>4 DEF Deliver, Made, Asked, Done
    <3> QED
      BY <2>1, <2>2, <3>1 DEF Ordered, Before
  <2> QED
    BY <1>6, <2>3, <2>4 DEF Worker
<1> QED
  BY <1>1, <1>2, <1>3, <1>4, <1>5, <1>6 DEF MacNext

-----------------------------------------------------------------------------
(* The text of the first document is kept *)

\* What is pending is the text in the editor, and the worker is idle or the
\* text is pending.
LEMMA StartedFirst ==
    ASSUME TypeOK, TypeOK', OneOutstanding, OnePlace,
           NEW pend, pend \subseteq Pending,
           \A q \in pend : q.page = Current',
           pend # {} \/ (Current' = Current /\ pend = pending /\ FirstInv /\ results' = results),
           NEW id, StartReady(running, pend, id),
           UNCHANGED <<executing, completed, results>>
    PROVE  FirstInv'
<1>1. CASE ~(running = {} /\ \E q \in pend : q.quiet)
  <2>1. running' = running /\ pending' = pend /\ request' = request
    BY <1>1 DEF StartReady
  <2>2. InWorker' = InWorker
    BY <2>1 DEF InWorker
  <2>3. OneOutstanding' /\ OnePlace'
    BY <2>1, <2>2 DEF OneOutstanding, OnePlace
  <2>4. PendingIsCurrent' /\ OthersAreFollowed' /\ CurrentInPipeline'
    <3>1. CASE pend # {}
      BY <2>1, <3>1 DEF PendingIsCurrent, OthersAreFollowed, CurrentInPipeline
    <3>2. CASE Current' = Current /\ pend = pending /\ FirstInv /\ results' = results
      BY <2>1, <2>2, <3>2
      DEF results, FirstInv, PendingIsCurrent, OthersAreFollowed, CurrentInPipeline
    <3> QED
      BY <3>1, <3>2
  <2> QED
    BY <2>3, <2>4 DEF FirstInv
<1>2. CASE running = {} /\ \E q \in pend : q.quiet
  <2>0. InWorker = {}
    BY <1>2 DEF OneOutstanding
  <2>1. request = {} /\ executing = {} /\ completed = {}
    <3>1. request = {} /\ executing = {}
      BY <2>0 DEF InWorker
    <3>2. ASSUME NEW x \in completed PROVE FALSE
      <4>1. [id |-> x.id, page |-> x.page] \in InWorker
        BY DEF InWorker
      <4> QED
        BY <2>0, <4>1
    <3> QED
      BY <3>1, <3>2
  <2>2. PICK q \in pend :
          /\ nextId' = id + 1
          /\ running' = {[id |-> nextId', rev |-> q.page.rev]}
          /\ pending' = {}
          /\ request' = IF request = {} THEN {[id |-> nextId', page |-> q.page]} ELSE request
    BY <1>2 DEF StartReady
  <2> DEFINE j == [id |-> nextId', page |-> Current']
  <2>3. /\ pending' = {}
        /\ request' = {j}
        /\ running' = {[id |-> nextId', rev |-> Current'.rev]}
    BY <2>1, <2>2
  <2>4. InWorker' = {j}
    BY <2>1, <2>3 DEF InWorker
  <2>5. OneOutstanding'
    <3>1. \A r \in running' : j.id = r.id /\ j.page.rev = r.rev
      BY <2>3
    <3>2. running' # {}
      BY <2>3
    <3> HIDE DEF j
    <3> QED
      BY <2>4, <3>1, <3>2 DEF OneOutstanding
  <2>6. OnePlace'
    BY <2>1 DEF OnePlace
  <2>7. PendingIsCurrent' /\ OthersAreFollowed'
    BY <2>3, <2>4 DEF PendingIsCurrent, OthersAreFollowed
  <2>8. CurrentInPipeline'
    BY <2>3, <2>4 DEF CurrentInPipeline
  <2> QED
    BY <2>5, <2>6, <2>7, <2>8 DEF FirstInv
<1> QED
  BY <1>1, <1>2

\* Nothing changes, or the worker moves its job.
LEMMA MovedFirst ==
    ASSUME FirstInv, InWorker' = InWorker, OnePlace',
           UNCHANGED <<doc, rev, running, pending, staged, failed>>
    PROVE  FirstInv'
<1>1. Current' = Current
  BY DEF Current
<1>2. OneOutstanding'
  BY DEF FirstInv, OneOutstanding
<1>3. PendingIsCurrent' /\ OthersAreFollowed'
  BY <1>1 DEF FirstInv, PendingIsCurrent, OthersAreFollowed
<1>4. CurrentInPipeline'
  BY <1>1 DEF FirstInv, CurrentInPipeline
<1> QED
  BY <1>2, <1>3, <1>4 DEF FirstInv

\* A completion: what it takes away is of another text, and then the text in
\* the editor is pending, or it is the text in the editor, staged or reported.
LEMMA DrainedFirst ==
    ASSUME TypeOK, FirstInv, Drain, NEW fits \in BOOLEAN, Finish(fits)
    PROVE  FirstInv'
<1> PICK c \in completed :
        /\ fits \/ c.page # Current
        /\ completed' = {}
        /\ running' = IF Known(c) THEN {} ELSE running
        /\ staged' = IF Accepted(c) /\ c.ok /\ fits THEN {c.page} ELSE staged
        /\ failed' = IF Accepted(c) /\ ~c.ok THEN {c.page} ELSE failed
  BY DEF Finish
<1> DEFINE j == [id |-> c.id, page |-> c.page]
<1>1. UNCHANGED <<doc, rev, pending, request, executing>>
  BY DEF Drain, documents
<1>2. Current' = Current
  BY <1>1 DEF Current
<1>3. j \in InWorker
  BY DEF InWorker
<1>4. InWorker = {j}
  BY <1>3 DEF FirstInv, OneOutstanding
<1>5. request' = {} /\ executing' = {} /\ InWorker' = {}
  BY <1>1 DEF FirstInv, OnePlace, InWorker
<1>6. Known(c) /\ running' = {}
  <2>1. PICK r \in running : j.id = r.id /\ j.page.rev = r.rev
    BY <1>3, <1>4 DEF FirstInv, OneOutstanding
  <2>2. r = [id |-> c.id, rev |-> c.page.rev]
    BY <2>1 DEF TypeOK, SlotsTyped, Running
  <2> QED
    BY <2>1, <2>2 DEF Known
<1>7. OneOutstanding' /\ OnePlace' /\ PendingIsCurrent' /\ OthersAreFollowed'
  BY <1>1, <1>2, <1>5, <1>6
  DEF FirstInv, OneOutstanding, OnePlace, PendingIsCurrent, OthersAreFollowed
<1>8. CurrentInPipeline'
  <2>1. CASE \E q \in pending : q.page = Current
    BY <1>1, <1>2, <2>1 DEF CurrentInPipeline
  <2>2. CASE ~\E q \in pending : q.page = Current
    <3>1. pending = {}
      BY <2>2 DEF FirstInv, PendingIsCurrent
    <3>2. c.page = Current
      BY <1>3, <3>1 DEF FirstInv, OthersAreFollowed
    <3>3. Accepted(c)
      BY <1>6, <3>2 DEF Accepted, Current
    <3>4. staged' = {Current} \/ failed' = {Current}
      BY <3>2, <3>3 DEF TypeOK, SlotsTyped, Completed
    <3> QED
      BY <1>2, <3>4 DEF CurrentInPipeline
  <2> QED
    BY <2>1, <2>2
<1> QED
  BY <1>7, <1>8 DEF FirstInv

LEMMA FirstStep ==
    ASSUME TypeOK, TypeOK', FirstInv, loaded' = 1, loaded = 1, [MacNext]_vars
    PROVE  FirstInv'
<1>1. doc = 1 /\ doc' = 1 /\ tabs \subseteq {1}
  BY DEF TypeOK
<1>2. ~ Install
  BY DEF Install
<1>3. ~ OpenAtCap
  <2>1. 1 \in Nat /\ tabs \in SUBSET (1 .. 1)
    BY <1>1
  <2>2. Cardinality(tabs) <= 1 /\ Cardinality(tabs) \in Nat
    BY <1>1, <2>1, TabsOf
  <2> QED
    BY <2>2, TabsAssumption DEF OpenAtCap
<1>4. OneOutstanding /\ OnePlace
  BY DEF FirstInv
<1>5. CASE Edit
  <2>1. Commit /\ Current' \in Page
    BY <1>5, DocumentsKept DEF Edit
  <2>2. Submitted(Current', TRUE) \subseteq Pending
    BY <2>1, SubmittedTypes
  <2>3. Submitted(Current', TRUE) # {} /\ \A q \in Submitted(Current', TRUE) : q.page = Current'
    BY DEF Submitted
  <2>4. StartReady(running, Submitted(Current', TRUE), nextId)
        /\ UNCHANGED <<executing, completed, results>>
    BY <1>5 DEF Edit
  <2> QED
    BY <1>4, <2>2, <2>3, <2>4, StartedFirst
<1>6. CASE SwitchTab \/ CloseTab
  <2>1. StartReady(running, pending, nextId) /\ UNCHANGED <<rev, executing, completed, results>>
    BY <1>6 DEF SwitchTab, CloseTab, Refresh
  <2>2. Current' = Current
    BY <1>1, <2>1 DEF Current
  <2>3. pending \subseteq Pending /\ \A q \in pending : q.page = Current'
    BY <2>2 DEF TypeOK, SlotsTyped, FirstInv, PendingIsCurrent
  <2>4. results' = results
    BY <2>1
  <2> QED
    BY <1>4, <2>1, <2>2, <2>3, <2>4, StartedFirst
<1>7. CASE Drain
  <2>1. CASE completed = {} /\ UNCHANGED <<running, completed, results>>
    <3>1. UNCHANGED <<doc, rev, running, pending, staged, failed, request, executing, completed>>
      BY <1>7, <2>1 DEF Drain, documents, results
    <3>2. InWorker' = InWorker /\ OnePlace'
      BY <1>4, <3>1 DEF InWorker, OnePlace
    <3> QED
      BY <3>1, <3>2, MovedFirst
  <2>2. CASE \E fits \in BOOLEAN : Finish(fits)
    BY <1>7, <2>2, DrainedFirst
  <2> QED
    BY <1>7, <2>1, <2>2 DEF Drain
<1>8. CASE Dismiss \/ UNCHANGED vars
  <2>1. UNCHANGED <<doc, rev, running, pending, staged, failed, request, executing, completed>>
    BY <1>8 DEF Dismiss, vars, pipeline, documents, scheduler, worker, results
  <2>2. InWorker' = InWorker /\ OnePlace'
    BY <1>4, <2>1 DEF InWorker, OnePlace
  <2> QED
    BY <2>1, <2>2, MovedFirst
<1>9. CASE Worker
  <2>1. UNCHANGED <<doc, rev, running, pending, staged, failed>>
    BY <1>9 DEF Worker, Take, Deliver, documents, scheduler, results
  <2>2. CASE Take
    <3>1. InWorker' = InWorker /\ OnePlace'
      BY <1>4, <2>2 DEF Take, InWorker, OnePlace
    <3> QED
      BY <2>1, <3>1, MovedFirst
  <2>3. CASE Deliver
    <3>1. PICK j \in executing, ok \in BOOLEAN :
            completed' = {[id |-> j.id, page |-> j.page, ok |-> ok]}
      BY <2>3 DEF Deliver
    <3>2. executing = {j} /\ j = [id |-> j.id, page |-> j.page]
      BY DEF TypeOK, SlotsTyped, AtMostOne, Job
    <3>3. completed = {} /\ request' = {} /\ request = {} /\ executing' = {}
      BY <1>4, <2>3, <3>2 DEF Deliver, OnePlace
    <3>4. InWorker = {j} /\ InWorker' = {j}
      BY <3>1, <3>2, <3>3 DEF InWorker
    <3>5. OnePlace'
      BY <3>3 DEF OnePlace
    <3> QED
      BY <2>1, <3>4, <3>5, MovedFirst
  <2> QED
    BY <1>9, <2>2, <2>3 DEF Worker
<1> QED
  BY <1>2, <1>3, <1>5, <1>6, <1>7, <1>8, <1>9
  DEF MacNext, Open, ExternalReload, Recover, NewTab

-----------------------------------------------------------------------------
LEMMA InitInv == MacInit => Inv
<1> SUFFICES ASSUME MacInit PROVE Inv
  OBVIOUS
<1> USE BoundsAssumption DEF MacInit, Init
<1>1. TypeOK
  <2>1. IsFiniteSet({1}) /\ Cardinality({1}) = 1
    BY FS_Singleton
  <2>2. Cardinality(tabs) <= MaxTabs
    BY <2>1, TabsAssumption
  <2>3. doc \in Doc /\ loaded \in Doc /\ rev \in [Doc -> Rev] /\ nextId \in Nat
    BY DEF Doc, Rev
  <2>4. staged \subseteq Page /\ AtMostOne(staged) /\ failed \subseteq Page /\ AtMostOne(failed)
    BY DEF Doc, Rev, Page, AtMostOne
  <2>5. /\ running = {} /\ pending = {} /\ request = {} /\ executing = {} /\ completed = {}
        /\ tabs \subseteq 1 .. loaded /\ doc \in tabs
    OBVIOUS
  <2>6. deciding \in BOOLEAN /\ exited \in BOOLEAN /\ turn \in {"events", "drain"}
    OBVIOUS
  <2> QED
    BY <2>2, <2>3, <2>4, <2>5, <2>6 DEF TypeOK, SlotsTyped, AtMostOne
<1>2. InWorker = {} /\ Current \in staged
  BY DEF InWorker, Current, Doc
<1>3. FirstInv
  BY <1>2 DEF FirstInv, OneOutstanding, OnePlace, PendingIsCurrent, OthersAreFollowed,
              CurrentInPipeline
<1>4. Ordered
  <2>1. Waiting = {} /\ Asked = {} /\ Made = {} /\ Done = {}
    BY DEF Waiting, Asked, Made, Done
  <2>2. \A p \in staged : p.rev = 0 /\ p.doc = 1 /\ rev[1] = 0
    BY DEF Doc
  <2> QED
    BY <2>1, <2>2 DEF Ordered, Before
<1> QED
  BY <1>1, <1>3, <1>4 DEF Inv

LEMMA InvStep == Inv /\ [MacNext]_vars => Inv'
<1> SUFFICES ASSUME Inv, [MacNext]_vars PROVE Inv'
  OBVIOUS
<1>1. TypeOK'
  BY TypeStep DEF Inv
<1>2. Ordered'
  BY <1>1, OrderStep DEF Inv
<1>3. loaded' = 1 => loaded = 1
  <2>1. loaded' = loaded \/ loaded' = loaded + 1
    BY DEF MacNext, Edit, Open, OpenAtCap, ExternalReload, Recover, Dismiss, NewTab, SwitchTab,
           CloseTab, Drain, Worker, Take, Deliver, Commit, Install, vars, pipeline, documents
  <2>2. loaded \in Nat /\ loaded # 0
    BY BoundsAssumption DEF Inv, TypeOK, SlotsTyped, Doc
  <2> QED
    BY <2>1, <2>2
<1> QED
  BY <1>1, <1>2, <1>3, FirstStep DEF Inv

LEMMA Invariance == Spec => []Inv
  BY InitInv, InvStep, PTL DEF Spec

(***************************************************************************)
(* The slots, the channels and the tabs hold what they are for, and no     *)
(* more than there is room for (RenderScheduler, MAX_OPEN_DOCUMENTS).      *)
(***************************************************************************)
THEOREM Typed == Spec => []TypeOK
<1>1. Inv => TypeOK
  BY DEF Inv
<1> QED
  BY <1>1, Invariance, PTL

(***************************************************************************)
(* Until another document comes into the editor, whatever is typed while a *)
(* job runs, the scheduler and the worker agree on the job, and the text   *)
(* in the editor is not dropped (queue_current, start_ready,               *)
(* drain_render_completions).                                              *)
(***************************************************************************)
THEOREM FirstKept == Spec => []FirstDocumentKept
<1>1. Inv => FirstDocumentKept
  BY DEF Inv, FirstInv, FirstDocumentKept
<1> QED
  BY <1>1, Invariance, PTL

(***************************************************************************)
(* However schedulers are replaced and jobs refused, the preview never     *)
(* goes from a page to an older one of the same document (finish).         *)
(***************************************************************************)
THEOREM NoFallBack == Spec => NeverBackwards
<1> DEFINE Step == \A p \in staged, q \in staged' : p.doc = q.doc => p.rev <= q.rev
<1>1. Inv /\ [MacNext]_vars => [Step]_pipeline
  <2> SUFFICES ASSUME Inv, [MacNext]_vars PROVE Step
    OBVIOUS
  <2>1. TypeOK' /\ (staged' = staged \/ Drain)
    BY TypeStep, OrderStep DEF Inv
  <2>2. CASE staged' = staged
    BY <2>2, BoundsAssumption DEF Inv, TypeOK, SlotsTyped, AtMostOne, Page, Rev
  <2>3. CASE Drain
    BY <2>3, FinishInOrder DEF Inv
  <2> QED
    BY <2>1, <2>2, <2>3
<1> QED
  BY <1>1, Invariance, PTL DEF Spec, NeverBackwards

-----------------------------------------------------------------------------
(* The same pipeline, as the GTK shell drives it *)

GtkInv == GtkTypeOK /\ FirstInv

LEMMA GtkInitInv == GtkInit => GtkInv
<1> SUFFICES ASSUME GtkInit PROVE GtkInv
  OBVIOUS
<1> USE BoundsAssumption DEF GtkInit, Init
<1>1. GtkTypeOK
  BY DEF GtkTypeOK, SlotsTyped, AtMostOne, Doc, Rev, Page, Running, Pending, Job, Completed
<1>2. InWorker = {}
  BY DEF InWorker
<1>3. CurrentInPipeline
  BY DEF CurrentInPipeline, Current, Doc
<1> QED
  BY <1>1, <1>2, <1>3 DEF GtkInv, FirstInv, OneOutstanding, OnePlace, PendingIsCurrent, OthersAreFollowed

LEMMA GtkCurrentTyped == GtkTypeOK => Current \in Page
  BY DEF GtkTypeOK, SlotsTyped, Current, Page

\* Types are kept.
LEMMA GtkTypeStep == GtkTypeOK /\ [GtkNext]_gtkVars => GtkTypeOK'
<1> SUFFICES ASSUME GtkTypeOK, [GtkNext]_gtkVars PROVE GtkTypeOK'
  OBVIOUS
<1> USE DEF GtkTypeOK, SlotsTyped
<1> DEFINE CommitTyped == rev' \in [Doc -> Rev] /\ Current' \in Page
<1>a. ASSUME Commit PROVE CommitTyped
  BY <1>a, BoundsAssumption DEF Commit, Current, Page, Doc, Rev, CommitTyped
<1>1. CASE Wake
  BY <1>1 DEF Wake, pipeline, documents, scheduler, worker, results
<1>2. CASE WakeWithEdit
  BY <1>2, <1>a DEF WakeWithEdit, Commit, Submitted, Pending, AtMostOne, worker, results
<1>3. CASE PumpStart
  <2>1. nextId' \in Nat /\ running' \subseteq Running /\ AtMostOne(running')
    BY <1>3 DEF PumpStart, StartReady, AtMostOne, Running, Pending, Page
  <2>2. pending' \subseteq Pending /\ AtMostOne(pending')
    BY <1>3 DEF PumpStart, StartReady, AtMostOne
  <2>3. request' \subseteq Job /\ AtMostOne(request')
    BY <1>3 DEF PumpStart, StartReady, AtMostOne, Job, Pending
  <2> QED
    BY <1>3, <2>1, <2>2, <2>3 DEF PumpStart, documents, results
<1>4. CASE PumpFinish
  <2>1. CASE completed = {} /\ UNCHANGED <<running, completed, results>>
    BY <1>4, <2>1 DEF PumpFinish, documents, results
  <2>2. CASE \E fits \in BOOLEAN : Finish(fits)
    <3>1. completed' = {} /\ running' \subseteq running
      BY <2>2 DEF Finish
    <3>2. PICK c \in completed :
            /\ staged' = staged \/ staged' = {c.page}
            /\ failed' = failed \/ failed' = {c.page}
      BY <2>2 DEF Finish
    <3>3. c.page \in Page
      BY DEF Completed
    <3> QED
      BY <1>4, <3>1, <3>2, <3>3 DEF PumpFinish, documents, AtMostOne
  <2> QED
    BY <1>4, <2>1, <2>2 DEF PumpFinish
<1>5. CASE SharedEdit
  BY <1>5, <1>a DEF SharedEdit, Commit, Submitted, Pending, AtMostOne, worker, results
<1>6. CASE GtkOpen
  <2>1. doc' \in Doc /\ loaded' \in Doc /\ rev' = rev
    BY <1>6, BoundsAssumption DEF GtkOpen, Install, Doc
  <2>2. Current' \in Page
    BY <2>1 DEF Current, Page
  <2> QED
    BY <1>6, <2>1, <2>2 DEF GtkOpen, Submitted, Pending, AtMostOne, worker, results
<1>7. CASE Quiet
  <2>1. pending' \subseteq Pending /\ AtMostOne(pending')
    BY <1>7 DEF Quiet, Pending, AtMostOne
  <2> QED
    BY <1>7, <2>1 DEF Quiet, documents, worker, results
<1>8. CASE EditorEvent
  BY <1>8 DEF EditorEvent, pipeline, documents, scheduler, worker, results
<1>9. CASE WorkerTakes
  BY <1>9 DEF WorkerTakes, Take, documents, scheduler, results, AtMostOne
<1>10. CASE WorkerDelivers
  BY <1>10 DEF WorkerDelivers, Deliver, documents, scheduler, results, AtMostOne, Job, Completed
<1>11. CASE UNCHANGED gtkVars
  BY <1>11 DEF gtkVars, pipeline, documents, scheduler, worker, results
<1> QED
  BY <1>1, <1>2, <1>3, <1>4, <1>5, <1>6, <1>7, <1>8, <1>9, <1>10, <1>11 DEF GtkNext

\* What only concerns the jobs is kept as long as the slot of the running job
\* and the worker are.
LEMMA JobsKept ==
    ASSUME OneOutstanding, OnePlace, UNCHANGED <<running, worker>>
    PROVE  InWorker' = InWorker /\ OneOutstanding' /\ OnePlace'
BY DEF OneOutstanding, OnePlace, InWorker, worker

\* A text that comes into the editor and is submitted at once.
LEMMA GtkSubmitted ==
    ASSUME GtkInv, GtkTypeOK', UNCHANGED <<running, worker>>,
           NEW quiet \in BOOLEAN, pending' = Submitted(Current', quiet)
    PROVE  GtkInv'
<1>1. \A q \in pending' : q.page = Current'
  BY DEF Submitted
<1>2. \E q \in pending' : q.page = Current'
  BY DEF Submitted
<1>3. PendingIsCurrent' /\ CurrentInPipeline' /\ OthersAreFollowed'
  BY <1>1, <1>2 DEF PendingIsCurrent, CurrentInPipeline, OthersAreFollowed
<1> QED
  BY <1>3, JobsKept DEF GtkInv, FirstInv

\* The worker moves its job: the same jobs, and nothing else changes.
LEMMA GtkMoved ==
    ASSUME GtkInv, GtkTypeOK', InWorker' = InWorker, OnePlace',
           UNCHANGED <<documents, scheduler, results>>
    PROVE  GtkInv'
<1> USE DEF documents, scheduler, results
<1>1. Current' = Current
  BY DEF Current
<1>2. OneOutstanding'
  BY DEF GtkInv, FirstInv, OneOutstanding
<1>3. PendingIsCurrent' /\ OthersAreFollowed'
  BY <1>1 DEF GtkInv, FirstInv, PendingIsCurrent, OthersAreFollowed
<1>4. CurrentInPipeline'
  BY <1>1 DEF GtkInv, FirstInv, CurrentInPipeline
<1> QED
  BY <1>2, <1>3, <1>4 DEF GtkInv, FirstInv

\* start_ready: the job it hands over is the text in the editor.
LEMMA GtkStarts ==
    ASSUME GtkInv, GtkTypeOK', PumpStart
    PROVE  GtkInv'
<1>1. CASE ~(running = {} /\ \E q \in pending : q.quiet)
  <2>1. UNCHANGED <<documents, scheduler, worker, results>>
    BY <1>1 DEF PumpStart, StartReady, documents, scheduler, worker, results
  <2> QED
    BY <2>1, JobsKept, GtkMoved DEF GtkInv, FirstInv, scheduler
<1>2. CASE running = {} /\ \E q \in pending : q.quiet
  <2>1. InWorker = {} /\ request = {} /\ executing = {} /\ completed = {}
    BY <1>2 DEF GtkInv, FirstInv, OneOutstanding, InWorker
  <2> DEFINE j == [id |-> nextId', page |-> Current]
  <2>a. PICK q \in pending :
          /\ nextId' = nextId + 1
          /\ running' = {[id |-> nextId', rev |-> q.page.rev]}
          /\ pending' = {}
          /\ request' = {[id |-> nextId', page |-> q.page]}
    BY <1>2, <2>1 DEF PumpStart, StartReady
  <2>b. q.page = Current
    BY DEF GtkInv, FirstInv, PendingIsCurrent
  <2>2. /\ pending' = {}
        /\ request' = {j}
        /\ running' = {[id |-> nextId', rev |-> Current.rev]}
    BY <2>a, <2>b
  <2>3. UNCHANGED <<documents, executing, completed, results>>
    BY DEF PumpStart
  <2>4. Current' = Current
    BY <2>3 DEF documents, Current
  <2>5. InWorker' = {j}
    BY <2>1, <2>2, <2>3 DEF InWorker
  <2>6. OneOutstanding'
    <3>1. \A r \in running' : j.id = r.id /\ j.page.rev = r.rev
      BY <2>2
    <3>2. running' # {}
      BY <2>2
    <3> HIDE DEF j
    <3> QED
      BY <2>5, <3>1, <3>2 DEF OneOutstanding
  <2>7. OnePlace'
    BY <2>1, <2>3 DEF OnePlace
  <2>8. PendingIsCurrent' /\ OthersAreFollowed'
    BY <2>2, <2>4, <2>5 DEF PendingIsCurrent, OthersAreFollowed
  <2>9. CurrentInPipeline'
    BY <2>2, <2>4, <2>5 DEF CurrentInPipeline
  <2> QED
    BY <2>6, <2>7, <2>8, <2>9 DEF GtkInv, FirstInv
<1> QED
  BY <1>1, <1>2

\* finish: the one job leaves the worker and the running slot together.  What
\* it takes away, the staged page included, is of another text, and then the
\* text in the editor is pending.
LEMMA GtkFinishes ==
    ASSUME GtkInv, GtkTypeOK', PumpFinish, NEW fits \in BOOLEAN, Finish(fits)
    PROVE  GtkInv'
<1> PICK c \in completed :
        /\ fits \/ c.page # Current
        /\ completed' = {}
        /\ running' = IF Known(c) THEN {} ELSE running
        /\ staged' = IF Accepted(c) /\ c.ok /\ fits THEN {c.page} ELSE staged
        /\ failed' = IF Accepted(c) /\ ~c.ok THEN {c.page} ELSE failed
  BY DEF Finish
<1> DEFINE j == [id |-> c.id, page |-> c.page]
<1>1. UNCHANGED <<documents, pending, nextId, request, executing>>
  BY DEF PumpFinish
<1>2. Current' = Current
  BY <1>1 DEF documents, Current
<1>3. j \in InWorker
  BY DEF InWorker
<1>4. InWorker = {j}
  BY <1>3 DEF GtkInv, FirstInv, OneOutstanding
<1>5. request' = {} /\ executing' = {} /\ InWorker' = {}
  BY <1>1 DEF GtkInv, FirstInv, OnePlace, InWorker
<1>6. Known(c) /\ running' = {}
  <2>1. PICK r \in running : j.id = r.id /\ j.page.rev = r.rev
    BY <1>3, <1>4 DEF GtkInv, FirstInv, OneOutstanding
  <2>2. r = [id |-> c.id, rev |-> c.page.rev]
    BY <2>1 DEF GtkInv, FirstInv, GtkTypeOK, SlotsTyped, Running
  <2> QED
    BY <2>1, <2>2 DEF Known
<1>7. OneOutstanding' /\ OnePlace' /\ PendingIsCurrent' /\ OthersAreFollowed'
  BY <1>1, <1>2, <1>5, <1>6
     DEF GtkInv, FirstInv, OneOutstanding, OnePlace, PendingIsCurrent, OthersAreFollowed
<1>8. CurrentInPipeline'
  <2>1. CASE \E q \in pending : q.page = Current
    BY <1>1, <1>2, <2>1 DEF CurrentInPipeline
  <2>2. CASE ~\E q \in pending : q.page = Current
    <3>1. pending = {}
      BY <2>2 DEF GtkInv, FirstInv, PendingIsCurrent
    <3>2. c.page = Current
      BY <1>3, <3>1 DEF GtkInv, FirstInv, OthersAreFollowed
    <3>3. Accepted(c)
      BY <1>6, <3>2 DEF Accepted, Current
    <3>4. staged' = {Current} \/ failed' = {Current}
      BY <3>2, <3>3 DEF GtkInv, FirstInv, GtkTypeOK, SlotsTyped, Completed
    <3> QED
      BY <1>2, <3>4 DEF CurrentInPipeline
  <2> QED
    BY <2>1, <2>2
<1> QED
  BY <1>7, <1>8 DEF GtkInv, FirstInv

-----------------------------------------------------------------------------
LEMMA GtkInvStep == GtkInv /\ [GtkNext]_gtkVars => GtkInv'
<1> SUFFICES ASSUME GtkInv, [GtkNext]_gtkVars PROVE GtkInv'
  OBVIOUS
<1>t. GtkTypeOK'
  BY GtkTypeStep DEF GtkInv, FirstInv
<1>1. CASE Wake
  <2>1. UNCHANGED <<documents, scheduler, worker, results>>
    BY <1>1 DEF Wake, pipeline
  <2> QED
    BY <1>t, <2>1, JobsKept, GtkMoved DEF GtkInv, FirstInv, scheduler
<1>2. CASE WakeWithEdit
  BY <1>t, <1>2, GtkSubmitted DEF WakeWithEdit
<1>3. CASE PumpStart
  BY <1>t, <1>3, GtkStarts
<1>4. CASE PumpFinish
  <2>1. CASE completed = {} /\ UNCHANGED <<running, completed, results>>
    <3>1. UNCHANGED <<documents, scheduler, worker, results>>
      BY <1>4, <2>1 DEF PumpFinish, scheduler, worker
    <3> QED
      BY <1>t, <3>1, JobsKept, GtkMoved DEF GtkInv, FirstInv, scheduler
  <2>2. CASE \E fits \in BOOLEAN : Finish(fits)
    BY <1>t, <1>4, <2>2, GtkFinishes
  <2> QED
    BY <1>4, <2>1, <2>2 DEF PumpFinish
<1>5. CASE SharedEdit
  BY <1>t, <1>5, GtkSubmitted DEF SharedEdit
<1>6. CASE GtkOpen
  BY <1>t, <1>6, GtkSubmitted DEF GtkOpen
<1>7. CASE Quiet
  <2>1. UNCHANGED <<documents, running, worker, results>>
    BY <1>7 DEF Quiet
  <2>2. /\ \A q \in pending' : \E p \in pending : q.page = p.page
        /\ \A p \in pending : \E q \in pending' : q.page = p.page
    <3>1. pending' = {[q EXCEPT !.quiet = TRUE] : q \in pending}
      BY <1>7 DEF Quiet
    <3>2. \A q \in pending : [q EXCEPT !.quiet = TRUE].page = q.page
      BY DEF GtkInv, FirstInv, GtkTypeOK, SlotsTyped, Pending
    <3> QED
      BY <3>1, <3>2
  <2>3. Current' = Current
    BY <2>1 DEF documents, Current
  <2>4. InWorker' = InWorker /\ OneOutstanding' /\ OnePlace'
    BY <2>1, JobsKept DEF GtkInv, FirstInv
  <2>5. PendingIsCurrent' /\ OthersAreFollowed'
    BY <2>2, <2>3, <2>4 DEF GtkInv, FirstInv, PendingIsCurrent, OthersAreFollowed
  <2>6. CurrentInPipeline'
    <3>1. \/ Current \in staged \cup failed
          \/ \E q \in pending : q.page = Current
          \/ \E r \in running, j \in InWorker : j.id = r.id /\ j.page = Current
      BY DEF GtkInv, FirstInv, CurrentInPipeline
    <3>2. CASE Current \in staged \cup failed
      BY <2>1, <2>3, <3>2 DEF results, CurrentInPipeline
    <3>3. CASE \E q \in pending : q.page = Current
      BY <2>2, <2>3, <3>3 DEF CurrentInPipeline
    <3>4. CASE \E r \in running, j \in InWorker : j.id = r.id /\ j.page = Current
      BY <2>1, <2>3, <2>4, <3>4 DEF CurrentInPipeline
    <3> QED
      BY <3>1, <3>2, <3>3, <3>4
  <2> QED
    BY <1>t, <2>4, <2>5, <2>6 DEF GtkInv, FirstInv
<1>8. CASE EditorEvent
  <2>1. UNCHANGED <<documents, scheduler, worker, results>>
    BY <1>8 DEF EditorEvent, pipeline
  <2> QED
    BY <1>t, <2>1, JobsKept, GtkMoved DEF GtkInv, FirstInv, scheduler
<1>9. CASE WorkerTakes
  <2>1. InWorker' = InWorker /\ OnePlace'
    BY <1>9 DEF WorkerTakes, Take, InWorker, GtkInv, FirstInv, OnePlace
  <2> QED
    BY <1>t, <1>9, <2>1, GtkMoved DEF WorkerTakes, Take
<1>10. CASE WorkerDelivers
  <2>1. PICK j \in executing, ok \in BOOLEAN :
          completed' = {[id |-> j.id, page |-> j.page, ok |-> ok]}
    BY <1>10 DEF WorkerDelivers, Deliver
  <2>2. executing = {j} /\ j = [id |-> j.id, page |-> j.page]
    BY DEF GtkInv, FirstInv, GtkTypeOK, SlotsTyped, AtMostOne, Job
  <2>3. completed = {} /\ request' = {} /\ request = {} /\ executing' = {}
    BY <1>10, <2>2 DEF WorkerDelivers, Deliver, GtkInv, FirstInv, OnePlace
  <2>4. InWorker = {j} /\ InWorker' = {j}
    BY <2>1, <2>2, <2>3 DEF InWorker
  <2>5. OnePlace'
    BY <2>3 DEF OnePlace
  <2> QED
    BY <1>t, <1>10, <2>4, <2>5, GtkMoved DEF WorkerDelivers, Deliver
<1>11. CASE UNCHANGED gtkVars
  <2>1. UNCHANGED <<documents, scheduler, worker, results>>
    BY <1>11 DEF gtkVars, pipeline
  <2> QED
    BY <1>t, <2>1, JobsKept, GtkMoved DEF GtkInv, FirstInv, scheduler
<1> QED
  BY <1>1, <1>2, <1>3, <1>4, <1>5, <1>6, <1>7, <1>8, <1>9, <1>10, <1>11 DEF GtkNext

LEMMA GtkInvariance == GtkSpec => []GtkInv
<1>1. QED
  BY GtkInitInv, GtkInvStep, PTL DEF GtkSpec

\* The slots and channels hold what they are for (pump_ui_work, RenderWorker).
THEOREM GtkTyped == GtkSpec => []GtkTypeOK
<1>1. GtkInv => GtkTypeOK
  BY DEF GtkInv, FirstInv
<1> QED
  BY <1>1, GtkInvariance, PTL

\* The scheduler's running slot and the worker agree on the one job there is,
\* so that the bounded request channel never refuses one.
THEOREM OneJob == GtkSpec => []OneOutstanding
<1>1. GtkInv => OneOutstanding
  BY DEF GtkInv, FirstInv
<1> QED
  BY <1>1, GtkInvariance, PTL

\* Whatever is typed, opened, completed, discarded or refused in whichever
\* order, the text in the editor is staged, reported as failed, pending or
\* being rendered.
THEOREM NothingDropped == GtkSpec => []CurrentInPipeline
<1>1. GtkInv => CurrentInPipeline
  BY DEF GtkInv, FirstInv
<1> QED
  BY <1>1, GtkInvariance, PTL
===============================================================================
