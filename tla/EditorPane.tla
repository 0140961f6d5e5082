------------------------------ MODULE EditorPane ------------------------------
(***************************************************************************)
(* The macOS editor: the native text widget, the adapter that mirrors it   *)
(* (platform/macos/editor.rs, core/editor_contract.rs) and the document    *)
(* (Document), with the input that reaches them through                    *)
(* platform/macos/native.rs: keys, input methods, undo and redo, paste,    *)
(* find and replace, reload, and the recovery prompt.  Every window event  *)
(* is handled to its end before the next one, so the commit of an edit and *)
(* its acknowledgement are one step.  Characters are one byte wide here.   *)
(***************************************************************************)
EXTENDS FindReplace

CONSTANTS
    Opened,        \* the texts files hold
    Keys,          \* what a key or an input method puts in
    Pastes,        \* what a paste, or Enter, puts in
    Queries,       \* queries of the find bar
    Replacements,  \* contents of its replacement field
    MaxCompositions  \* bound on the input-method compositions of a behaviour

\* Characters are one byte wide.
ASSUME EditorAssumption ==
    /\ \A text \in Opened \cup Keys \cup Pastes \cup Replacements :
          text \in Seq(ToSet(text) \ {Trail})
    /\ \A q \in Queries : q.pattern \in Seq(ToSet(q.pattern))

Backspace == <<"backspace">>
Delete    == <<"delete">>

VARIABLES
    doc,        \* the Document of the active tab
    widget,     \* iced's text_editor::Content: its text and selection
    adapter,    \* the IcedEditorAdapter
    find,       \* the tab's FindSession, while the find bar is open
    deciding,   \* is the recovery prompt up?
    status      \* "running", or how the program ended: "failed", "panicked"

vars == <<doc, widget, adapter, find, deciding, status>>

NoComposition == [id |-> 0]
NoSession == [query |-> "none"]

CaretAt(i) == [anchor |-> i, head |-> i]
From(sel) == Min({sel.anchor, sel.head})
To(sel)   == Max({sel.anchor, sel.head})
Over(sel, word) == [from |-> From(sel), to |-> To(sel), with |-> word]

-----------------------------------------------------------------------------
(* LineByteIndex: where lines start, for translating line and column *)

LineStarts(text) == {0} \cup {i \in 1 .. Len(text) : text[i] = Newline}

IndexOf(text) == [starts |-> LineStarts(text), len |-> Len(text), text |-> text]

\* Mutant of Reindexed: a line that starts where the edit ends is kept.
ReindexedKeepingEnd(index, e) ==
    [index EXCEPT
       !.starts = {s \in @ : s <= e.from}
                  \cup {s + Delta(e) : s \in {t \in @ : t >= e.to /\ t > e.from}}
                  \cup {e.from + i : i \in {j \in DOMAIN e.with : e.with[j] = Newline}},
       !.len = @ + Delta(e)]

\* LineByteIndex::apply: `text' stays what it was.
Reindexed(index, e) ==
    [index EXCEPT
       !.starts = {s \in @ : s <= e.from}
                  \cup {s + Delta(e) : s \in {t \in @ : t > e.to}}
                  \cup {e.from + i : i \in {j \in DOMAIN e.with : e.with[j] = Newline}},
       !.len = @ + Delta(e)]

Outside == -1
Panic   == -2

LineOf(starts, i) == Cardinality({s \in starts : s <= i})
ColumnOf(starts, i) == i - Max({s \in starts : s <= i})

\* Where a line starts: nowhere, if there are not so many.
StartsOf(starts, line) == {s \in starts : LineOf(starts, s) = line}

\* position_at, and where the widget then puts the caret in its own text.
Place(w, index, i) ==
    LET starts == LineStarts(w.text)
        line   == StartsOf(starts, LineOf(index.starts, i))
        end    == Min({Len(w.text)} \cup {s - 1 : s \in {t \in starts : t > Min(line)}})
    IN  IF line = {} THEN Len(w.text)
        ELSE Min({end, Min(line) + ColumnOf(index.starts, i)})

Placed(w, index, sel) ==
    [w EXCEPT !.sel = [anchor |-> Place(w, index, sel.anchor),
                       head |-> Place(w, index, sel.head)]]

\* byte_at, for the position the widget calls byte i of its own text.
ByteAt(w, index, i) ==
    LET line   == StartsOf(index.starts, LineOf(LineStarts(w.text), i))
        column == ColumnOf(LineStarts(w.text), i)
        start  == Min(line)
        end    == Min({index.len} \cup {s \in index.starts : s > start})
    IN  IF line = {} \/ start > index.len THEN Outside
        ELSE IF end > Len(index.text) THEN Panic
        ELSE IF start + column <= end THEN start + column ELSE Outside

\* current_selection: the selection in bytes of the mirror, or why not.
Read(w, index) ==
    LET head == ByteAt(w, index, w.sel.head)
        anchor == ByteAt(w, index, w.sel.anchor)
    IN  [ok |-> {head, anchor} \cap {Outside, Panic} = {},
         panics |-> Panic \in {head, anchor},
         sel |-> [anchor |-> anchor, head |-> head]]

SelectionRead == Read(widget, adapter.index)

-----------------------------------------------------------------------------
(* The adapter *)

\* Mutant of Installed: the revision of the text before is kept.
InstalledAtOldRevision(a, d) ==
    [a EXCEPT !.mirror = d.text, !.index = IndexOf(d.text), !.pending = FALSE,
              !.composition = NoComposition]

\* install_open_snapshot: the tracker is left as it was.
Installed(a, d) ==
    [a EXCEPT !.mirror = d.text, !.index = IndexOf(d.text),
              !.revision = d.revision, !.pending = FALSE,
              !.composition = NoComposition]

NewAdapter(d) ==
    [mirror |-> d.text, index |-> IndexOf(d.text), revision |-> d.revision,
     pending |-> FALSE, composition |-> NoComposition,
     tracker |-> NoComposition, compositions |-> 0]

Mirrored(a, e) ==
    [a EXCEPT !.mirror = Splice(@, e), !.index = Reindexed(@, e)]

\* A native edit puts its replacement in place of the widget's selection.
Typed(w, word) ==
    [text |-> Splice(w.text, Over(w.sel, word)),
     sel |-> CaretAt(From(w.sel) + Len(word))]

\* minimal_diff: what is left without the common prefix and suffix.
MinimalDiff(old, new) ==
    LET prefix == Len(LongestCommonPrefix({old, new}))
        rest(t) == Reverse(SubSeq(t, prefix + 1, Len(t)))
        suffix == Len(LongestCommonPrefix({rest(old), rest(new)}))
    IN  [from |-> prefix, to |-> Len(old) - suffix,
         with |-> Slice(new, prefix, Len(new) - suffix)]

\* Widget and adapter follow an edit of the document: select, paste.
Follow(pane, e) ==
    [w |-> Typed(Placed(pane.w, pane.a.index, [anchor |-> e.from, head |-> e.to]), e.with),
     a |-> Mirrored(pane.a, e)]

Pane == [w |-> widget, a |-> adapter]

\* resync_to: the one span that differs is followed.
Resynced(d) == IF adapter.mirror = d.text THEN Pane
               ELSE Follow(Pane, MinimalDiff(adapter.mirror, d.text))

\* apply_external_change for every change of a shared edit, given as the
\* edits of each; the composition that began at another revision ends.
FollowsChanges == ~ adapter.pending /\ adapter.revision = doc.revision

\* The widget follows the edits of a change from the last to the first.
FollowEdits(pane, edits) ==
    LET n == Len(edits)
        after[k \in 0 .. n] ==
          IF k = 0 THEN pane ELSE Follow(after[k - 1], edits[n - k + 1])
    IN  after[n]

Followed(changes) ==
    LET after[k \in 0 .. Len(changes)] ==
          IF k = 0 THEN Pane ELSE FollowEdits(after[k - 1], changes[k])
    IN  after[Len(changes)]

FollowChanges(changes, d) ==
    adapter' = [Followed(changes).a
                  EXCEPT !.revision = d.revision,
                         !.tracker = NoComposition,
                         !.composition = IF adapter.tracker = NoComposition
                                           THEN @ ELSE NoComposition]

\* apply_shared_changes, for the adapter: a resynchronisation forgets the
\* composition and the commit it was waiting for, the tracker does not.
AdapterAfter(changes) ==
    IF FollowsChanges THEN FollowChanges(changes, doc')
    ELSE adapter' = [Resynced(doc').a
                       EXCEPT !.revision = doc'.revision, !.pending = FALSE,
                              !.composition = NoComposition]

Fail  == status' = "failed" /\ UNCHANGED <<doc, widget, adapter, find, deciding>>
Crash == status' = "panicked" /\ UNCHANGED <<doc, widget, adapter, find, deciding>>

-----------------------------------------------------------------------------
(* Native edits: perform, then process_editor_events *)

\* apply_editor_event and acknowledge_local_commit.  With the recovery prompt
\* up the request is dropped, and the adapter goes on waiting for its answer.
CommitLocal(a, base, e, kind) ==
    LET tx == [base |-> base, kind |-> kind, edits |-> <<e>>]
    IN  IF deciding
          THEN /\ adapter' = [a EXCEPT !.pending = TRUE]
               /\ UNCHANGED <<doc, status>>
        ELSE IF Accepts(doc, tx)
          THEN /\ doc' = Applied(doc, tx, NoContext)
               /\ adapter' = [a EXCEPT !.revision = doc'.revision]
               /\ UNCHANGED status
        ELSE /\ status' = "failed"
             /\ adapter' = [a EXCEPT !.pending = TRUE]
             /\ UNCHANGED doc

\* edit_delta: Backspace and Delete with no selection take one character.
EditDelta(key, sel) ==
    CASE key = Backspace /\ Collapsed(sel) ->
           [from |-> Max({0, sel.head - 1}), to |-> sel.head, with |-> << >>]
      [] key = Delete /\ Collapsed(sel) ->
           [from |-> sel.head, to |-> Min({Len(adapter.mirror), sel.head + 1}),
            with |-> << >>]
      [] key \in {Backspace, Delete} /\ ~ Collapsed(sel) -> Over(sel, << >>)
      [] OTHER -> Over(sel, key)

\* The widget does the same by its own selection.
Performed(w, key) ==
    CASE key = Backspace /\ Collapsed(w.sel) ->
           Typed([w EXCEPT !.sel.anchor = Max({0, @ - 1})], << >>)
      [] key = Delete /\ Collapsed(w.sel) ->
           Typed([w EXCEPT !.sel.head = Min({Len(w.text), @ + 1})], << >>)
      [] key \in {Backspace, Delete} /\ ~ Collapsed(w.sel) -> Typed(w, << >>)
      [] OTHER -> Typed(w, key)

Press(key) ==
    /\ status = "running" /\ ~ deciding /\ find = NoSession
    /\ IF adapter.pending THEN Fail
       ELSE IF SelectionRead.panics THEN Crash
       ELSE IF ~ SelectionRead.ok THEN Fail
       ELSE LET e == EditDelta(key, SelectionRead.sel) IN
            /\ widget' = Performed(widget, key)
            /\ CommitLocal(Mirrored(adapter, e), adapter.revision, e, "typing")
            /\ UNCHANGED <<find, deciding>>

MoveCaret(sel) ==
    /\ status = "running"
    /\ widget' = [widget EXCEPT !.sel = sel]
    /\ UNCHANGED <<doc, adapter, find, deciding, status>>

-----------------------------------------------------------------------------
(* Input methods: events of the window, not keys *)

\* start_composition, where it is not refused; the tracker only begins when
\* it holds no composition of its own.
Composing(a) ==
    LET started == [id |-> a.compositions + 1, base |-> a.revision,
                    from |-> From(SelectionRead.sel), to |-> To(SelectionRead.sel)]
    IN  [a EXCEPT !.compositions = @ + 1,
                  !.composition = started,
                  !.tracker = IF @ = NoComposition THEN started ELSE @]

Cancelled(a) == [a EXCEPT !.composition = NoComposition, !.tracker = NoComposition]

StartComposition(a) ==
    /\ a.compositions < MaxCompositions
    /\ IF a.pending THEN Fail
       ELSE IF SelectionRead.panics THEN Crash
       ELSE IF ~ SelectionRead.ok THEN Fail
       ELSE /\ adapter' = Composing(a)
            /\ UNCHANGED <<doc, widget, find, deciding, status>>

\* Opened: a composition that is under way is cancelled first.
ImeOpened ==
    /\ status = "running"
    /\ StartComposition(IF adapter.pending \/ adapter.composition # NoComposition
                          THEN Cancelled(adapter) ELSE adapter)

ImePreedit ==
    /\ status = "running"
    /\ adapter.composition = NoComposition
    /\ StartComposition(adapter)

ImeClosed ==
    /\ status = "running"
    /\ adapter' = Cancelled(adapter)
    /\ UNCHANGED <<doc, widget, find, deciding, status>>

\* commit_composition: the mirror changes where the composition began, the
\* widget at its selection, and both do so before the tracker is asked.  The
\* window system sends a Preedit before every Commit.
ImeCommit(word) ==
    /\ status = "running"
    /\ adapter.composition # NoComposition
    /\ IF adapter.pending THEN Fail
       ELSE IF adapter.composition.to > Len(adapter.mirror) THEN Crash
       ELSE LET c == adapter.composition
                e == [from |-> c.from, to |-> c.to, with |-> word]
                a == [Mirrored(adapter, e) EXCEPT !.composition = NoComposition]
            IN  /\ widget' = Typed(widget, word)
                /\ UNCHANGED <<find, deciding>>
                /\ IF adapter.tracker # c
                     THEN /\ adapter' = a
                          /\ status' = "failed"
                          /\ UNCHANGED doc
                     ELSE CommitLocal([a EXCEPT !.tracker = NoComposition], c.base, e, "ime")

-----------------------------------------------------------------------------
(* Edits made through the shared actions of AppState *)

\* apply_edit_plans: all plans, or none when the text would grow too large.
PlansFit(plans) ==
    /\ plans # << >>
    /\ \A plan \in ToSet(plans) : PlanFits(plan)
    /\ \A k \in DOMAIN plans :
          Len(doc.text) + Sum(LAMBDA plan : Sum(Delta, plan), SubSeq(plans, 1, k))
             <= MaxDocument

\* Every plan is one transaction, at the revision the one before it left.
ApplyPlan(d, plan) ==
    LET tx == [base |-> d.revision, kind |-> "programmatic", edits |-> plan]
    IN  IF Accepts(d, tx) THEN Applied(d, tx, NoContext) ELSE d

ApplyPlans(plans) ==
    LET after[k \in 0 .. Len(plans)] ==
          IF k = 0 THEN doc ELSE ApplyPlan(after[k - 1], plans[k])
    IN  after[Len(plans)]

\* after_shared_edit, for the widget too.
AfterSharedEdit(changes, sel) ==
    /\ AdapterAfter(changes)
    /\ widget' = Placed(IF FollowsChanges THEN Followed(changes).w ELSE Resynced(doc').w,
                        adapter'.index, sel)
    /\ UNCHANGED <<deciding, status>>

\* insert_text, for a paste; smart Enter outside lists and quotes does this too.
Paste(word) ==
    /\ status = "running" /\ ~ deciding
    /\ IF SelectionRead.panics THEN Crash
       ELSE /\ SelectionRead.ok
            /\ LET e == Over(SelectionRead.sel, word) IN
               /\ Accepts(doc, [base |-> doc.revision, edits |-> <<e>>])
               /\ doc' = Applied(doc, [base |-> doc.revision, kind |-> "programmatic",
                                       edits |-> <<e>>], NoContext)
               /\ AfterSharedEdit(<<<<e>>>>, CaretAt(e.from + Len(word)))
               /\ UNCHANGED find

UndoKey ==
    /\ status = "running" /\ ~ deciding
    /\ CanUndo(doc)
    /\ doc' = Undone(doc)
    /\ IF FollowsChanges
         THEN /\ FollowChanges(<<Last(doc.undo).inverse>>, doc')
              /\ widget' = Followed(<<Last(doc.undo).inverse>>).w
              /\ UNCHANGED status
         ELSE status' = "failed" /\ UNCHANGED <<widget, adapter>>
    /\ UNCHANGED <<find, deciding>>

RedoKey ==
    /\ status = "running" /\ ~ deciding
    /\ CanRedo(doc)
    /\ doc' = Redone(doc)
    /\ IF FollowsChanges
         THEN /\ FollowChanges(<<Last(doc.redo).edits>>, doc')
              /\ widget' = Followed(<<Last(doc.redo).edits>>).w
              /\ UNCHANGED status
         ELSE status' = "failed" /\ UNCHANGED <<widget, adapter>>
    /\ UNCHANGED <<find, deciding>>

-----------------------------------------------------------------------------
(* The find bar *)

\* highlight_match, refused for an adapter at another revision.
Highlighted(w, a, d, match) ==
    IF match # None /\ a.revision = d.revision
      THEN Placed(w, a.index, [anchor |-> match.from, head |-> match.to])
      ELSE w

Caret(read) == IF read.ok THEN read.sel.head ELSE 0

Locate(session, from, forward) ==
    LET found == FindNext(doc.text, session.query, from, forward, TRUE) IN
    /\ find' = [session EXCEPT !.current = found]
    /\ widget' = Highlighted(widget, adapter, doc, found)
    /\ UNCHANGED <<doc, adapter, deciding, status>>

\* refresh_search: a query is searched for from the caret.
Search(query) ==
    /\ status = "running" /\ ~ deciding
    /\ IF SelectionRead.panics THEN Crash
       ELSE Locate([query |-> query, current |-> None], Caret(SelectionRead), TRUE)

\* From the current match, or from the caret when there is none.
FindMove(forward) ==
    /\ status = "running" /\ ~ deciding /\ find # NoSession
    /\ IF find.current = None
         THEN IF SelectionRead.panics THEN Crash
              ELSE Locate(find, Caret(SelectionRead), forward)
         ELSE Locate(find, IF forward THEN find.current.from + 1
                                      ELSE Max({0, find.current.from - 1}), forward)

CloseFind ==
    /\ find # NoSession /\ status = "running" /\ ~ deciding
    /\ find' = NoSession
    /\ UNCHANGED <<doc, widget, adapter, deciding, status>>

\* replace_current and find_move: the recorded range is checked against the
\* text's length, not against the query; the next match is looked for.
ReplaceCurrent(word) ==
    /\ status = "running" /\ ~ deciding /\ find # NoSession
    /\ find.current # None
    /\ find.current.to <= Len(doc.text)
    /\ LET e == [from |-> find.current.from, to |-> find.current.to, with |-> word]
           p == IF FollowsChanges THEN Followed(<<<<e>>>>)
                                  ELSE Resynced(ApplyPlans(<<<<e>>>>))
           w == Placed(p.w, p.a.index, CaretAt(e.from + Len(word)))
           found == FindNext(doc'.text, find.query, Caret(Read(w, p.a.index)), TRUE, TRUE)
       IN  /\ PlansFit(<<<<e>>>>)
           /\ doc.revision < LastRevision
           /\ doc' = ApplyPlans(<<<<e>>>>)
           /\ AdapterAfter(<<<<e>>>>)
           /\ IF Read(w, p.a.index).panics
                THEN /\ status' = "panicked" /\ widget' = w
                     /\ find' = [find EXCEPT !.current = None]
                ELSE /\ widget' = Highlighted(w, adapter', doc', found)
                     /\ find' = [find EXCEPT !.current = found]
                     /\ UNCHANGED status
           /\ UNCHANGED deciding

ReplaceEvery(word) ==
    /\ status = "running" /\ ~ deciding /\ find # NoSession
    /\ LET plans == ReplaceAllPlans(doc.text, find.query, word) IN
       /\ PlansFit(plans)
       /\ doc.revision + Len(plans) <= LastRevision
       /\ doc' = ApplyPlans(plans)
       /\ AfterSharedEdit(plans, CaretAt(SelectionAfter(Last(plans))))
       /\ find' = [find EXCEPT !.current = None]

-----------------------------------------------------------------------------
(* Whole documents *)

\* SourcePane::replace, after a reload, an open, or a recovery.
Show(d) ==
    /\ doc' = d
    /\ adapter' = Installed(adapter, d)
    /\ widget' = [text |-> d.text, sel |-> CaretAt(Len(d.text))]

Reload(text) ==
    /\ status = "running" /\ ~ deciding
    /\ Show(NewDocument(text))
    /\ UNCHANGED <<find, deciding, status>>

AdoptRecovery(text) ==
    /\ status = "running" /\ deciding
    /\ Show(NewDocument(text))
    /\ deciding' = FALSE
    /\ UNCHANGED <<find, status>>

DismissRecovery ==
    /\ status = "running" /\ deciding
    /\ deciding' = FALSE
    /\ UNCHANGED <<doc, widget, adapter, find, status>>

Init ==
    /\ doc \in {NewDocument(text) : text \in Opened}
    /\ widget = [text |-> doc.text, sel |-> CaretAt(Len(doc.text))]
    /\ adapter = NewAdapter(doc)
    /\ find = NoSession
    /\ deciding \in BOOLEAN
    /\ status = "running"

Next ==
    \/ \E key \in Keys \cup {Backspace, Delete} : Press(key)
    \/ \E i \in 0 .. Len(widget.text) : \E j \in i .. Len(widget.text) : 
           MoveCaret([anchor |-> i, head |-> j])
    \/ ImeOpened
    \/ ImePreedit
    \/ ImeClosed
    \/ \E word \in Keys : ImeCommit(word)
    \/ \E word \in Pastes : Paste(word)
    \/ UndoKey
    \/ RedoKey
    \/ \E query \in Queries : Search(query)
    \/ \E forward \in BOOLEAN : FindMove(forward)
    \/ CloseFind
    \/ \E word \in Replacements : ReplaceCurrent(word)
    \/ \E word \in Replacements : ReplaceEvery(word)
    \/ \E text \in Opened : Reload(text)
    \/ \E text \in Opened : AdoptRecovery(text)
    \/ DismissRecovery

Spec == Init /\ [][Next]_vars

-----------------------------------------------------------------------------
(* Properties *)

Settled == status = "running" /\ ~ adapter.pending

\* The text the adapter computes edits against, and the revision it bases
\* them on, are the document's, through typing, input methods, undo, redo,
\* replacements of several edits, reloads and recoveries.
MirrorIsDocument ==
    Settled => adapter.mirror = doc.text /\ adapter.revision = doc.revision

\* The line starts and the length, updated edit by edit, are those of the
\* mirror: LineByteIndex::apply agrees with from_text.
IndexTracks ==
    status = "running" => /\ adapter.index.starts = LineStarts(adapter.mirror)
                          /\ adapter.index.len = Len(adapter.mirror)

\* Replacing all replaces every match, however many plans that takes, or
\* changes nothing.
ReplacesAllOrNothing ==
    [][\A word \in Replacements :
          ReplaceEvery(word) => doc'.text = Replaced(doc.text, find.query, word)]_vars

\* Comment of byte_at: "Clamp and reject instead of crashing".
NeverPanics == status # "panicked"

\* What the window shows is what would be saved.
ShownIsDocument == Settled => widget.text = doc.text

\* Input never ends the program.
KeepsRunning == status = "running"

\* The match the find bar would replace is one.
CurrentMatches ==
    find # NoSession /\ find.current # None
      => /\ find.current.to <= Len(doc.text)
         /\ find.current.from \in Accepted(doc.text, find.query)
===============================================================================
