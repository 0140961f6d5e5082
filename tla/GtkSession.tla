------------------------------ MODULE GtkSession ------------------------------
(***************************************************************************)
(* The GTK program (platform/linux_gtk.rs): the GtkSourceView, its adapter *)
(* and the queue of events from there to the pump; the session with its    *)
(* tabs; saving, polling for changes on disk, the close prompt; autosave,  *)
(* crash and recovery.  Every callback runs to its end on the main loop;   *)
(* only the file system and other programs get in between.                 *)
(*                                                                         *)
(* The session is a RefCell.  What a match or an if let borrows in its     *)
(* head stays borrowed in its arms, and where an arm borrows the session   *)
(* once more the borrow panics; the profile makes that the end of the      *)
(* process (Aborts).                                                       *)
(*                                                                         *)
(* Texts are one line here: the line index of the adapter is its length    *)
(* (EditorPane has lines).  Every write makes a new DiskVersion.  The      *)
(* revision of a slot is that of its document (SessionTabs).               *)
(***************************************************************************)
EXTENDS Document

CONSTANTS
    Path,       \* files the user works with
    Untitled,   \* the path of a document without one
    Starter,    \* STARTER_DOCUMENT
    Generated,  \* what the generated page looks like in the source view
    Keys,       \* what typing, a paste or a command puts in
    Foreign,    \* what other programs write
    MaxTabs,    \* MAX_OPEN_DOCUMENTS
    MaxWork     \* bound on the edits and writes of a behaviour

ASSUME GtkAssumption ==
    /\ Untitled \notin Path
    /\ {MaxTabs, MaxWork} \subseteq Nat
    /\ \A text \in Keys \cup Foreign \cup {Starter, Generated} : text \in Seq(ToSet(text))

VARIABLES
    tabs,      \* the open documents, in the order they were opened
    active,    \* the only one the window shows
    view,      \* the text of the GtkSourceView, and whether keys can edit it
    adapter,   \* GtkEditorInner
    queue,     \* the commits the pump has still to take
    files,     \* what programs find on disk
    stable,    \* what is found there after a power failure
    writes,    \* number of writes so far
    saving,    \* the save that is under way
    journal,   \* what the autosave store would recover
    lastFile,  \* the file of the session state kept there
    phase      \* "running", "prompt" (the close prompt), "chooser" (where to
               \* save), "down"

window  == <<tabs, active, view, adapter, queue>>
storage == <<files, stable, writes, saving>>
kept    == <<journal, lastFile>>
vars == <<window, storage, kept, phase>>

None == [stamp |-> -1]
NotSaving == [step |-> "none"]
NoComposition == [base |-> -1]

tab == tabs[active]
doc == tab.doc

UserActs == phase = "running" /\ saving = NotSaving
\* Dialogs run a main loop of their own: timers and the pump go on.
LoopRuns == phase # "down" /\ saving = NotSaving

-----------------------------------------------------------------------------
(* The adapter *)

\* install_open_snapshot: a composition goes on.
Installed(s) ==
    [s EXCEPT !.view.text = s.doc.text, !.adapter.len = Len(s.doc.text),
              !.adapter.revision = s.doc.revision, !.adapter.pending = FALSE,
              !.adapter.suppressed = FALSE, !.adapter.astray = FALSE]

Shown == [doc |-> doc, view |-> view, adapter |-> adapter, queue |-> queue]

\* apply_external_change: a composition of another revision ends, and keys do
\* nothing until the input method has noticed.  An edit outside the index is
\* an error; then the signals of the buffer stay suppressed.
ChangeFits(s, edits) == \A e \in ToSet(edits) : e.to <= s.adapter.len

Clamped(text, e) == [e EXCEPT !.from = Min({@, Len(text)}), !.to = Min({@, Len(text)})]

\* Mutant of Followed: the edits are taken from the first to the last.
FollowedForward(text, edits) == FoldLeft(LAMBDA t, e : Splice(t, Clamped(t, e)), text, edits)

\* From the last edit to the first, each at what the buffer has of its place.
Followed(text, edits) == FoldRight(LAMBDA e, t : Splice(t, Clamped(t, e)), edits, text)

Changed(s, edits) ==
    LET ends == s.adapter.composition # NoComposition
                /\ s.adapter.composition.base # s.doc.revision
        a == [s.adapter EXCEPT !.composition = IF ends THEN NoComposition ELSE @,
                               !.guard = @ \/ ends]
    IN  IF ~ ChangeFits(s, edits) THEN [s EXCEPT !.adapter = [a EXCEPT !.suppressed = TRUE]]
        ELSE [s EXCEPT
                !.view.text = Followed(@, edits),
                !.adapter = [a EXCEPT !.suppressed = FALSE, !.len = @ + Sum(Delta, edits),
                                      !.revision = s.doc.revision]]

\* follow_shared_edit: when the change cannot be followed, all is installed.
FollowShared(s, edits) ==
    IF ChangeFits(s, edits) THEN Changed(s, edits) ELSE Installed(Changed(s, edits))

\* insert-text or delete-range, then finish_native_edit: the index follows and
\* a commit at the adapter's revision is queued.  While composing, a deletion
\* is the first half of what the input method puts in, and the document takes
\* it where the composition began.
NativeEdit(s, e) ==
    LET seen == ~ s.adapter.suppressed /\ e.to <= s.adapter.len
        c == s.adapter.composition
        shown == [s EXCEPT !.view.text = Splice(@, e)]
        indexed == [shown EXCEPT !.adapter.len = @ + Delta(e)]
        Asks(base, edit) ==
            [indexed EXCEPT
               !.adapter.pending = TRUE, !.adapter.composition = NoComposition,
               !.queue = Append(@, [base |-> base, kind |-> "typing", edits |-> <<edit>>])]
    IN  IF ~ seen THEN shown
        ELSE IF c = NoComposition THEN Asks(s.adapter.revision, e)
        ELSE IF e.with = << >> THEN indexed
        ELSE Asks(c.base, [from |-> c.from, to |-> c.to, with |-> e.with])

\* A key over a selection deletes first and inserts then; astray remembers,
\* for the properties, that view and document took a text at different places,
\* or that it was composed over another text than it came to.
Keyed(s, from, to, word) ==
    LET c == s.adapter.composition
        begun == IF \/ c = NoComposition
                    \/ c.from = from /\ c.to = to /\ c.base = s.adapter.revision
                   THEN s
                   ELSE [s EXCEPT !.adapter.astray = TRUE]
        deleted == IF from = to THEN begun
                   ELSE NativeEdit(begun, [from |-> from, to |-> to, with |-> << >>])
    IN  IF word = << >> THEN deleted
        ELSE NativeEdit(deleted, [from |-> from, to |-> from, with |-> word])

\* apply_editor_event and acknowledge_local_commit: only the last commit asked
\* for, since the last snapshot was installed, can be acknowledged.
Heard ==
    /\ Len(queue) = 1 /\ adapter.pending
    /\ Accepts(doc, queue[1]) /\ queue[1].base = adapter.revision

Committed ==
    LET now == Applied(doc, queue[1], NoContext)
    IN  [Shown EXCEPT !.doc = now, !.queue = << >>, !.adapter.pending = FALSE,
                      !.adapter.revision = now.revision]

-----------------------------------------------------------------------------
(* The session *)

Untouched(text) == [doc |-> NewDocument(text), dirty |-> FALSE, path |-> Untitled,
                    saved |-> None, conflict |-> None]

OpenedTab(p) == [doc |-> NewDocument(files[p].text), dirty |-> FALSE, path |-> p,
                 saved |-> files[p], conflict |-> None]

\* DocumentEdited, after a commit, a command, an undo or a redo.
Edited(t, d) == [t EXCEPT !.doc = d, !.dirty = TRUE]

\* adopt_opened_document: into the tab of that path, in place of a lone clean
\* untitled one, or into a new tab.  At the limit nothing is opened.
Adopted(open, shown, p) ==
    LET same == {i \in DOMAIN open : open[i].path = p}
        alone == Len(open) = 1 /\ ~ open[1].dirty /\ open[1].path = Untitled
    IN  IF same # {} THEN [tabs |-> [open EXCEPT ![Min(same)] = OpenedTab(p)], active |-> Min(same)]
        ELSE IF alone THEN [tabs |-> <<OpenedTab(p)>>, active |-> 1]
        ELSE IF Len(open) < MaxTabs
          THEN [tabs |-> Append(open, OpenedTab(p)), active |-> Len(open) + 1]
        ELSE [tabs |-> open, active |-> shown]

\* execute_shared_open and the reload of a conflict: adopt, then install.
Show(pane, open, shown, p) ==
    \E now \in {Adopted(open, shown, p)} :
      \E s \in {Installed([pane EXCEPT !.doc = now.tabs[now.active].doc])} :
        /\ tabs' = now.tabs /\ active' = now.active
        /\ view' = s.view /\ adapter' = s.adapter /\ queue' = s.queue

Becomes(next) ==
    \E s \in {next} :
      /\ tabs' = [tabs EXCEPT ![active] = IF s.doc = @.doc THEN @ ELSE Edited(@, s.doc)]
      /\ view' = s.view /\ adapter' = s.adapter /\ queue' = s.queue
      /\ UNCHANGED active

NewAdapter == [composition |-> NoComposition, guard |-> FALSE, len |-> 0,
               revision |-> 0, pending |-> FALSE, suppressed |-> FALSE, astray |-> FALSE]

\* What build_window puts up.
NewWindow(t) ==
    Installed([doc |-> t.doc, view |-> [text |-> << >>, editable |-> TRUE],
               adapter |-> NewAdapter, queue |-> << >>])

Window(t) ==
    /\ tabs' = <<t>> /\ active' = 1 /\ queue' = << >>
    /\ view' = NewWindow(t).view /\ adapter' = NewWindow(t).adapter

\* The process ends, and the window with it.
Ends == phase' = "down" /\ Window(Untouched(Starter))

\* The panic of a borrow, in a callback of GTK.
Aborts == Ends /\ UNCHANGED <<storage, kept>>

\* Bound of a behaviour: so many edits of the open documents and writes.
Allows(more) ==
    Sum(LAMBDA t : t.doc.revision, tabs) + Len(queue) + writes + more <= MaxWork

-----------------------------------------------------------------------------
(* Editing *)

Spans == {r \in (0 .. Len(view.text)) \X (0 .. Len(view.text)) : r[1] <= r[2]}

\* A key, or what an input method puts in, wherever the caret is by then: a
\* scroll of the preview moves it.
Type ==
    /\ UserActs /\ view.editable /\ ~ adapter.guard
    /\ \E r \in Spans, word \in Keys \cup {<< >>} :
          /\ Allows(IF r[1] # r[2] /\ word # << >> THEN 2 ELSE 1)
          /\ r[1] # r[2] \/ word # << >>
          /\ adapter.composition # NoComposition => word # << >>
          /\ Becomes(Keyed(Shown, r[1], r[2], word))
    /\ UNCHANGED <<storage, kept, phase>>

\* The first preedit of a composition; one is refused while the tracker has one.
Preedit ==
    /\ UserActs /\ view.editable /\ Allows(1)
    /\ adapter.composition = NoComposition
    /\ \E r \in Spans :
          /\ r[2] <= adapter.len
          /\ adapter' = [adapter EXCEPT !.composition =
                             [base |-> adapter.revision, from |-> r[1], to |-> r[2]]]
    /\ UNCHANGED <<tabs, active, view, queue, storage, kept, phase>>

\* An empty preedit: it lifts the guard, or, when idle, ends the composition.
PreeditEnds ==
    /\ UserActs
    /\ adapter.guard \/ adapter.composition # NoComposition
    /\ adapter' = IF adapter.guard THEN [adapter EXCEPT !.guard = FALSE]
                                   ELSE [adapter EXCEPT !.composition = NoComposition]
    /\ UNCHANGED <<tabs, active, view, queue, storage, kept, phase>>

\* A commit that is refused, or not acknowledged, would have the whole document
\* installed again; what does it borrows the session.
Pump ==
    /\ LoopRuns
    /\ queue # << >>
    /\ IF Heard THEN Becomes(Committed) /\ UNCHANGED <<storage, kept, phase>> ELSE Aborts

\* Ctrl+Z and Ctrl+Y: the view follows the change, or the user is told.
\* (Bounded by LastRevision.)
History ==
    /\ UserActs
    /\ \/ /\ CanUndo(doc)
          /\ Becomes(Changed([Shown EXCEPT !.doc = Undone(doc)], Last(doc.undo).inverse))
       \/ /\ CanRedo(doc)
          /\ Becomes(Changed([Shown EXCEPT !.doc = Redone(doc)], Last(doc.redo).edits))
    /\ UNCHANGED <<storage, kept, phase>>

\* Formatting, Enter, paste, replace: the document is edited in one place or
\* in two (the ends of a selection, two lines, two matches), and the view
\* follows.
Changes ==
    LET Places == 0 .. Len(doc.text)
        Edits == [from : Places, to : Places, with : Keys]
                   \cup {e \in [from : Places, to : Places, with : {<< >>}] : e.from < e.to}
    IN  {<<e>> : e \in Edits} \cup {<<e, f>> : e, f \in Edits}

Command ==
    /\ UserActs /\ Allows(1)
    /\ \E edits \in Changes :
          LET tx == [base |-> doc.revision, kind |-> "programmatic", edits |-> edits] IN
          /\ Accepts(doc, tx)
          /\ Becomes(FollowShared([Shown EXCEPT !.doc = Applied(doc, tx, NoContext)], edits))
    /\ UNCHANGED <<storage, kept, phase>>

\* Ctrl+Shift+I: the page of this revision in the view, which stays read only.
Inspect ==
    /\ UserActs
    /\ adapter.revision = doc.revision
    /\ view' = [text |-> Generated, editable |-> FALSE]
    /\ adapter' = [adapter EXCEPT !.len = Len(Generated), !.suppressed = FALSE]
    /\ UNCHANGED <<tabs, active, queue, storage, kept, phase>>

-----------------------------------------------------------------------------
(* Files *)

Exists(p) == files[p] # None

\* A second start of the program hands over a file.  When it has been opened
\* the handles of the session are put back where they are still borrowed.
Open == LoopRuns /\ Aborts

\* Mutant of Differs: the time of the last change is not looked at.
DiffersInText(p) == Exists(p) => files[p].text # tab.saved.text

\* inspect_external_change.
Differs(p) == files[p] # tab.saved

\* A reload is adopted, and a file that cannot be read reported, with a second
\* borrow.
Poll ==
    /\ LoopRuns
    /\ tab.path # Untitled /\ tab.saved # None
    /\ Differs(tab.path)
    /\ IF tab.dirty /\ Exists(tab.path)
         THEN /\ tabs' = [tabs EXCEPT ![active].conflict = files[tab.path]]
              /\ UNCHANGED <<active, view, adapter, queue, storage, kept, phase>>
         ELSE Aborts

\* Ctrl+Shift+R, which forgets the conflict even if nothing can be loaded.
ReloadDisk ==
    /\ UserActs /\ tab.conflict # None
    /\ IF Exists(tab.path) THEN Show(Shown, tabs, active, tab.path)
       ELSE /\ tabs' = [tabs EXCEPT ![active].conflict = None]
            /\ UNCHANGED <<active, view, adapter, queue>>
    /\ UNCHANGED <<storage, kept, phase>>

\* Ctrl+Shift+K: from now on the version of the conflict is the known one.
KeepBuffer ==
    /\ UserActs /\ tab.conflict # None
    /\ tabs' = [tabs EXCEPT ![active].saved = tab.conflict, ![active].conflict = None]
    /\ UNCHANGED <<active, view, adapter, queue, storage, kept, phase>>

\* save_atomic up to the rename: what is on disk is not looked at.
StartSave(p) ==
    /\ Allows(1)
    /\ saving' = [step |-> "temporary", path |-> p, stamp |-> writes]
    /\ writes' = writes + 1
    /\ UNCHANGED <<window, files, stable, kept>>

\* Ctrl+S: the user is to pick a file; the path of the document is borrowed
\* from the session while it is to save.
SaveKey ==
    /\ UserActs
    /\ IF tab.path = Untitled
         THEN phase' = "chooser" /\ UNCHANGED <<window, storage, kept>>
         ELSE Aborts

\* A file is picked, or none; what is saved is the document as it is by then.
Choose ==
    /\ phase = "chooser" /\ saving = NotSaving
    /\ phase' = "running"
    /\ \/ \E p \in Path : StartSave(p)
       \/ UNCHANGED <<window, storage, kept>>

\* Something fails before the rename: the temporary file is removed and the
\* user told, by the close prompt with a second borrow.
SaveNotCommitted ==
    /\ saving.step = "temporary"
    /\ saving' = NotSaving
    /\ IF phase = "prompt" THEN Ends ELSE UNCHANGED <<window, phase>>
    /\ UNCHANGED <<files, stable, writes, kept>>

Rename ==
    /\ saving.step = "temporary"
    /\ saving' = [saving EXCEPT !.step = "renamed"]
    /\ files' = [files EXCEPT ![saving.path] = [text |-> doc.text, stamp |-> saving.stamp]]
    /\ UNCHANGED <<window, stable, writes, kept, phase>>

\* Mutant of SavedDisk: the version is what the file is by now.
SavedDiskReread(unsure) == files[saving.path]

\* The digest of what was written, and the time the file has by now; or, unless
\* all went well, the time its temporary had.
SavedDisk(unsure) ==
    [text |-> doc.text, stamp |-> IF unsure THEN saving.stamp ELSE files[saving.path].stamp]

\* Mutant of DirtyAfter: a directory that cannot be synced is no concern.
CleanAfter(unsure) == FALSE

\* SaveCompleted, SaveDurabilityUnknown.
DirtyAfter(unsure) == unsure

SaveReturns(unsure) ==
    /\ saving.step = "renamed"
    /\ saving' = NotSaving
    /\ IF phase = "prompt" /\ ~ DirtyAfter(unsure) THEN Ends /\ lastFile' = saving.path
       ELSE /\ phase' = "running"
            /\ tabs' = [tabs EXCEPT ![active] =
                          [@ EXCEPT !.dirty = DirtyAfter(unsure), !.path = saving.path,
                                    !.saved = SavedDisk(unsure), !.conflict = None]]
            /\ UNCHANGED <<active, view, adapter, queue, lastFile>>
    /\ UNCHANGED <<files, writes, journal>>

DirectorySynced == stable' = [stable EXCEPT ![saving.path] = files[saving.path]]

SaveSynced ==
    /\ SaveReturns(FALSE)
    /\ Exists(saving.path)
    /\ DirectorySynced

\* The directory is not synced, or it is and the file is gone or unreadable.
SaveUnsure == SaveReturns(TRUE) /\ (UNCHANGED stable \/ DirectorySynced)

\* What other programs write, they write through; or they remove the file.
OtherWrites ==
    /\ Allows(1)
    /\ \E p \in Path, now \in {None} \cup {[text |-> text, stamp |-> writes] : text \in Foreign} :
          /\ files[p] # now
          /\ files' = [files EXCEPT ![p] = now]
          /\ stable' = [stable EXCEPT ![p] = files'[p]]
    /\ writes' = writes + 1
    /\ phase # "down"
    /\ UNCHANGED <<window, saving, kept, phase>>

-----------------------------------------------------------------------------
(* The end of the program and its start *)

\* The window goes and the session state is written.
Closes ==
    /\ Ends
    /\ lastFile' = tab.path
    /\ UNCHANGED <<storage, journal>>

\* The window closes at once when the document it shows is clean.
CloseRequest ==
    /\ UserActs
    /\ IF tab.dirty THEN phase' = "prompt" /\ UNCHANGED <<window, storage, kept>> ELSE Closes

AnswerCancel ==
    /\ phase = "prompt" /\ saving = NotSaving
    /\ phase' = "running"
    /\ UNCHANGED <<window, storage, kept>>

AnswerDiscard ==
    /\ phase = "prompt" /\ saving = NotSaving
    /\ Closes

\* Save of the prompt; that no file was picked is reported with a second
\* borrow.
AnswerSave ==
    /\ phase = "prompt" /\ saving = NotSaving
    /\ IF ~ tab.dirty THEN Closes
       ELSE \/ \E p \in IF tab.path # Untitled THEN {tab.path} ELSE Path :
                 StartSave(p) /\ UNCHANGED phase
            \/ tab.path = Untitled /\ Aborts

\* Mutant of Recoverable: a document that was never saved is left out.
RecoverableFile(t) == t.dirty /\ t.path # Untitled

\* What a tick is for.
Recoverable(t) == t.dirty

\* autosave_tick, every four seconds, of the document the window shows.
Tick ==
    /\ LoopRuns
    /\ Recoverable(tab)
    /\ journal' = [text |-> doc.text, path |-> tab.path]
    /\ UNCHANGED <<window, storage, lastFile, phase>>

\* Also a tick that fails, which is reported with a second borrow.
Crash ==
    /\ phase # "down"
    /\ Ends
    /\ saving' = NotSaving
    /\ files' \in {files, stable}
    /\ UNCHANGED <<stable, writes, kept>>

\* Recovery if the user takes it.  Else the last file of the session state, if
\* it names one, is opened while that state is borrowed: the program aborts.
FirstTab ==
    (IF journal = None THEN {}
     ELSE {[Untouched(journal.text) EXCEPT !.dirty = TRUE, !.path = journal.path]})
    \cup
    (IF lastFile = Untitled THEN {Untouched(Starter)} ELSE {})

\* While the user is asked a file may be handed over; it is opened in the end.
Start ==
    /\ phase = "down"
    /\ phase' = "running"
    /\ \E t \in FirstTab :
          \/ Window(t)
          \/ journal # None /\ \E p \in Path : Exists(p) /\ Show(NewWindow(t), <<t>>, 1, p)
    /\ UNCHANGED <<storage, kept>>

Init ==
    /\ files \in [Path -> {None} \cup {[text |-> text, stamp |-> 0] : text \in Foreign}]
    /\ stable = files
    /\ writes = 1
    /\ saving = NotSaving /\ journal = None /\ lastFile = Untitled
    /\ phase = "running"
    /\ tabs = <<Untouched(Starter)>> /\ active = 1 /\ queue = << >>
    /\ view = NewWindow(tabs[1]).view /\ adapter = NewWindow(tabs[1]).adapter

Next == \/ Type \/ Preedit \/ PreeditEnds \/ Pump \/ History \/ Command \/ Inspect
        \/ Open \/ Poll \/ ReloadDisk \/ KeepBuffer \/ SaveKey \/ Choose
        \/ SaveNotCommitted \/ Rename \/ SaveSynced \/ SaveUnsure \/ OtherWrites
        \/ CloseRequest \/ AnswerCancel \/ AnswerDiscard \/ AnswerSave
        \/ Tick \/ Crash \/ Start

\* The poll and the autosave timer fire again and again, and a save returns.
Spec == /\ Init /\ [][Next]_vars
        /\ WF_vars(Poll)
        /\ WF_vars(Tick /\ journal' # journal)
        /\ WF_vars(SaveNotCommitted \/ Rename \/ SaveSynced \/ SaveUnsure)

-----------------------------------------------------------------------------
(* Properties *)

\* Once the pump has taken what was typed the view shows the document and hears
\* its keys, whatever commands, undo, reloads and other files came between a key
\* and its commit; unless it shows the generated page or a composition went
\* astray.
ViewShowsDocument ==
    queue = << >> /\ view.editable /\ ~ adapter.astray /\ phase # "down"
      => view.text = doc.text /\ ~ adapter.suppressed

\* A document that is not marked as changed and has been on disk is what was
\* read from there or written there.
CleanIsSaved ==
    \A i \in DOMAIN tabs :
        ~ tabs[i].dirty /\ tabs[i].saved # None => tabs[i].saved.text = tabs[i].doc.text

\* A save that leaves the document clean, or lets the window close, can be
\* found after a power failure: the rename is there to stay.
SavedIsStable ==
    [][(SaveSynced \/ SaveUnsure) /\ ~ tabs'[active'].dirty
         => stable'[saving.path] = files'[saving.path]]_vars

\* What another program writes to the file of the shown document becomes a
\* conflict with the unsaved text, unless that is saved or replaced, or the
\* program ends.
OtherWritesNoticed ==
    \A p \in Path :
       (tab.dirty /\ tab.path = p /\ tab.saved # None /\ files[p] # tab.saved)
         ~> \/ tab.path # p \/ tab.saved \in {None, files[p]}
            \/ tab.conflict # None \/ phase = "down"

\* An edit is in the journal some time later, unless it is saved, undone, or
\* hidden behind another document first.
EditsAreJournalled ==
    \A r \in 1 .. LastRevision :
       (tab.dirty /\ doc.revision = r)
         ~> \/ journal # None /\ journal.text = doc.text
            \/ ~ tab.dirty \/ doc.revision # r \/ phase = "down"

-----------------------------------------------------------------------------
(* What one would expect of it and does not hold *)

\* A window that closes with no question asked has no unsaved text.
UnsavedIsAskedFor ==
    [][CloseRequest /\ phase' = "down" => \A i \in DOMAIN tabs : ~ tabs[i].dirty]_vars

\* "The first failure triggers exactly one full authoritative resync", and the
\* pump is kept "attached so later editor commits still drain".
PumpGoesOn == [][Pump => phase' # "down"]_vars

\* "Degraded restore never exits the process": the program can be started.
StartsAgain == phase = "down" => journal # None \/ lastFile = Untitled

\* A key in an editable view asks for its commit at the revision of the text
\* it has ("the widget's pre-mutation authoritative base_revision"), not at that
\* of the text a composition began over, which a snapshot, or the commit that
\* waited, may have replaced since.
CommitsAreCurrent ==
    [][Type /\ Len(queue') = Len(queue) + 1 => Last(queue').base = adapter.revision]_vars

\* Ctrl+S saves a document that has a file.
SaveKeySaves == [][SaveKey => phase' # "down"]_vars

\* Of the files a "second-instance" delivers the first is opened and a warning
\* is given for the others, in the window that is there.
OpenGoesOn == [][Open => phase' # "down"]_vars

\* What another program does to the file does not end this one.
PollGoesOn == [][Poll => phase' # "down"]_vars

\* A save leaves nothing older to recover for that file: adopt_recovered takes
\* "the recovered snapshot" for "newer than any on-disk copy".
RecoveredIsNewest ==
    [][(SaveSynced \/ SaveUnsure) /\ ~ tabs'[active'].dirty
         => journal = None \/ journal.path # saving.path \/ journal.text = doc.text]_vars
===============================================================================
