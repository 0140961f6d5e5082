# Rutile in TLA+

Rutile is a local Markdown editor: a Rust core (`crates/rutile-core`: the rope,
files, autosave, rendering, scrolling), a shared application layer
(`crates/rutile-app`: a reducer, tabs, a render scheduler, a preview host) and
two native shells, macOS (`platform/macos.rs`, `platform/macos/native.rs`) and
GTK (`platform/linux_gtk.rs`). This directory holds TLA+ specifications of the
parts in which order matters: what reaches the disk and when, which text is in
which tab and in which of its copies, which page is in the preview, which lock a
release rests on, what a smoke test leaves behind. TLC checks them on small instances,
TLAPS proves the most important invariants for all of them.

    tlc -workers 2 -config MCAutosave.cfg MCAutosave.tla
    tlapm StorageProofs.tla

## The system

| part | state | operations | talks to | what is hard | what makes it correct |
|---|---|---|---|---|---|
| **autosave store** (`autosave.rs`, `files.rs`) | a journal, a snapshot file per sequence number, a lock file | `record`, `recover` | called by the shells on a timer and at the start; shares its directory with other running programs | crashes and power loss between renames, appends and syncs; two programs; a journal of a newer build | what was acknowledged is recovered, recovery never goes back, nothing referenced is removed, the lock is always released |
| **document** (`document.rs`, `editor_contract.rs`) | rope, revision, undo and redo | `apply`, `undo`, `redo`, commits of an editor adapter, IME composition | edited by the shells, snapshotted by saving, autosave, rendering | stale commits, undo budget, coalescing, composition over a changed document | revisions grow, undo inverts, a stale commit changes nothing |
| **session core** (`session_core.rs`, `document_manager.rs`) | a slot per tab, the active rope, the parked ropes | new, switch, close, open | every command of the shells | ropes and slots are changed by different messages | every tab keeps its own text |
| **reducer** (`app.rs`, `actions.rs`, `command_palette.rs`) | slots, recents, notices, palette, find | one `reduce` per message, returning effects the shell performs | all of the application | an effect that is dropped, or performed on another tab than it was meant for | a document marked clean is saved |
| **file service** (`files.rs`) | none: the files | `load`, `save_atomic`, `inspect_external_change`, debouncing | the shells | another program writes; a save committed but not known to be durable | no version the user has not seen is overwritten |
| **render pipeline** (`render_scheduler.rs`, the worker threads of the shells) | running and pending slot, two channels of one place | `submit`, `start_ready`, `finish` | the shells submit, a thread renders, the preview shows | completions out of date, schedulers replaced, wake-ups missed | the preview shows the text in the editor, in the end, and no other |
| **preview host** (`preview_host.rs`, `rutile-protocol`) | staged and loaded page, nonce, a bounded queue of messages | stage, serve, navigate, IPC, scroll | a web view | messages of the previous page, a full queue | only the loaded page is listened to |
| **scrolling** (`scroll.rs`) | a map of blocks, a lease | source and preview scroll | both panes | the map is of one page, and another may be in the web view | a pane follows only a page its map was made for |
| **editor adapter** (`platform/macos/editor.rs`) | a mirror of the text, an index of its lines, the native widget, a composition | keys, input methods, external changes, resync | the document, through commits; the find bar and the commands, through change sets | three copies of one text, patched edit by edit | the copies agree |
| **find, replace, format** (`find_engine.rs`, `format_engine.rs`) | the match list of the find bar | search, replace one, replace all, line and span commands, Enter | edit plans, applied as transactions | a replace-all larger than one plan; positions that move | all or nothing, and one command undoes another |
| **shells** (`macos.rs`, `native.rs`, `linux_gtk.rs`) | the source pane, pending decisions, timers | handlers of the event loop | all of the above | modal prompts, handlers that fail | the pane shows the document, unsaved text is asked about |
| **pure functions** (`render.rs`, `html_to_markdown.rs`, `export*.rs`, `security.rs`, ...) | none | strings to strings | | parsing | their tests |
| **release tooling** (`xtask`) | a runner lock and its commit records, a published attestation, packages | capture, publish, open, verify, attest | other captures and keystones on the same directory | kills and power cuts between renames and syncs | what was refused never becomes authoritative, what was published stays |
| **smoke tests** (`native_smoke.rs`, `package_smoke.rs`) | a process group, the readers of its pipes, a directory of evidence | supervise, clean up, verify, install, open, uninstall, publish | the program under test and its descendants, package tools, builds | processes that do not end, or leave the group; rebuilds; attempts cut short in the same directory | nothing is left running unreported, a passed report is about what it names, evidence belongs together |
| **the rest** (`fuzz`, `spikes`, `scripts`) | | test drivers and experiments | | | |

Components, with what is left out of each, are listed in `PROJECT.json`; so is
every hazard of the code, at its line, with the properties that cover it.

## The modules

    RecoverableDocument        what the autosave store promises
      Autosave                 the store, step by step, refines it
        MCAutosave             symmetry and the foreign journal lines

    RenderPipeline             scheduler, worker, channels, staged page
      GtkPreview               as the GTK main loop drives it
      MacPreview               as the macOS event loop drives it
        PreviewProofs          about both

    PreviewHost                web view, authority, frames, both panes' scroll
      PreviewHostProofs

    SessionTabs                slots, ropes, files and tab commands of macOS
      MCSessionTabs            symmetry of the paths
      StorageProofs            about Autosave and about SessionTabs

    Document                   edits, inverses, undo and redo (no variables)
      History                  a document over its life
        MCHistory
      FindReplace              search and the plans of a replacement
        EditorPane             the macOS editor over document and find bar
          MCEditorPane
          EditingProofs        about History and about EditorPane
      GtkSession               the GTK program over the document
        GtkSessionProofs
        MCGtkSession

    Formatting                 the commands on lines and spans
      FormattingProofs
      MCFormatting

    RunnerLock                 publishing and opening a runner lock
      Readiness                the keystone that binds and publishes
        RunnerLockProofs
        MCReadiness

    ProcessGroup               a supervised command, its descendant, its pipes
    EvidenceFiles              files written create-only, attempts, power cuts
      NativeSmoke              the native gate over both
      PackageSmoke             the package row over both
        SmokeGates             one or the other, and what is promised of them
          SmokeGatesProofs
          MCSmokeGates

A definition that models code has an entry in `map` of `PROJECT.json` naming
its lines. Next to some definitions stands a *mutant*, the same operation with
a plausible bug; `mutants` says which property each of them breaks. Mutants are
used in no specification.

### Autosave, RecoverableDocument

`journal` and `file` are what a program reads; `journalOnDisk` and `fileOnDisk`
are the sets of contents a power loss may leave. A write adds to the set, an
fsync reduces it to the current content, and `PowerLoss` picks one element for
every file on its own. `op[p]` is the call program `p` is in, `Step(p)` its next
statement; `Abort(p)` ends it at any statement, for an I/O error or a kill.
`TornAppends` says whether an append may stop half way; `Foreign` holds lines
that an older build finds in the journal and cannot decode. Snapshots are
compared by content, so blake3 is taken to be injective. The clock,
`document_path` and `sequence` formatting are left out, and so is the size limit of
the journal.

`RecoverableDocument` has one variable for what recovery may find and one for
what was acknowledged: a save is first possible, then certain, then
acknowledged. `Autosave!Outcomes` computes the first from the files.

### RenderPipeline, GtkPreview, MacPreview

A page is a document and a revision. The code compares revisions alone; the
document number is there to say what the user sees. Slots and channels with
room for one are sets of at most one element. `Finish(fits)` is
`RenderScheduler::finish` with what the shells do next; `fits` says whether the
rendered blocks fit into the text in the editor, which they do if it is theirs.

In `GtkPreview` one run of `pump_ui_work` is three steps (a commit or none, then
starting, then finishing a job), since the worker and the signal handlers run
between them in time but never inside one; other handlers run only while the
pump is `"waiting"`. `quiet` says that the 50 ms of the debounce have passed. In
`MacPreview` every handler is one step, followed by a drain for those that drain;
time stamps are 0 there, so there is no quiet period.

### SessionTabs

A text is a number; edits and foreign writes make new ones. `DiskVersion` is
taken for the text it is the digest of. `document` and `parked` are the ropes of
`DocumentSessionCore`, `slots`, `active`, `nextId` its `DocumentManager` (tabs
are never reordered, so the strip is in the order of the ids), `pane` is the
text and revision the source pane has. `Init` is a started program with the
autosave store bound; the session is then restored or not, and the recovered
document adopted or not, before any other event, as the alert is modal. Opened
tabs are always within `MaxId`, texts within `MaxText`: bounds of the model, not
of the code.

`MenuSpec` is what menus, keys, the strip and the open panel do; `Spec` adds the
command palette, whose messages go to `AppState` and not through the core. The
save command looks at the file (`Save`) and renames over it (`CommitSave`); another
program may write in between, which is how `SaveChecksDisk` is violated. The saves of
a close prompt do not look, and are one step.

### Document, History

A text is a sequence of bytes; a character may have several, so that an edit
can fall inside one. `Document` has the operators of `document.rs` without a
state, for the modules that keep a document in a record: what is accepted, what
a transaction makes of the text, its inverse, what the history keeps of it, when
typed text joins the entry before, and what is evicted. `History` runs one
document; `floor` remembers the text before the oldest entry kept.

### FindReplace, EditorPane

`EditorPane` has the three copies of a text: `doc`, iced's `widget`, and the
`adapter` with its mirror and line index. An iced message is handled to its end,
so a key, its commit and the acknowledgement are one step. The find bar's match
list is the tab's and survives the edits that make it stale. A replace-all is cut
into plans by `MAX_PLAN_EDITS` and `MAX_PLANNED_SPAN_BYTES`, here one and two, so
that two matches already take two plans. `status` says how a program ended: an
error handed to `fail`, or a panic.

### Formatting

A line is an indentation, the markers in front and the words behind; what a
command does to bytes is what it does to these. `lines` and `inline` are texts
after some commands. A selection of Enter begins and ends before a word or behind
the last one, in any two lines; of a toggle of lines only the lines it covers are
kept. What `EditPlan::new` refuses leaves the text as it was: a plan with more than
`MaxPlanEdits` edits, and one whose edits overlap, which is Enter with a selection
that reaches into an item it would renumber. The byte limits of a plan are not
modelled.

### GtkSession

One program with the source view, its adapter, the queue between them and the
pump, and everything that shares the session with the pump: commands, tabs,
saving, the disk poll, the close prompt, autosave and recovery. A command makes one
edit or two in one transaction (the ends of a span, two lines, two matches); a
replacement of more is several of these. A save takes its
steps apart: a failure before the rename, the rename, the sync that may or may
not succeed; other programs write in between. A save without a path runs a main loop
for the chooser (`phase = "chooser"`) in which pump and timers go on. What the
document knows of its file after a save is `SavedDisk`: the version on disk, or,
where the sync failed, that of the temporary. `files` is what programs find,
`stable` what a power failure leaves. The session is a `RefCell`; where the head
of a `match` or `if let` keeps it borrowed and an arm borrows it again, the step
ends the process (`Aborts`), as the profile sets `panic = "abort"`. Each prompt runs
the main loop inside its handler, and so do the other handlers meanwhile. A second
start of the program with a file ends it (`Open`, `OpenGoesOn` below); a second
start without one, which puts up another window, is not modelled.
`adapter.astray` is set when what a composition puts in is committed at another
place than the view has it, or begun before the text in the view was installed. The view and the document may differ from then on (`CommitsAreCurrent`
below), until the next snapshot.

### PreviewHost

A page is a document and a revision; frames carry the revision only, and the
page that sent one is kept in the model to say whose it was. Staging takes the
authority from the page in the web view, and navigating gives it to the staged
one. `Load` opens another document, `Recover` puts a recovered text in the place
of the active one at revision 0, and `OpenAtCap` is a file opened with every tab
taken: the document stays, and the scheduler and the map are dropped. The web view asks for pages, runs its script and sends frames into a queue of
`Capacity`; the event loop takes all of them at once, one step for each. What the
renderer delivers is over-approximated here (`MacPreview` is exact): a submitted
page may be accepted whenever its revision is the editor's.

### RunnerLock, Readiness

A directory is a record of the names that matter; `kept` holds the directories a
power cut may leave, which an fsync reduces to the present one. Every rename is a
step, each of them may fail, and a process may be killed between any two.
`Readiness` adds keystones, which read attestation, commit and lock in that order
with nothing held in between, and publish with link and unlink.

### ProcessGroup, EvidenceFiles, NativeSmoke, PackageSmoke, SmokeGates

`ProcessGroup` is what xtask cannot decide: the leader of the group, one descendant
that may outlive it or call `setsid`, the pipes they write to (a chunk is the
marker of a proof or noise), the clock, and when SIGKILL arrives. SIGTERM has no
action, as a process may end at any time or never. The two threads that read a
pipe are `Read`, `ReadEnd` and `ReadFails`. `supervise_with` is `Poll` and `Clean`, one
turn of a loop each; what a turn finds ended stays so, so its tests are taken
together. `supervise_child` is `Supervise` and `WaitKilled`, after which `Join` waits
for the readers. `faulty` lets one call of a supervision fail. In
`EvidenceFiles` `file` and `onDisk` are as in `Autosave`, for names that are taken
once. `Record` is where the output of a stage begins to be written, `Does` what a
package tool or its descendant does to the machine, at some time while it is waited
for. xtask may be killed at every step, and the machine lose power. What runs on
unsupervised, because xtask was killed or the leader ended before its descendant
(`Abandon`), may change the installation at any later time: from then on
`installed` is `"unknown"`, and every look at it finds what it likes. Of the kinds
of package `rootdeb` is the one whose install target `is_residue_candidate` exempts,
as it is `/` or the executable itself; nothing is looked for there but the binary.
Whether the leader has moved to another group is said when the SIGKILL is sent, as
nothing depends on it before. `SmokeGates` runs one of the two commands.

## What TLC checks

Runs that must pass:

| run | instance | properties |
|---|---|---|
| `autosave` | 2 programs, 2 bodies, 4 sequence numbers, 2 retained, whole appends | `NewestBacked`: in any crash, the newest entries name files that verify; `NeverForgets`: what recovery is sure to find never gets older; `ImplementsRecoverable` |
| `autosave_torn` | 3 sequence numbers, 1 retained, torn appends, fairness | `CallsReturn` |
| `gtk_preview` | 3 documents, 2 edits each, 2 wake-ups, fairness | `OneOutstanding`: scheduler and worker agree on the one job; `CurrentInPipeline`: the text in the editor is staged, pending or in that job; `JobsFinish` |
| `mac_preview` | 2 documents, 4 edits each, 2 tabs | `FirstDocumentKept`: the two invariants of GTK until a second document comes; `NeverBackwards`: no older page of the same document |
| `preview_host` | 2 documents, 2 revisions each, a queue of 2, fairness | `ScrollsAgree`: while one document is loaded, the source pane follows only frames of the page its map was measured in; `PageIsPainted`: the last staged page is heard, or the loss of a frame has ended the program |
| `session_tabs` | 2 tabs, 2 files, 5 texts | `RopesMatchSlots`; `StoreShared`; `TextsKept`: a tab's text changes by typing, loading and recovery, never by tab commands; `CleanIsSaved`; `NoTabLost`: a tab closed with Save has been saved |
| `history` | texts to 3 bytes with a wide character, budget 7, 4 revisions | `UndoReturns`: undoing all of the history gives the text before its oldest entry; `RedoReturns`: redo is the inverse of undo; `BudgetExact`: the bytes counted are those kept, and within the budget |
| `editing` | texts to 3 bytes in lines, 3 revisions, plans of one edit | `MirrorIsDocument`; `IndexTracks`: the patched line index is the one rebuilt; `ReplacesAllOrNothing` |
| `formatting` | texts of two lines and short spans, 3 commands, plans of 3 edits | `TogglesCycle`: a toggle of lines without the marker, twice, is itself again; `InlineReturns`: wrapping and unwrapping; `EnterNumbersOn`: the items below count on, where a caret or words of one line were selected |
| `gtk_session` | 1 file, 2 tabs, 3 edits and writes, one-byte texts | `ViewShowsDocument`: with nothing queued the view shows the document and listens to keys; `CleanIsSaved`; `SavedIsStable`: a clean document survives a power cut; `OtherWritesNoticed`; `EditsAreJournalled` |
| `readiness` | 2 captures, 1 keystone, 2 commits | `FailedNeverAuthorizes`; `CommittedIsWhole`; `OkIsDurable`; `RetainedForGood`; `PublishedIsAuthorized` |
| `smoke_gates` | 4 kinds of package, 2 attempts, 2 runs, 2 builds, one pipe with 2 chunks of which 1 is kept, deadline 0 and grace 1, fairness | `ReapedMeansGone`: evidence of the native gate that says so is of a group that is gone and of all its output; `SupervisionEnds`, unless the command has left its group; `PassedIsTrue`: a passed report is about the executable it names; `EvidenceIsOwn`: a receipt has the files of its own attempt, whatever is lost |

Why these bounds. Autosave: retention 2 with 4 sequence numbers compacts twice
and starts orphan collection with two programs; one retained entry and three
numbers are enough for a compaction under torn appends, where the journal's
states multiply (the two safety properties are proved for torn appends too).
Preview: two documents are needed to confuse two revision
counters, and on GTK the third is opened while the first one's job is still in
the worker; four edits of one document fill the running and the pending slot,
replace the pending one and come back to a free scheduler. With a queue of two
a page's own two frames fill it, so that one scroll or click loses a frame.
Session: two files make a tab change its path, and a closed tab makes room for
another. The tab limit is reached; the proofs have any number of tabs. History: a
budget of two small entries evicts at the third. Editing: two matches in one text
make a replace-all of two plans, and the third revision is needed for a redo
after an undo. Formatting: three commands cycle a toggle and then number a
list. GTK: with three edits and writes a file is written from outside, edited and
saved, of one key and one byte another program writes, which tells whose text it is; two captures make one interfere with the other, and a third only repeats
it (the proofs have any number). Smoke tests: the second run is what a build
between two verifications needs, the second attempt is what finds the files of the
first, a second chunk is the one that is not kept and one unread fills the pipe.
With a deadline of 0 every poll may be one after the deadline, which the supervisors
look at last; it is any number in the proofs. `resolve_repeats` asks for 10 runs, 50
for a release (`MinRepeats`): each run after the second repeats what the second
does, and the proofs have any number from the minimum up.
With one pipe for two, a log of each stage is what the receipt names.
Runs of the previews, the session, the editor and the document stop when edits
and texts are used up, and a program may have exited, so deadlock is not
looked for there; `autosave`, `autosave_torn` and `readiness` look for it.

Fairness. `Autosave!FairSpec`: a program in an operation continues, and the lock
is polled until it is free or the time is up (`acquire_store_lock` sleeps and
retries). `GtkFairSpec`: the main loop delivers wake-ups, the pump ends,
50 ms pass, the worker's thread runs. `MacPreview!FairSpec`: the event loop comes
round (`about_to_wait` sets a deadline), the worker's thread runs.
`PreviewHost!FairSpec`: the loop over the queue goes on, and, however many events
come between, the web view's callbacks are delivered and `about_to_wait` runs; these
two are strong fairness, as a poll that has not ended disables them again and
again. `GtkSession!Spec`: the disk poll's timer fires, the autosave timer comes to
a tick that can write the journal, and a save that has begun ends. `SmokeGates!FairSpec`:
the loops of the supervisors go on, time passes, and SIGKILL is delivered; nothing
is assumed of the processes, their output or the readers. Nothing is
assumed of the user or of other programs.

### Disagreements between code and documents

What a document or comment states and the code does not do is a property that TLC
finds violated. These configurations are kept beside the runs for the work on the
code; each of their properties is violated, most within seconds. Where a file
names several, it has one active at a time.

| configuration (module) | property | what happens |
|---|---|---|
| `MCAutosaveFindings` (`MCAutosave`) | `AckedRecoverable` | an append that stopped half way swallows the next line: `record` returned `Ok` for a document recovery cannot find |
| | `RejectedKept` | `next_sequence_from_entries` allocates the number of a line of a newer build that does not decode, and overwrites its snapshot (autosave.rs:259; the comment at 449 promises that such files stay) |
| `MCGtkPreviewFindings` (`GtkPreview`) | `GtkCatchesUp` | the last edit is not rendered until the user does something else: nothing wakes the pump after the quiet period |
| | `AcceptedIsCurrent` | the page of another document is accepted: revisions of two documents agree (linux_gtk.rs:1213) |
| `MCMacPreviewFindings` (`MacPreview`) | `AcceptedIsCurrent` | the page of the document that was open before is accepted, since revisions and job ids start again |
| | `PreviewCatchesUp` | draining a completion starts no pending job (native.rs:312) |
| | `OneOutstanding` | a new scheduler starts a job while the worker has one; a third stops the program (macos.rs:1424) |
| | `TabIsRendered` | a tab switch renders nothing (native.rs:323; architecture.md:52) |
| | `RecoveredIsQueued` | adopting a recovered document renders the text it replaces (macos.rs:1262) |
| | `AppSurvives` | a document that cannot be previewed ends the event loop (macos.rs:1475; build-plan.md:194) |
| `MCSessionPalette` (`MCSessionTabs`) | `TextsKept` | tab commands of the palette move tabs without their texts |
| `MCSessionFindings` (`MCSessionTabs`) | `QuitAsks` | the window closes without asking about tabs in the background |
| | `PromptSavesItsTab` | Save in the close prompt of another tab saves the active one |
| | `UnsavedStays` | opening a file replaces the unsaved text of another tab that has it open (session_core.rs:168) |
| | `SaveChecksDisk` | a save overwrites what another program has written since the inspection: "Conflict check immediately before a save attempt" (macos.rs:1050; build-plan.md:329 says "dirty external change never auto-overwrites"), and between the two come the save panel or the write of the temporary |
| | `StoreBound` | restoring a session unbinds autosave (app.rs:838; document_manager.rs:184) |
| | `ClosingChecksDisk` | Save in a close prompt overwrites a changed file (macos.rs:958; build-plan.md:329) |
| | `PaneShowsDocument` | a save that reloads leaves the old text in the source pane (native.rs:443) |
| `MCEditorFindings` (`MCEditorPane`) | `NeverPanics` | the second character typed at the end of a text panics: the index of lines still has the text of before the first (editor.rs:49) |
| | `ShownIsDocument` | the widget and the document part company, and the window shows what would not be saved |
| | `KeepsRunning` | input that the adapter refuses ends the event loop |
| | `CurrentMatches` | the find bar's current match is not one any more after an edit |
| `MCFormatToggles` (`MCFormatting`) | `TogglesReturn` | a toggle on lines of which some have the marker does not restore them (comment of format_engine.rs) |
| | `SelectionsNumberOn` | Enter over the end of one numbered item and the beginning of a later one leaves a gap: the items are renumbered as if the lines between were still there (format_engine.rs:748-776; :741 says "so the list stays in sequence after the insertion") |
| `MCGtkFindings` (`MCGtkSession`) | `PumpGoesOn` | a commit that fails makes the pump borrow the session twice (linux_gtk.rs:2269) |
| | `SaveKeySaves` | so does Ctrl+S on a document with a path (:2964) |
| | `PollGoesOn` | so does the disk poll that finds a change (:3259); likewise the close prompt (:3309) and the autosave tick (:3459) |
| | `OpenGoesOn` | so does a second start of the program with a file, once that is open: the handles of the session are put back inside the `if let` that borrows it (:2503-2514) |
| | `CommitsAreCurrent` | a composition begun before a snapshot was installed, or before the commit ahead of it was taken, is committed at the revision and place of the old text: refused, or put into another document (:257, :404, :560; build-plan.md:176 says "the widget's pre-mutation authoritative `base_revision`") |
| | `UnsavedIsAskedFor` | the close prompt does not ask about hidden tabs |
| | `RecoveredIsNewest` | the journal is never cleared: after a save an older text is offered for recovery |
| | `StartsAgain` | a session is restored inside an expression that keeps the session borrowed, and the program that has one to restore cannot be started (:3427; :1750 says "degraded restore never exits the process") |
| `MCPreviewHostFindings` (`PreviewHost`) | `LateFramesAreDropped` | typing while a page loads ends the program: `bridge_ready` of the loaded revision asks the editor, one revision ahead, for its top line (native.rs:1693); so does a scroll of the source pane between staging and navigation (:765), and one of the preview while the editor is ahead (:1726) |
| | `HeardIsStaged` | frames of an older page with the same revision number are heard (preview_host.rs:146, 214) |
| `MCSmokeFindings` (`MCSmokeGates`) | `UninstallRuns` | the output of a stage that cannot be written ends the row with the package installed (package_smoke.rs:632, 676; :707 says "Uninstall (always runs for cleanup)") |
| | `RowReaped` | the row's evidence says `reaped: true` of every command (package_smoke.rs:1432, 1460), and a descendant still runs |
| | `ExecuteReturns` | a descendant that holds a pipe keeps `execute` waiting for its readers for ever, as the group is not signalled once the leader has ended (package_smoke.rs:1410; :1380 says "deadline enforcement") |

Those that pass say how far the damage goes. That the palette breaks `TextsKept`
is why `session_tabs` uses `MenuSpec`. On GTK several documents
break `AcceptedIsCurrent`, yet `CurrentInPipeline` holds for any number of them:
a wrong page is followed by the right one. `ScrollsAgree` holds while there is one
document, whatever is late; with two, `HeardIsStaged` says what happens.
`EnterNumbersOn` is what is left of `SelectionsNumberOn`. `PassedIsTrue` excepts what the
gates cannot see: a program that was replaced after a verification and put
back before the next (`restored`), an installation somebody unsupervised may have
changed (`"unknown"`), and what a `rootdeb` leaves. In
`gtk_session` the panics are steps of the model, and its properties say what the
restarted program finds.

Seen on the way, without a property: on GTK, undoing a deletion the pump has not
taken leaves the signals suppressed until the pump fails; `ReloadDisk` clears the conflict even when
the load fails; a document opened again while it is dirty is marked clean. In
the tooling, a second publication under one name removes the authoritative pair
before its own is durable (`OkIsKept` in `RunnerLock` is not so), and a keystone that
fails after its link has published what it reports as refused
(`PublishedIsReported` in `Readiness`).

## What is proved

`StorageProofs` about `Autosave`, for every number of programs, bodies, sequence numbers, any
retention, with torn appends and foreign lines or without, from
`ConstantsAssumption` alone: `Typed`, `RecoveryFindsNewest` (`NewestBacked`) and
`NothingForgotten` (`NeverForgets`); and, where appends are whole, `StoreKeepsPromise`
(`ImplementsRecoverable`) and `AcknowledgedIsRecoverable` (`AckedRecoverable`).
`NewestBacked` is not inductive: before the append it needs to be known that the
snapshot of the line about to be written is durable. `AutosaveInv` adds
`DiskConsistent` (the journal programs read is one of those a power loss may
leave, so is the current content of each file, and the newest entries of any of
these journals are in the one programs read) and `OpsConsistent` (a program past
the lock holds it; until its append its number is newer than every entry; its
snapshot is written, then durable, and before it removes anything its journal is
on disk). There is one lemma per statement; `NothingForgotten` compares the newest
entries before and after each of them. `SInv` adds that no journal ends in a
partial line and that the entry of a program that has written its line is the
highest of the journal, and of every journal on disk before `record` returns. With
it every statement of the store is a step of `RecoverableDocument` or a stutter:
only the append makes an outcome possible, only the sync of the journal makes it
certain, only the return acknowledges it. What was acknowledged is then found by
the argument of the abstract specification. Torn appends break both, as
`MCAutosaveFindings` shows: `~TornAppends` is the hypothesis of these two theorems.

`PreviewProofs`, for every number of documents and edits (`BoundsAssumption`). On GTK,
with any number of wake-ups: `GtkTyped`, `OneJob` (`OneOutstanding`) and `NothingDropped`
(`CurrentInPipeline`). The inductive invariant adds to these that the job is in one
place only, that what is pending is the text in the editor, and that a job of
another text is in the worker only while something is pending, so that whatever
its completion does, the right text follows (`FirstInv`). On macOS, with two tabs or
more (`TabsAssumption`): `Typed`, `NoFallBack` (`NeverBackwards`) and `FirstKept`
(`FirstDocumentKept`). For the first of these, `Ordered` says that what is
staged, completed, rendered, asked for and pending of one document is in the order
of its revisions and none is ahead of the document: a replaced scheduler
drops jobs but overtakes none. For the second, `FirstInv` is
kept while only one document was ever loaded; with one tab
`OpenAtCap` would break it, which is why the assumption asks for two.

`StorageProofs` about `SessionTabs`, under `MenuSpec`, for every number of files, tabs and texts
with room for the original ones (`LimitAssumption`): `SessionTypes` (`TypeOK`),
`RopesMatch` (`RopesMatchSlots`), `CleanDocumentsAreSaved` (`CleanIsSaved`),
`StoreIsShared` (`StoreShared`), `TextsAreKept` (`TextsKept`) and `ClosedTabsAreSaved`
(`NoTabLost`). The invariant
`IInv` says that every tab has a rope and that its slot `Fits` it: the same
revision, and if clean the saved text. The two belong together: `SaveCompleted`
marks a document clean only if the revisions agree. Before the session is
restored there is one unedited tab (`LaunchOK`), without which the new
`DocumentManager` would meet ropes of tabs it does not have. One lemma for each
thing a command does to the core (a tab added, switched to, removed, a file
adopted, the active document changed) says that the invariant and the other
texts are kept; each action is one or two of them. That `Neighbour` finds a tab
rests on `Least` and `Greatest`, got from the well-foundedness of strict
inclusion as the prover has no induction.

`PreviewHostProofs`, for every number of documents and revisions and every
capacity of the queue, from `HostAssumption`: `Typed` and `PanesAgree`
(`ScrollsAgree`, which is about the time in which one document is loaded). What makes it inductive is `HostConsistent` (whatever has
authority or a map has the staged page's) and `FirstOnly` (while there is one
document, every page in the web view, the queue and the renderer is its own, so
that a revision names a page).

`RunnerLockProofs`, for any number of captures, readers and commits:
`FailureIsFinal` and, over the composition, `FailureIsFinalForKeystone`
(`FailedNeverAuthorizes`); `KeystoneRespectsLock`, that `Readiness` implements
`RunnerLock`; `TypesHold`, `PublishedForGood` (`RetainedForGood`) and
`OnlyAuthorized` (`PublishedIsAuthorized`); `RecordsAreWhole` (`CommittedIsWhole`),
`SuccessIsDurable` (`OkIsDurable`) and both over the composition,
`WholeAndDurableForKeystone`. The lock's invariant `RInv` says that
one process is past waiting for the lock, that a record is committed on some disk
only from its rename on and no more once the undo has been synced
(`CommittedInTime`, `UndoneIsGone`), that a publication that returned is over, and
that whoever was given a lock was given one whose publication did not fail. `WInv` adds
what a process knows of the directory at each statement (`Knows`: what it has
removed, written and synced is so on every disk a power cut may leave) and that a
publication which succeeded is authoritative on all of them until another capture
begins, while nobody else is about to clear or revoke (`OkStands`).
`KInv` adds what a keystone knows at each stage: its claim, the commit it saw,
what it checked, and that the published file is on every disk a power cut leaves
once it has told.

`SmokeGatesProofs`, for any number of pipes, chunks, builds, attempts, any
kinds of package, and any number of runs that is at least the minimum of the profile
(`Steps`, which bounds the runs that have logs, is as large as one likes), from
`OutputAssumption`, `EvidenceAssumption`, `GateAssumption` and
`SmokeAssumption`: `Typed`, `ReapedIsGone` (`ReapedMeansGone`),
`PassedReportsAreTrue` (`PassedIsTrue`) and `EvidenceBelongs` (`EvidenceIsOwn`).
`IInv` adds, about the group, that a reader which has ended without an error has
read all that was and will be written, and that what is kept is what was read
(`GroupSound`); about the files, how far the evidence of an attempt is
(`Gathered`, `Gathering`, `Complete`): a receipt is begun only when the logs it
names are, on every disk a power cut leaves, those of this attempt, and they
are then never written again (`OwnTo`); about the native gate, which build was run
when (`NativeRuns`); about the package row, what is left of the plan of a stage
(`PlanSound`), what a command that succeeded has done (`CommandSound`) and what the
stages that passed have left (`StagesSound`). There is a lemma for each
operation of the group and of the files, used by both gates, and one for each
action of a gate.

`GtkSessionProofs`, for any texts of any bytes, keys, files, limits of the history
and number of tabs, edits and writes, from `DocumentAssumption` and `GtkAssumption`:
`ViewFollows` (`ViewShowsDocument`), `CleanMeansSaved` (`CleanIsSaved`) and
`CleanMeansDurable` (`SavedIsStable`). `GInv` is about three things. The pane: unless
the pump is bound to fail at the commit it meets (`Doomed`), the view is the document,
or the document with the one commit that waits, and the adapter has the length of
the one and the revision of the other (`InStep`). The documents: an undo or redo
must fit the text it is done to, which the text before it decides; a `Chain` of
lengths says that each entry of a stack leads from the length the one below it left,
and that its inverse leads back. The tabs: a conflict stands only against unsaved
text, and a clean tab has its saved text (`TabOK`). The transactions of this program
have one edit or two, so the recursive functions of `Document` have so many steps over them. There is
one lemma for each thing done to the pane (a snapshot installed, the document
changed, a commit taken, a key, the end of a composition) and one for each action.
The first attempt at this proof failed at a composition that outlives the text it
began over: that is `CommitsAreCurrent`, and why `astray` covers it.

`EditingProofs` about `History`, for any texts of any bytes, any clock, any limits of
the history, any number of edits in a transaction and of steps, from
`DocumentAssumption` and `HistoryAssumption` (texts are sequences):
`UndoAlwaysReturns` (`UndoReturns`), `RedoAlwaysReturns` (`RedoReturns`) and
`BudgetIsExact` (`BudgetExact`). None of the three is inductive: that undoing all of
the stack gives `floor` does not say where it gets half way. `HistoryInv` asks for the texts
in between. `Held` says that there is a text for every height of the undo stack,
from `floor` to the document's, and `Waiting` the same of the redo stack; each entry
`Leads` from one to the next, which is that its edits are valid there, give the
other text, and that its inverse is the one `build_inverse` makes. `Charged` has
the sum at every height. What valid edits make of a text is said byte by byte: a byte
that no edit replaces is found at its place plus what the edits before it add
(`Displacement`), and the rest are the replacements. From that `TakenBack`: the inverse of any
number of valid edits gives the text back. `JoinedLeads`: typing that was joined leads
from the text before the first character to the one after the last.
`HeldLosesOldest`: an evicted entry moves the floor to the next text. `Least` and
`Climb` are induction on a number, from the well-foundedness of strict inclusion; with
them `TotalIs`, `AppliedIs` and `ReplayIs` say what the recursive functions of
`Document` compute. `MaxEdits` bounds the transactions of the run only.

`EditingProofs` about `EditorPane`, for texts of one-byte characters (as the module has
them), any keys, queries, replacements and sizes of plans, from `DocumentAssumption`,
`FindReplaceAssumption` and `EditorAssumption`: `MirrorAgrees` (`MirrorIsDocument`),
`IndexAgrees` (`IndexTracks`) and `EveryMatchReplaced` (`ReplacesAllOrNothing`).
`EditorInv` says, while the program runs, that the document is `Sound` (its stacks
lead as above, and hold no byte of a wide character), that the widget's
selection lies in its text, that the index is that of the mirror (`Indexes`), that
the mirror is the document while no answer is awaited (`Agree`), and that
what the find bar holds is an interval or nothing. The argument has three
parts. `Reindexed` on the index of a text is the index of the text with the edit in
it. The mirror follows a change from its last edit to its first, which gives the
text the document has by applying all of them at once, as edits in order do not move what is
in front of them. A replacement of all matches is a chain of plans: the matches do not
overlap, `Planned` keeps what is cut off and what is left together as the list of all
matches, a plan moved by what the earlier ones added fits the text they leave, and
one after the other they give `Replaced`. Nothing is claimed of the widget's
text, which is not the document's in general (`ShownIsDocument`, above).

`FormattingProofs`, for texts of any number of lines with any markers and words, and any
inline text, from `FormattingAssumption` (texts are made of lines, and inline
markers of bytes that are not those of words): `TogglesMarkAndReturn` (`TogglesCycle`),
`NumbersGoOn` (`EnterNumbersOn`) and `SpansReturn` (`InlineReturns`). `FormattingInv` is
that the text is a sequence of lines, and the other one of bytes, which every command keeps; the
work is in what one command does to such a text. A toggle that marks adds to each
line that takes part a marker `Existing` then finds, and to a list their numbers
by position; what it adds is all that the second takes away. Enter: the items that
follow end where the first line is no item, so they are the same before and after,
moved by one. Spans: a marker put in at both ends is what `Before` and `After` read
there, and with no marker byte next to it nothing longer is read.

Every invariant and action property that a run checks is stated by a theorem.
Model-checked only is liveness, as fairness and ENABLED are beyond the prover:
`CallsReturn`, `JobsFinish`, `OtherWritesNoticed`, `EditsAreJournalled`,
`PageIsPainted` and `SupervisionEnds`.

## Not modelled, and the plan

Not modelled: rendering, sanitizing, HTML to Markdown and export are functions
from strings to strings with no state, and a model of a parser would be the
parser; they stay with their tests. Drawing, hit testing, accessibility,
pasteboard and menus are native glue whose order of events is in `EditorPane`
and `SessionTabs`. Preferences, local search, outline, revision history,
diagnostics and publishing are called by no shell. The inspection of packages
and the binding of evidence in `xtask` are long sequences of
checks over parsed files, each of which refuses or goes on; nothing in them
interleaves with the program. `open -W` on macOS starts the application outside
the group that is supervised; that it may stay there is not in the model. The style panel and the test driver's
commands are left out. The file service's debouncer has no caller.

Next, most important first:

1. The recent list, and the session state as `session.json` (encoding left out).
2. Open events that come before the window exists.
3. Autosave ticks over `SessionTabs`, composed with `RecoverableDocument`.
4. The links and code blocks of the formatting commands.
5. The binding of evidence, as one gate over what others have published.
