----------------------------- MODULE SessionTabs -----------------------------
(***************************************************************************)
(* The documents of a window: DocumentSessionCore (session_core.rs), which *)
(* keeps the text of the active tab in one place and parks the others, the *)
(* DocumentSlots of AppState and DocumentManager (app.rs,                  *)
(* document_manager.rs), the files behind them, and the macOS commands     *)
(* that work on all of these (platform/macos.rs, platform/macos/native.rs).*)
(*                                                                         *)
(* A text is a number: every edit and every write by another program makes *)
(* a new one.  A DiskVersion (digest, time, length) is the text it names.  *)
(***************************************************************************)
EXTENDS Naturals, FiniteSets, Functions

CONSTANTS
    Path,       \* files the user works with
    Untitled,   \* the path of a document without one
    MaxOpen,    \* MAX_OPEN_DOCUMENTS
    MaxId,      \* the largest DocumentId given out in a run
    MaxText     \* the last text made in a run

ASSUME PathAssumption  == Untitled \notin Path
Id   == 0 .. MaxId
Text == 0 .. MaxText

\* The text of a new tab, of the program's starter document, and of every
\* file before anyone writes to it.
Empty == 0
Starter == 1
Original == 2

ASSUME LimitAssumption == /\ MaxOpen \in Nat \ {0} /\ MaxId \in Nat
                          /\ MaxText \in Nat /\ Original <= MaxText

Document == [text : Text, rev : Nat]

\* saved is the DiskVersion the slot knows, {} for none.  store: the slot
\* holds a clone of the autosave store.
DocumentSlot == [rev : Nat, dirty : BOOLEAN, path : Path \cup {Untitled},
                 saved : SUBSET Text, conflict : BOOLEAN, store : BOOLEAN]

VARIABLES
    slots,      \* the slot of every open tab; tab_order is the order of the ids
    active,     \* the active tab
    nextId,     \* the id of the next tab
    document,   \* the rope of the active tab
    parked,     \* the ropes of the other tabs
    pane,       \* the mirror of the document in the source pane
    disk,       \* the text of every file that exists
    lastText,   \* texts 0 .. lastText have been made
    phase       \* the start of the program, its event loop, a save in it, its exit

core == <<slots, active, nextId, document, parked>>
vars == <<core, pane, disk, lastText, phase>>

slot == slots[active]

\* What the user finds in a tab on switching to it.
TextOf(id) == IF id = active THEN document.text
              ELSE IF id \in DOMAIN parked THEN parked[id].text ELSE Empty

Put(f, x, y) == [z \in DOMAIN f \cup {x} |-> IF z = x THEN y ELSE f[z]]
Without(f, x) == Restrict(f, DOMAIN f \ {x})

-----------------------------------------------------------------------------
(* Slots *)

NewSlot(store) == [rev |-> 0, dirty |-> FALSE, path |-> Untitled,
                   saved |-> {}, conflict |-> FALSE, store |-> store]

\* Mutant of Opened: the slot keeps the revision of the text it replaces.
OpenedAtOldRevision(s, p) == [s EXCEPT !.dirty = FALSE, !.path = p,
                                       !.saved = {disk[p]}, !.conflict = FALSE]

\* DocumentOpened, of the file at p as it is on disk.
Opened(s, p) == [s EXCEPT !.rev = 0, !.dirty = FALSE, !.path = p,
                          !.saved = {disk[p]}, !.conflict = FALSE]

\* DocumentEdited: a revision the slot has seen already changes nothing.
Edited(s, rev) == IF rev <= s.rev THEN s ELSE [s EXCEPT !.rev = rev, !.dirty = TRUE]

\* SaveCompleted and, when the directory could not be synced,
\* SaveDurabilityUnknown, after which the document stays dirty.
AfterSave(p, unsure) ==
    IF slot.rev # document.rev THEN slots
    ELSE [slots EXCEPT ![active] = [@ EXCEPT !.dirty = unsure, !.path = p,
                                       !.saved = {document.text}, !.conflict = FALSE]]

\* Mutant of InheritedStore: a new tab has to be bound on its own.
NoStore == FALSE

InheritedStore == \E id \in DOMAIN slots : slots[id].store

-----------------------------------------------------------------------------
(* Parking and loading ropes *)

Load(id, ropes) ==
    /\ document' = IF id \in DOMAIN ropes THEN ropes[id] ELSE [text |-> Empty, rev |-> 0]
    /\ parked' = Without(ropes, id)

\* Mutant of Park: the rope of the active tab is left where it is.
ParkNothing == parked

Park == Put(parked, active, document)

\* The tab that moves into the place of a closed one: the next in the strip,
\* or the last.
Neighbour(id) ==
    LET rest == DOMAIN slots \ {id}
        right == {i \in rest : i > id}
    IN IF right # {} THEN CHOOSE i \in right : \A j \in right : i <= j
                     ELSE CHOOSE i \in rest : \A j \in rest : j <= i

\* close_tab, with these slots, and what the core does with the ropes.
RemoveTab(id, all) ==
    /\ slots' = Without(all, id)
    /\ IF id = active
         THEN active' = Neighbour(id) /\ Load(active', Without(parked, id))
         ELSE parked' = Without(parked, id) /\ UNCHANGED <<active, document>>
    /\ UNCHANGED nextId

AddTab(new, rope) ==
    /\ Cardinality(DOMAIN slots) < MaxOpen
    /\ nextId <= MaxId
    /\ slots' = Put(slots, nextId, new)
    /\ active' = nextId
    /\ nextId' = nextId + 1
    /\ parked' = Park
    /\ document' = rope

\* adopt_opened_document for the file at p: into the first tab that has the
\* path, in place of a clean untitled document that is alone, or into a new
\* tab.  At the limit nothing changes.
Adopt(p) ==
    LET rope == [text |-> disk[p], rev |-> 0]
        holders == {id \in DOMAIN slots : slots[id].path = p}
        alone == DOMAIN slots = {active} /\ ~slot.dirty /\ slot.path = Untitled
    IN \/ \E id \in IF holders = {} /\ alone THEN {active} ELSE holders :
            /\ \A other \in holders : id <= other
            /\ active' = id
            /\ slots' = [slots EXCEPT ![id] = Opened(@, p)]
            /\ parked' = IF id = active THEN parked ELSE Without(Park, id)
            /\ document' = rope
            /\ UNCHANGED nextId
       \/ /\ holders = {} /\ ~alone
          /\ AddTab(Opened(NewSlot(InheritedStore), p), rope)

-----------------------------------------------------------------------------
(* The start of the program *)

\* Launched with a file or without, the autosave store bound.
Init ==
    /\ disk \in UNION {[files -> {Original}] : files \in SUBSET Path}
    /\ lastText = Original
    /\ active = 0 /\ nextId = 1 /\ parked = <<>>
    /\ \/ /\ document = [text |-> Starter, rev |-> 0]
          /\ slots = [id \in {0} |-> NewSlot(TRUE)]
       \/ \E p \in DOMAIN disk :
            /\ document = [text |-> disk[p], rev |-> 0]
            /\ slots = [id \in {0} |-> Opened(NewSlot(TRUE), p)]
    /\ pane = document
    /\ phase = "restore"

\* The state of the last session is restored: a new DocumentManager, and the
\* last file if there was one and it can still be loaded.
SessionRestored ==
    /\ phase = "restore"
    /\ phase' = "recover"
    /\ active' = 0 /\ nextId' = 1
    /\ \/ /\ slots' = [id \in {0} |-> NewSlot(FALSE)]
          /\ UNCHANGED document
       \/ \E p \in DOMAIN disk :
            /\ slots' = [id \in {0} |-> Opened(NewSlot(FALSE), p)]
            /\ document' = [text |-> disk[p], rev |-> 0]
    /\ pane' = document'
    /\ UNCHANGED <<parked, disk, lastText>>

NoSession ==
    /\ phase = "restore"
    /\ phase' = "recover"
    /\ UNCHANGED <<core, pane, disk, lastText>>

\* The user decides on the document the autosave journal holds: adopted, it
\* is a dirty document at revision 0 that was never on disk.
AdoptRecovered ==
    /\ phase = "recover"
    /\ lastText < MaxText
    /\ lastText' = lastText + 1
    /\ document' = [text |-> lastText', rev |-> 0]
    /\ \E hint \in Path \cup {Untitled} :
         slots' = [slots EXCEPT ![active] = [NewSlot(@.store) EXCEPT !.dirty = TRUE,
                                                                     !.path = hint]]
    /\ pane' = document'
    /\ phase' = "running"
    /\ UNCHANGED <<active, nextId, parked, disk>>

DismissRecovered ==
    /\ phase = "recover"
    /\ phase' = "running"
    /\ UNCHANGED <<core, pane, disk, lastText>>

-----------------------------------------------------------------------------
(* Editing *)

Running == phase = "running" /\ UNCHANGED phase

\* Typing goes through the source pane, whose commit names its revision; a
\* shared edit (format, replace, undo) brings the pane up to date.
Edit ==
    /\ Running
    /\ lastText < MaxText
    /\ lastText' = lastText + 1
    /\ document' = [text |-> lastText', rev |-> document.rev + 1]
    /\ slots' = [slots EXCEPT ![active] = Edited(@, document'.rev)]
    /\ \/ pane = document /\ pane' = document'
       \/ /\ pane # document
          /\ \/ pane' = document'
             \/ pane.rev = document.rev /\ pane' = [pane EXCEPT !.rev = @ + 1]
    /\ UNCHANGED <<active, nextId, parked, disk>>

\* A commit of another revision is refused, and that stops the program.
EditRefused ==
    /\ phase = "running"
    /\ pane.rev # document.rev
    /\ phase' = "exited"
    /\ UNCHANGED <<core, pane, disk, lastText>>

-----------------------------------------------------------------------------
(* Files *)

\* save_atomic and the message for its outcome; NotCommitted changes nothing.
Write(p, unsure) ==
    /\ disk' = Put(disk, p, document.text)
    /\ slots' = AfterSave(p, unsure)

\* Where a save goes: the document's path, or the one chosen in the panel.
SavePath == IF slot.path = Untitled THEN Path ELSE {slot.path}

\* inspect_external_change sees another version than the slot knows.
FileChanged == slot.path \in DOMAIN disk /\ slot.saved # {} /\ disk[slot.path] \notin slot.saved

DetectConflict ==
    /\ FileChanged /\ slot.dirty
    /\ slots' = [slots EXCEPT ![active].conflict = TRUE]
    /\ UNCHANGED <<active, nextId, document, parked, pane>>

ReloadChanged == FileChanged /\ ~slot.dirty /\ Adopt(slot.path)

\* The poll of the active tab's file.
PollDisk ==
    /\ Running
    /\ DetectConflict \/ (ReloadChanged /\ pane' = document')
    /\ UNCHANGED <<disk, lastText>>

\* run_save: the file is inspected, and a conflict stops the save; a clean
\* document is reloaded and needs no save.
Save ==
    /\ phase = "running"
    /\ ~slot.conflict
    /\ \/ DetectConflict /\ UNCHANGED phase
       \/ ReloadChanged /\ UNCHANGED <<pane, phase>>
       \/ /\ ~FileChanged
          /\ slot.dirty \/ slot.path = Untitled
          /\ phase' = "saving"
          /\ UNCHANGED <<core, pane>>
    /\ UNCHANGED <<disk, lastText>>

\* What follows holds up the event loop and not other programs: the panel for
\* an untitled document, which the user may cancel, and the new file that is
\* renamed over whatever is at its path by then.
CommitSave ==
    /\ phase = "saving"
    /\ phase' = "running"
    /\ \/ \E p \in SavePath, unsure \in BOOLEAN : Write(p, unsure)
       \/ UNCHANGED <<slots, disk>>
    /\ UNCHANGED <<active, nextId, document, parked, pane, lastText>>

SaveAs ==
    /\ Running
    /\ \E p \in Path, unsure \in BOOLEAN : Write(p, unsure)
    /\ UNCHANGED <<active, nextId, document, parked, pane, lastText>>

\* The open panel, a file dropped on the window, a recent file, and the
\* reload of the active tab's own.
Open ==
    /\ Running
    /\ \E p \in DOMAIN disk : Adopt(p)
    /\ pane' = document'
    /\ UNCHANGED <<disk, lastText>>

\* Another program writes a file, or deletes it.
WriteOutside ==
    /\ \/ /\ lastText < MaxText
          /\ lastText' = lastText + 1
          /\ \E p \in Path : disk' = Put(disk, p, lastText')
       \/ \E p \in DOMAIN disk : disk' = Without(disk, p) /\ UNCHANGED lastText
    /\ UNCHANGED <<core, pane, phase>>

-----------------------------------------------------------------------------
(* Tabs, from the menu and the strip *)

NewTab ==
    /\ Running
    /\ AddTab(NewSlot(InheritedStore), [text |-> Empty, rev |-> 0])
    /\ pane' = document'
    /\ UNCHANGED <<disk, lastText>>

SwitchTab ==
    /\ Running
    /\ \E id \in DOMAIN slots \ {active} : active' = id /\ Load(id, Park)
    /\ pane' = document'
    /\ UNCHANGED <<slots, nextId, disk, lastText>>

\* The last tab is not closed.
Closable == IF Cardinality(DOMAIN slots) > 1 THEN DOMAIN slots ELSE {}

\* A clean tab is closed at once, a dirty one when the user discards it ...
CloseTab ==
    /\ Running
    /\ \E id \in Closable : RemoveTab(id, slots)
    /\ pane' = document'
    /\ UNCHANGED <<disk, lastText>>

\* Mutant of SaveAndClose: after the save the tab is closed as if discarded.
SaveAndDrop(id) ==
    /\ Running
    /\ slots[id].dirty
    /\ slot.dirty \/ slot.path = Untitled
    /\ \E p \in SavePath :
         /\ disk' = Put(disk, p, document.text)
         /\ RemoveTab(id, AfterSave(p, FALSE))
    /\ pane' = document'
    /\ UNCHANGED lastText

\* ... and when the user wants it saved, what is saved is the active tab, and
\* the tab closes if it is clean then.
SaveAndClose(id) ==
    /\ Running
    /\ slots[id].dirty
    /\ slot.dirty \/ slot.path = Untitled
    /\ \E p \in SavePath, unsure \in BOOLEAN :
         /\ disk' = Put(disk, p, document.text)
         /\ IF ~AfterSave(p, unsure)[id].dirty
              THEN RemoveTab(id, AfterSave(p, unsure))
              ELSE slots' = AfterSave(p, unsure) /\ UNCHANGED <<active, nextId, document, parked>>
    /\ pane' = document'
    /\ UNCHANGED lastText

\* The window is closed: at once, or with a dirty active tab on Discard ...
Quit ==
    /\ phase = "running"
    /\ phase' = "exited"
    /\ UNCHANGED <<core, pane, disk, lastText>>

\* ... or after saving it, unless the save is not known to be durable.
SaveAndQuit ==
    /\ phase = "running"
    /\ slot.dirty
    /\ \E p \in SavePath, unsure \in BOOLEAN :
         /\ Write(p, unsure)
         /\ phase' = IF slots'[active].dirty THEN "running" ELSE "exited"
    /\ UNCHANGED <<active, nextId, document, parked, pane, lastText>>

-----------------------------------------------------------------------------
(* The command palette sends its messages to AppState, past the core: the  *)
(* slots change, the ropes stay, and effects are dropped.                  *)

PaletteNew ==
    /\ ~slot.dirty
    /\ slots' = [slots EXCEPT ![active] = NewSlot(@.store)]
    /\ UNCHANGED <<active, nextId>>

PaletteNewTab ==
    /\ Cardinality(DOMAIN slots) < MaxOpen
    /\ nextId <= MaxId
    /\ slots' = Put(slots, nextId, NewSlot(InheritedStore))
    /\ active' = nextId
    /\ nextId' = nextId + 1

PaletteCloseTab ==
    /\ active \in Closable
    /\ ~slot.dirty
    /\ slots' = Without(slots, active)
    /\ active' = Neighbour(active)
    /\ UNCHANGED nextId

\* Show Next Tab and Show Previous Tab go round the strip.
PaletteSwitch ==
    /\ active' \in DOMAIN slots \ {active}
    /\ LET between == {id \in DOMAIN slots : \/ active < id /\ id < active'
                                             \/ active' < id /\ id < active}
       IN between = {} \/ DOMAIN slots = between \cup {active, active'}
    /\ UNCHANGED <<slots, nextId>>

Palette ==
    /\ Running
    /\ PaletteNew \/ PaletteNewTab \/ PaletteCloseTab \/ PaletteSwitch
    /\ UNCHANGED <<document, parked, pane, disk, lastText>>

-----------------------------------------------------------------------------

MenuNext ==
    \/ SessionRestored \/ NoSession \/ AdoptRecovered \/ DismissRecovered
    \/ NewTab \/ SwitchTab \/ CloseTab
    \/ \E id \in Closable : SaveAndClose(id)
    \/ Edit \/ EditRefused
    \/ PollDisk \/ Save \/ CommitSave \/ SaveAs \/ Open \/ WriteOutside
    \/ Quit \/ SaveAndQuit

Next == MenuNext \/ Palette

MenuSpec == Init /\ [][MenuNext]_vars   \* the palette is not used
Spec     == Init /\ [][Next]_vars

-----------------------------------------------------------------------------
(* Properties *)

\* The types of the session, and an active tab among at most MaxOpen.
TypeOK ==
    /\ active \in DOMAIN slots /\ Cardinality(DOMAIN slots) <= MaxOpen
    /\ slots \in [DOMAIN slots -> DocumentSlot] /\ DOMAIN slots \subseteq 0 .. nextId - 1
    /\ nextId \in 1 .. MaxId + 1
    /\ document \in Document /\ pane \in Document
    /\ parked \in [DOMAIN parked -> Document] /\ DOMAIN parked \subseteq Id
    /\ disk \in [DOMAIN disk -> Text] /\ DOMAIN disk \subseteq Path
    /\ lastText \in Text
    /\ phase \in {"restore", "recover", "running", "saving", "exited"}

\* Every inactive tab has its rope parked, no closed tab has, and the slots
\* know the revisions of the ropes, so that no edit is taken for a stale one.
RopesMatchSlots ==
    /\ DOMAIN parked = DOMAIN slots \ {active}
    /\ \A id \in DOMAIN slots :
         slots[id].rev = IF id = active THEN document.rev ELSE parked[id].rev

\* The text of a tab changes only in the active tab, to one just made (typed,
\* recovered) or to what its file holds: switching, closing and opening other
\* tabs leaves it alone (architecture.md:50).
TextsKept ==
    [][\A id \in DOMAIN slots \cap DOMAIN slots' :
         TextOf(id)' # TextOf(id) =>
           /\ id = active'
           /\ \/ TextOf(id)' = lastText'
              \/ slots'[id].path \in DOMAIN disk /\ TextOf(id)' = disk[slots'[id].path]]_vars

\* A document with a file that is not marked dirty has the text that was last
\* read from the file or written to it.
CleanIsSaved ==
    \A id \in DOMAIN slots :
        ~slots[id].dirty /\ slots[id].path # Untitled => slots[id].saved = {TextOf(id)}

\* Every tab has the autosave store, or none (document_manager.rs:183-185).
StoreShared == \A id, other \in DOMAIN slots : slots[id].store = slots[other].store

\* A tab that is closed by saving has had its text saved.
NoTabLost ==
    [][\A id \in Closable :
         SaveAndClose(id) /\ id \notin DOMAIN slots' =>
           \E p \in DOMAIN disk' : disk'[p] = TextOf(id)]_vars

\* The program itself writes this file in the step.
Writes(p) == lastText' = lastText /\ p \in DOMAIN disk'
               /\ (p \in DOMAIN disk => disk'[p] # disk[p])

\* The version of the file that a step overwrites is the one its tab knows;
\* a file that was never read has none.
SeenBefore(p) == p = slot.path /\ p \in DOMAIN disk /\ slot.saved # {} => disk[p] \in slot.saved

\* The save command overwrites no version of the file the tab has not seen:
\* "Conflict check immediately before a save attempt" (macos.rs:1050), "dirty
\* external change never auto-overwrites" (build-plan.md:329).
SaveChecksDisk == [][\A p \in Path : CommitSave /\ Writes(p) => SeenBefore(p)]_vars

\* Nor does the save that closes a tab or the window.
ClosingChecksDisk ==
    [][\A p \in Path :
         Writes(p) /\ (phase' = "exited" \/ DOMAIN slots' # DOMAIN slots) => SeenBefore(p)]_vars

\* Opening a file that is open in another tab switches to that tab
\* (multi-document-design.md:50): what is unsaved in a tab that is not active
\* is safe from whatever is done.
UnsavedStays ==
    [][\A id \in (DOMAIN slots \cap DOMAIN slots') \ {active} :
         slots[id].dirty => slots'[id].dirty /\ TextOf(id)' = TextOf(id)]_vars

\* A program with unsaved text exits only after asking about it: about the
\* active tab, so that the other tabs are clean.
QuitAsks == phase = "exited" => \A id \in DOMAIN slots \ {active} : ~slots[id].dirty

\* What is bound at the start stays bound (document_manager.rs:183).
StoreBound == \A id \in DOMAIN slots : slots[id].store

\* The source pane shows the document that commands and saves work on.
PaneShowsDocument == pane = document

\* The tab whose close prompt is answered with Save is the one that is saved
\* (multi-document-design.md:73: "the platform shows a per-tab save/discard/
\* cancel prompt").
PromptSavesItsTab ==
    [][\A id \in Closable, p \in Path :
         SaveAndClose(id) /\ Writes(p) => disk'[p] = TextOf(id)]_vars
===============================================================================
