-------------------------------- MODULE History --------------------------------
(***************************************************************************)
(* The undo history of a document over its life: typing with and without   *)
(* a history context, transactions of several edits, undo, redo, the       *)
(* closing of a typing group, and the eviction of old entries.             *)
(***************************************************************************)
EXTENDS Document

CONSTANTS
    Start,     \* the text the document is opened with
    Words,     \* what edits put in
    MaxEdits,  \* bound on the edits of a transaction
    Clock      \* the times typing happens at

ASSUME HistoryAssumption ==
    /\ \A text \in Words \cup {Start} : text \in Seq(ToSet(text))
    /\ MaxEdits \in Nat

VARIABLES
    document,  \* the Document
    floor      \* history: the text before the oldest entry still kept

historyVars == <<document, floor>>

HistoryInit == /\ document = NewDocument(Start)
               /\ floor = Start

\* Where the undo stack now starts: past what eviction took from pushed.
Raised(pushed, kept) ==
    Replay(floor, [j \in 1 .. Len(pushed) - Len(kept) |-> pushed[j].edits])

TypingContexts(i, word) ==
    {NoContext}
      \cup [ms : Clock, direction : {"forward"},
            before : {[anchor |-> i, head |-> i]},
            after : {[anchor |-> i + Len(word), head |-> i + Len(word)]}]
      \cup [ms : Clock, direction : {"backward"},
            before : {[anchor |-> i, head |-> i]},
            after : {[anchor |-> i, head |-> i]}]

Commit(tx, context) ==
    /\ Accepts(document, tx)
    /\ document' = Applied(document, tx, context)
    /\ floor' = Raised(Entered(document, tx, context).undo, document'.undo)

Type(i, word, context) ==
    Commit([base |-> document.revision, kind |-> "typing",
            edits |-> <<[from |-> i, to |-> i, with |-> word]>>], context)

Rewrite(edits) ==
    Commit([base |-> document.revision, kind |-> "programmatic", edits |-> edits],
           NoContext)

Undo == /\ CanUndo(document)
        /\ document' = Undone(document)
        /\ UNCHANGED floor

Redo == /\ CanRedo(document)
        /\ document' = Redone(document)
        /\ floor' = Raised(Reentered(document).undo, document'.undo)

CloseGroup == /\ document.groupOpen
              /\ document' = CloseHistoryGroup(document)
              /\ UNCHANGED floor

Edits(text) == [from : 0 .. Len(text), to : 0 .. Len(text), with : Words \cup {<< >>}]

HistoryNext ==
    \/ \E i \in 0 .. Len(document.text), word \in Words :
          \E context \in TypingContexts(i, word) : Type(i, word, context)
    \/ \E n \in 1 .. MaxEdits : \E edits \in [1 .. n -> Edits(document.text)] : Rewrite(edits)
    \/ Undo
    \/ Redo
    \/ CloseGroup

HistorySpec == HistoryInit /\ [][HistoryNext]_historyVars

-----------------------------------------------------------------------------
(* Properties *)

(***************************************************************************)
(* Undoing everything that can still be undone restores, byte for byte,    *)
(* the text before the oldest entry kept: whatever mixture of typing that  *)
(* was joined, several-edit transactions, undo, redo and eviction led      *)
(* here, the inverse edits of apply_internal and coalesce_typing compose.  *)
(***************************************************************************)
UndoReturns == Back(document, Len(document.undo)) = floor

(***************************************************************************)
(* Undo followed by redo is the identity, at every depth: what was undone  *)
(* fits the text its redo meets, and redoing the k newest undone entries   *)
(* and undoing them again gives this text.                                 *)
(***************************************************************************)
RedoReturns ==
    LET n == Len(document.redo) IN
    \A k \in 0 .. n :
        /\ Back([text |-> Ahead(document, k),
                 undo |-> Reverse(SubSeq(document.redo, n - k + 1, n))], k) = document.text
        /\ k < n => ValidEdits(Ahead(document, k), document.redo[n - k].edits)

(***************************************************************************)
(* undo_bytes is the sum of the charges of the undo entries, and within    *)
(* the budget: joining, undoing, redoing and evicting never leave the      *)
(* counter above what is held (entries evicted for nothing) or below it    *)
(* (memory beyond MAX_UNDO_BYTES).                                         *)
(***************************************************************************)
BudgetExact ==
    /\ document.undoBytes = Sum(LAMBDA entry : entry.charge, document.undo)
    /\ document.undoBytes <= MaxUndo
===============================================================================
