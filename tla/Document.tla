------------------------------- MODULE Document -------------------------------
(***************************************************************************)
(* crates/rutile-core/src/document.rs: a text, its revision, and the undo  *)
(* and redo stacks.  A text is a sequence of bytes; a character may take   *)
(* several, all but the first being Trail.  An edit replaces the bytes     *)
(* from+1 .. to by `with'; a transaction is a sequence of edits, ordered   *)
(* and disjoint, whose positions all refer to the text before it.          *)
(***************************************************************************)
EXTENDS Integers, Sequences, SequencesExt

CONSTANTS
    Newline,       \* the line feed byte
    Trail,         \* a continuation byte of a multi-byte character
    MaxDocument,   \* MAX_DOCUMENT_BYTES
    MaxUndo,       \* MAX_UNDO_BYTES
    EditOverhead,  \* HISTORY_EDIT_OVERHEAD
    TypingGap,     \* 500 ms: typing further apart is undone separately
    LastRevision   \* u64::MAX of the code

ASSUME DocumentAssumption ==
    /\ {MaxDocument, MaxUndo, EditOverhead, TypingGap, LastRevision} \subseteq Nat
    /\ Newline # Trail

NoContext == [ms |-> -1]

Total(numbers) ==
    LET sum[k \in 0 .. Len(numbers)] ==
          IF k = 0 THEN 0 ELSE sum[k - 1] + numbers[k]
    IN  sum[Len(numbers)]

Sum(f(_), s) == Total([k \in DOMAIN s |-> f(s[k])])

Slice(text, i, j) == SubSeq(text, i + 1, j)
Boundary(text, i) == i = Len(text) \/ text[i + 1] # Trail
Boundaries(text)  == {i \in 0 .. Len(text) : Boundary(text, i)}

Span(e)  == e.to - e.from
Delta(e) == Len(e.with) - Span(e)

-----------------------------------------------------------------------------
(* Applying and inverting edits *)

Splice(text, e) == Slice(text, 0, e.from) \o e.with \o Slice(text, e.to, Len(text))

\* From the last edit to the first, so that no edit moves a later one.
ApplyEdits(text, edits) ==
    LET n == Len(edits)
        after[k \in 0 .. n] ==
          IF k = 0 THEN text ELSE Splice(after[k - 1], edits[n - k + 1])
    IN  after[n]

ValidEdits(text, edits) ==
    /\ edits # << >>
    /\ \A k \in DOMAIN edits :
          /\ edits[k].from <= edits[k].to
          /\ {edits[k].from, edits[k].to} \subseteq Boundaries(text)
          /\ k > 1 => edits[k - 1].to <= edits[k].from

PostEditLen(text, edits) == Len(text) + Sum(Delta, edits)

Charge(edits) ==
    Sum(LAMBDA e : Span(e) + Len(e.with) + EditOverhead, edits)

\* What the edits before the k-th move it by.
Displacement(edits, k) == Sum(Delta, SubSeq(edits, 1, k - 1))

\* Mutant of InverseOf: the positions of the text before the transaction.
InverseUnmoved(text, edits) ==
    [k \in DOMAIN edits |->
        [from |-> edits[k].from, to |-> edits[k].from + Len(edits[k].with),
         with |-> Slice(text, edits[k].from, edits[k].to)]]

InverseOf(text, edits) ==
    [k \in DOMAIN edits |->
        LET from == edits[k].from + Displacement(edits, k) IN
        [from |-> from, to |-> from + Len(edits[k].with),
         with |-> Slice(text, edits[k].from, edits[k].to)]]

-----------------------------------------------------------------------------
(* Typing that is undone as one *)

Collapsed(sel) == sel.anchor = sel.head

CoalescibleTyping(tx, context) ==
    /\ context # NoContext
    /\ tx.kind = "typing"
    /\ Len(tx.edits) = 1
    /\ Span(tx.edits[1]) = 0
    /\ tx.edits[1].with # << >>
    /\ ~ Contains(tx.edits[1].with, Newline)
    /\ Collapsed(context.before) /\ Collapsed(context.after)

\* coalesce_typing's conditions, on the newest entry and the new transaction.
Coalesces(entry, tx, context) ==
    /\ CoalescibleTyping(entry, entry.context)
    /\ CoalescibleTyping(tx, context)
    /\ context.direction = entry.context.direction
    /\ context.before = entry.context.after
    /\ context.ms - entry.context.ms \in 0 .. TypingGap
    /\ tx.edits[1].from = entry.edits[1].from
         + IF context.direction = "forward" THEN Len(entry.edits[1].with) ELSE 0

Coalesced(entry, tx, charge, context) ==
    LET old == entry.edits[1]
        new == tx.edits[1]
    IN  [entry EXCEPT
           !.edits[1] = IF context.direction = "forward"
                          THEN [old EXCEPT !.with = @ \o new.with]
                          ELSE [new EXCEPT !.with = @ \o old.with],
           !.inverse[1].to = @ + Len(new.with),
           !.charge = @ + charge,
           !.context = context]

-----------------------------------------------------------------------------
(* The document *)

NewDocument(text) ==
    [text |-> text, revision |-> 0, undo |-> << >>, redo |-> << >>,
     undoBytes |-> 0, groupOpen |-> FALSE]

\* The oldest entries go until the budget is met; with none left it is zero.
EnforceUndoBudget(d) ==
    LET Left(k) == d.undoBytes
                     - Sum(LAMBDA entry : entry.charge, SubSeq(d.undo, 1, k))
        Enough(k) == Left(k) <= MaxUndo
        k == IF \E n \in 0 .. Len(d.undo) : Enough(n)
               THEN CHOOSE n \in 0 .. Len(d.undo) :
                       Enough(n) /\ \A m \in 0 .. n - 1 : ~ Enough(m)
               ELSE Len(d.undo)
    IN  [d EXCEPT !.undo = SubSeq(@, k + 1, Len(@)),
                  !.undoBytes = IF Enough(k) THEN Left(k) ELSE 0]

Accepts(d, tx) ==
    /\ tx.base = d.revision
    /\ d.revision < LastRevision
    /\ ValidEdits(d.text, tx.edits)
    /\ PostEditLen(d.text, tx.edits) <= MaxDocument

\* Mutant of Entered: the redo stack survives an edit.
EnteredKeepingRedo(d, tx, context) ==
    [d EXCEPT !.text = ApplyEdits(@, tx.edits),
              !.revision = @ + 1,
              !.undo = Append(@, [kind |-> tx.kind, edits |-> tx.edits,
                                  inverse |-> InverseOf(d.text, tx.edits),
                                  charge |-> Charge(tx.edits),
                                  context |-> context]),
              !.undoBytes = @ + Charge(tx.edits)]

\* apply and apply_with_history, of a transaction Accepts holds for, up to
\* the eviction of old entries.
Entered(d, tx, context) ==
    LET charge == Charge(tx.edits)
        entry  == [kind |-> tx.kind, edits |-> tx.edits,
                   inverse |-> InverseOf(d.text, tx.edits),
                   charge |-> charge, context |-> context]
        joins  == /\ d.groupOpen /\ d.undo # << >>
                  /\ Coalesces(Last(d.undo), tx, context)
    IN  [d EXCEPT !.text = ApplyEdits(@, tx.edits),
                  !.revision = @ + 1,
                  !.redo = << >>,
                  !.undoBytes = @ + charge,
                  !.undo = IF joins
                             THEN Append(Front(@), Coalesced(Last(@), tx, charge, context))
                             ELSE Append(@, entry),
                  !.groupOpen = CoalescibleTyping(tx, context)]

Applied(d, tx, context) == EnforceUndoBudget(Entered(d, tx, context))

CanUndo(d) == d.revision < LastRevision /\ d.undo # << >>
CanRedo(d) == d.revision < LastRevision /\ d.redo # << >>

Undone(d) ==
    LET entry == Last(d.undo) IN
    [d EXCEPT !.text = ApplyEdits(@, entry.inverse),
              !.revision = @ + 1,
              !.undo = Front(@),
              !.undoBytes = @ - entry.charge,
              !.redo = Append(@, entry),
              !.groupOpen = FALSE]

\* Mutant of Reentered: the charge of the entry is not counted again.
ReenteredForFree(d) ==
    LET entry == Last(d.redo) IN
    [d EXCEPT !.text = ApplyEdits(@, entry.edits),
              !.revision = @ + 1,
              !.redo = Front(@),
              !.undo = Append(@, entry),
              !.groupOpen = FALSE]

Reentered(d) ==
    LET entry == Last(d.redo) IN
    [d EXCEPT !.text = ApplyEdits(@, entry.edits),
              !.revision = @ + 1,
              !.redo = Front(@),
              !.undo = Append(@, entry),
              !.undoBytes = @ + entry.charge,
              !.groupOpen = FALSE]

Redone(d) == EnforceUndoBudget(Reentered(d))

CloseHistoryGroup(d) == [d EXCEPT !.groupOpen = FALSE]

-----------------------------------------------------------------------------
(* What the stacks hold *)

\* The text after one list of edits and then the next.
Replay(text, lists) ==
    LET after[k \in 0 .. Len(lists)] ==
          IF k = 0 THEN text ELSE ApplyEdits(after[k - 1], lists[k])
    IN  after[Len(lists)]

\* The text reached by undoing k entries.
Back(d, k) ==
    Replay(d.text, [j \in 1 .. k |-> d.undo[Len(d.undo) - j + 1].inverse])

\* The text reached by redoing k entries.
Ahead(d, k) ==
    Replay(d.text, [j \in 1 .. k |-> d.redo[Len(d.redo) - j + 1].edits])
===============================================================================
