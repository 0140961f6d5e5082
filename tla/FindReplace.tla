----------------------------- MODULE FindReplace -----------------------------
(***************************************************************************)
(* crates/rutile-core/src/find_engine.rs over the contracts of             *)
(* find_contract.rs and format_contract.rs: searching a text, and lowering *)
(* a replacement into edit plans of bounded size.  A query is a pattern,   *)
(* whether it matches whole words only, and whether case matters.          *)
(***************************************************************************)
EXTENDS Document, FiniteSetsExt

CONSTANTS
    WordByte,         \* first bytes of alphanumeric characters, and '_'
    LowerCase,        \* char::to_lowercase, on bytes: a function
    MaxPlanEdits,     \* MAX_PLAN_EDITS
    MaxPlannedSpan,   \* MAX_PLANNED_SPAN_BYTES, also of a replacement
    MaxPlanTotal      \* MAX_PLAN_TOTAL_BYTES

ASSUME FindReplaceAssumption == {MaxPlanEdits, MaxPlannedSpan, MaxPlanTotal} \subseteq Nat

None == [from |-> -1, to |-> -1]

Folded(byte) == IF byte \in DOMAIN LowerCase THEN LowerCase[byte] ELSE byte

SameText(q, a, b) ==
    IF q.caseSensitive THEN a = b
    ELSE Len(a) = Len(b) /\ \A k \in DOMAIN a : Folded(a[k]) = Folded(b[k])

\* The first byte of the character that ends, or begins, at i.
CharBefore(text, i) == IF text[i] = Trail THEN text[i - 1] ELSE text[i]
CharAfter(text, i)  == text[i + 1]

Accept(text, q, from, to) ==
    q.wholeWord => /\ from = 0 \/ CharBefore(text, from) \notin WordByte
                   /\ to = Len(text) \/ CharAfter(text, to) \notin WordByte

Match(q, i) == [from |-> i, to |-> i + Len(q.pattern)]

Occurrences(text, q) ==
    {i \in Boundaries(text) : /\ i + Len(q.pattern) <= Len(text)
                              /\ SameText(q, Slice(text, i, i + Len(q.pattern)), q.pattern)}

Accepted(text, q) ==
    {i \in Occurrences(text, q) : Accept(text, q, i, i + Len(q.pattern))}

-----------------------------------------------------------------------------
(* Searching *)

BoundaryCeil(text, byte)  == Min({i \in Boundaries(text) : i >= Min({byte, Len(text)})})
BoundaryFloor(text, byte) == Max({i \in Boundaries(text) : i <= byte})

SearchForward(text, q, start) ==
    LET found == {i \in Accepted(text, q) : i >= start}
    IN  IF found = {} THEN None ELSE Match(q, Min(found))

\* str::rmatch_indices: occurrences from the right that do not overlap.
FromTheRight(text, q) ==
    ToSet(FoldLeft(LAMBDA kept, i :
                       IF kept = << >> \/ i + Len(q.pattern) <= Last(kept)
                         THEN Append(kept, i) ELSE kept,
                   << >>, SetToSortSeq(Occurrences(text, q), >)))

SearchBackward(text, q, limit) ==
    LET candidates == IF q.caseSensitive THEN FromTheRight(text, q)
                                         ELSE Occurrences(text, q)
        found == {i \in candidates \cap Accepted(text, q) : i < limit}
    IN  IF found = {} THEN None ELSE Match(q, Max(found))

FindNext(text, q, from, forward, wrap) ==
    LET first == IF forward THEN SearchForward(text, q, BoundaryCeil(text, from))
                 ELSE SearchBackward(text, q, BoundaryFloor(text, from))
        again == IF forward THEN SearchForward(text, q, 0)
                 ELSE SearchBackward(text, q, Len(text))
    IN  IF first = None /\ wrap THEN again ELSE first

\* From left to right, none within the one before.
AllMatches(text, q) ==
    LET kept[i \in 0 .. Len(text) + 1] ==
          IF i = 0 THEN << >>
          ELSE IF /\ i - 1 \in Accepted(text, q)
                  /\ kept[i - 1] = << >> \/ Last(kept[i - 1]).to <= i - 1
            THEN Append(kept[i - 1], Match(q, i - 1))
          ELSE kept[i - 1]
    IN  kept[Len(text) + 1]

-----------------------------------------------------------------------------
(* Edit plans *)

PlanBytes(edits) == Sum(LAMBDA e : Span(e) + Len(e.with), edits)

\* EditPlan::new and flush_chunk: what a plan may hold.
PlanFits(edits) ==
    /\ Len(edits) \in 1 .. MaxPlanEdits
    /\ \A e \in ToSet(edits) : Span(e) <= MaxPlannedSpan /\ Len(e.with) <= MaxPlannedSpan
    /\ PlanBytes(edits) <= MaxPlanTotal
    /\ \A k \in 2 .. Len(edits) : edits[k - 1].to <= edits[k].from

Moved(edits, by) ==
    [k \in DOMAIN edits |-> [edits[k] EXCEPT !.from = @ + by, !.to = @ + by]]

\* Mutant of Flush: the chunks before this one are not accounted for.
FlushUnmoved(acc) == [acc EXCEPT !.plans = Append(@, acc.chunk), !.chunk = << >>]

\* flush_chunk: the plan so far, in the coordinates the earlier plans leave.
Flush(acc) ==
    [plans |-> Append(acc.plans, Moved(acc.chunk, acc.committed)),
     chunk |-> << >>,
     committed |-> acc.committed + Sum(Delta, acc.chunk)]

\* The next edit goes into the chunk, which is flushed first when it is full.
Planned(acc, e) ==
    LET full == \/ Len(acc.chunk) >= MaxPlanEdits
                \/ acc.chunk # << >>
                   /\ PlanBytes(acc.chunk) + PlanBytes(<<e>>) > MaxPlanTotal
        room == IF full THEN Flush(acc) ELSE acc
    IN  [room EXCEPT !.chunk = Append(@, e)]

Replacing(text, q, replacement) ==
    LET found == AllMatches(text, q) IN
    [k \in DOMAIN found |->
        [from |-> found[k].from, to |-> found[k].to, with |-> replacement]]

\* replace_all: the k-th plan applies at the base revision plus k - 1.
ReplaceAllPlans(text, q, replacement) ==
    LET edits == Replacing(text, q, replacement)
        acc[k \in 0 .. Len(edits)] ==
          IF k = 0 THEN [plans |-> << >>, chunk |-> << >>, committed |-> 0]
          ELSE Planned(acc[k - 1], edits[k])
        all == acc[Len(edits)]
    IN  IF all.chunk = << >> THEN << >> ELSE Flush(all).plans

\* Where the last plan leaves the caret.
SelectionAfter(plan) == Last(plan).to + Sum(Delta, plan)

-----------------------------------------------------------------------------
(* What replacing every match means *)

\* The bytes of text in order, those of each match replaced.
Replaced(text, q, replacement) == ApplyEdits(text, Replacing(text, q, replacement))
===============================================================================
