------------------------------ MODULE Formatting ------------------------------
(***************************************************************************)
(* crates/rutile-core/src/format_engine.rs: the formatting commands and    *)
(* smart Enter.  For the commands on lines a text is a sequence of lines,  *)
(* a line an indentation, the block markers in front, and the words after  *)
(* them; for the commands on spans it is a sequence of bytes (inline).     *)
(* What a command does to lines and words is kept; byte offsets are not.   *)
(* A plan that EditPlan::new refuses (format_contract.rs) leaves the text:  *)
(* nothing happens.  Of its limits the number of edits is modelled, those   *)
(* on bytes are not.                                                       *)
(***************************************************************************)
EXTENDS Integers, Sequences, SequencesExt, FiniteSetsExt

CONSTANTS
    StartLines,   \* texts as lines
    StartInline,  \* texts as bytes
    Stars,        \* the inline markers: sequences of bytes: one or two stars, a backtick
    WordBytes,    \* bytes of words
    MaxHeading,   \* the last heading level, six in the code
    MaxPlanEdits, \* the edits one plan may have, 4096 in the code
    MaxCommands   \* bound on the commands of a behaviour

VARIABLES lines, inline, commands

vars == <<lines, inline, commands>>

Quote   == [kind |-> "quote"]        \* "> "
Tight   == [kind |-> "tight"]        \* ">" with no space behind it
Bullet  == [kind |-> "bullet"]       \* "- ", "* " or "+ "
Box     == [kind |-> "box"]          \* "[ ] " or "[x] ", behind a bullet
Ordered(n) == [kind |-> "ordered", n |-> n]
Heading(n) == [kind |-> "heading", n |-> n]

\* What lines are made of.
Mark == {Quote, Tight, Bullet, Box} \cup [kind : {"ordered", "heading"}, n : Nat]
Word == UNION {UNION {ToSet(text[i].words) : i \in DOMAIN text} : text \in StartLines}
Line == [indent : Nat, marks : Seq(Mark), words : Seq(Word)]

\* Markers are no bytes of words.
ASSUME FormattingAssumption ==
    /\ MaxHeading \in Nat /\ MaxPlanEdits \in Nat /\ 2 <= MaxPlanEdits
    /\ \A text \in StartLines : text \in Seq(Line)
    /\ \A text \in StartInline \cup Stars : text \in Seq(ToSet(text))
    /\ \A marker \in Stars : marker # << >> /\ ToSet(marker) \cap WordBytes = {}

Kinds(marks) == [k \in DOMAIN marks |-> marks[k].kind]

StartsWith(marks, kinds) == IsPrefix(kinds, Kinds(marks))

Drop(s, n) == SubSeq(s, n + 1, Len(s))

-----------------------------------------------------------------------------
(* Toggles of whole lines *)

Toggles == {"quote", "bullet", "ordered", "checklist"}

Blank(line) == line.marks = << >> /\ line.words = << >>

\* How many marks in front the toggle takes for its own.
Existing(line, toggle) ==
    LET marks == IF line.indent = 0 THEN line.marks ELSE << >> IN
    CASE toggle = "quote" /\ (StartsWith(marks, <<"quote">>) \/ StartsWith(marks, <<"tight">>)) -> 1
      [] toggle = "bullet" /\ StartsWith(marks, <<"bullet">>) -> 1
      [] toggle = "ordered" /\ StartsWith(marks, <<"ordered">>) -> 1
      [] toggle = "checklist" /\ StartsWith(marks, <<"bullet", "box">>) -> 2
      [] OTHER -> 0

Marks(toggle, n) ==
    CASE toggle = "quote" -> <<Quote>>
      [] toggle = "bullet" -> <<Bullet>>
      [] toggle = "ordered" -> <<Ordered(n)>>
      [] toggle = "checklist" -> <<Bullet, Box>>

Participates(line, toggle) == toggle = "quote" \/ ~ Blank(line)

\* Markers go to the start of the line; lines are not indented here.
Marked(line, toggle, n) ==
    [line EXCEPT !.marks = Marks(toggle, n) \o Drop(@, IF toggle = "ordered"
                                                         THEN Existing(line, toggle) ELSE 0)]

Unmarked(line, toggle) == [line EXCEPT !.marks = Drop(@, Existing(line, toggle))]

\* Mutant of Toggled: markers are only taken away from the first line.
ToggledFirst(text, first, last, toggle) ==
    LET touched == {i \in first .. last : Participates(text[i], toggle)}
        removes == touched # {} /\ Existing(text[Min(touched)], toggle) > 0
    IN  [i \in DOMAIN text |->
            IF i \notin touched THEN text[i]
            ELSE IF removes THEN Unmarked(text[i], toggle)
            ELSE IF toggle = "ordered" \/ Existing(text[i], toggle) = 0
              THEN Marked(text[i], toggle, Cardinality({j \in touched : j <= i}))
            ELSE text[i]]

\* toggle_lines: markers go when every line has one, else all lines get one.
Toggled(text, first, last, toggle) ==
    LET touched == {i \in first .. last : Participates(text[i], toggle)}
        removes == \A i \in touched : Existing(text[i], toggle) > 0
    IN  [i \in DOMAIN text |->
            IF i \notin touched THEN text[i]
            ELSE IF removes THEN Unmarked(text[i], toggle)
            ELSE IF toggle = "ordered" \/ Existing(text[i], toggle) = 0
              THEN Marked(text[i], toggle, Cardinality({j \in touched : j <= i}))
            ELSE text[i]]

\* The lines a toggle has an edit for.
ToggleEdits(first, last, toggle) ==
    LET touched == {i \in first .. last : Participates(lines[i], toggle)}
        without == {i \in touched : Existing(lines[i], toggle) = 0}
    IN  IF without = {} \/ toggle = "ordered" THEN touched ELSE without

\* EditPlan::new takes a plan of so many edits.
Planned(edits) == edits \in 1 .. MaxPlanEdits

ToggleLines(first, last, toggle) ==
    /\ first <= last
    /\ \A i \in first .. last : lines[i].indent = 0
    /\ Planned(Cardinality(ToggleEdits(first, last, toggle)))
    /\ lines' = Toggled(lines, first, last, toggle)
    /\ UNCHANGED inline

\* cycle_heading: one level more, after the sixth none.
HeadingLevel(line) ==
    IF line.indent = 0 /\ StartsWith(line.marks, <<"heading">>) THEN line.marks[1].n ELSE 0

CycleHeading(i) ==
    LET level == HeadingLevel(lines[i])
        rest == Drop(lines[i].marks, IF level > 0 THEN 1 ELSE 0)
    IN  /\ lines[i].indent = 0
        /\ lines' = [lines EXCEPT ![i].marks =
                        IF level >= MaxHeading THEN rest ELSE <<Heading(level + 1)>> \o rest]
        /\ UNCHANGED inline

-----------------------------------------------------------------------------
(* Smart Enter *)

\* parse_prefix: the marks that make the line an item, behind any indentation.
Prefix(line) ==
    LET depth == CHOOSE d \in 0 .. Len(line.marks) :
                    /\ \A k \in 1 .. d : line.marks[k] = Quote
                    /\ d < Len(line.marks) => line.marks[d + 1] # Quote
    IN  IF depth > 0 THEN SubSeq(line.marks, 1, depth)
        ELSE IF StartsWith(line.marks, <<"bullet", "box">>) THEN SubSeq(line.marks, 1, 2)
        ELSE IF StartsWith(line.marks, <<"bullet">>) \/ StartsWith(line.marks, <<"ordered">>)
          THEN SubSeq(line.marks, 1, 1)
        ELSE << >>

ContentEmpty(line) == line.words = << >> /\ Len(line.marks) = Len(Prefix(line))

\* What the new line starts with; a quote is continued without indentation.
Continued(line) ==
    LET prefix == Prefix(line) IN
    [indent |-> IF prefix = << >> \/ prefix[1] = Quote THEN 0 ELSE line.indent,
     marks |-> IF StartsWith(prefix, <<"ordered">>) THEN <<Ordered(prefix[1].n + 1)>>
                                                    ELSE prefix]

OrderedAt(line, indent) == line.indent = indent /\ StartsWith(line.marks, <<"ordered">>)

\* The items that follow the i-th line without a gap.
Following(text, i) ==
    {j \in i + 1 .. Len(text) :
        \A k \in i + 1 .. j : OrderedAt(text[k], text[i].indent)}

\* Mutant of Renumbered: every item gets the same number.
RenumberedAlike(text, i, number) ==
    [j \in DOMAIN text |->
        IF j \in Following(text, i) THEN [text[j] EXCEPT !.marks[1].n = number + 1]
                                    ELSE text[j]]

Renumbered(text, i, number) ==
    [j \in DOMAIN text |->
        IF j \in Following(text, i) THEN [text[j] EXCEPT !.marks[1].n = number + j - i]
                                    ELSE text[j]]

\* The text without the ends of lines i .. j - 1 and what is between them.
Spliced(text, i, j) == SubSeq(text, 1, i) \o Drop(text, j)

\* Enter on an item without content ends the list.
ExitItem(i) ==
    /\ lines' = [lines EXCEPT ![i] = [indent |-> 0, marks |-> << >>, words |-> << >>]]
    /\ UNCHANGED inline

\* What is selected, from before the k+1-st word of line i to before the l+1-st
\* of line j, is replaced by a line end and the marks of line i; the items
\* below line i are renumbered.  Edits that overlap are refused: the selection
\* reaches into an item that would get a new number.
NewItem(i, k, j, l) ==
    LET line == lines[i]
        next == Continued(line)
        numbered == StartsWith(Prefix(line), <<"ordered">>)
        rest == IF numbered THEN Renumbered(lines, i, next.marks[1].n) ELSE lines
        new  == [indent |-> next.indent,
                 marks |-> IF l = 0 THEN next.marks \o Drop(lines[j].marks, Len(Prefix(lines[j])))
                                    ELSE next.marks,
                 words |-> Drop(lines[j].words, l)]
    IN  /\ numbered => /\ Planned(1 + Cardinality(Following(lines, i)))
                       /\ i < j => i + 1 \notin Following(lines, i)
        /\ lines' = InsertAt([Spliced(rest, i, j) EXCEPT ![i].words = SubSeq(@, 1, k),
                                       ![i].marks = IF k = 0 THEN Prefix(line) ELSE @],
                             i + 1, new)
        /\ UNCHANGED inline

\* smart_enter_build, with a caret or a selection that begins and ends before
\* a word or behind the last one.
SmartEnter(i, k, j, l) ==
    /\ i < j \/ (i = j /\ k <= l)
    /\ IF i = j /\ k = l /\ Prefix(lines[i]) # << >> /\ ContentEmpty(lines[i])
         THEN ExitItem(i)
         ELSE NewItem(i, k, j, l)

-----------------------------------------------------------------------------
(* Toggles of spans *)

At(text, i, marker) ==
    i >= 0 /\ i + Len(marker) <= Len(text) /\ SubSeq(text, i + 1, i + Len(marker)) = marker

Single == <<"*">>

\* marker_before, marker_after: one star is no half of two.
Before(text, i, marker) ==
    At(text, i - Len(marker), marker) /\ (marker = Single => ~ At(text, i - 2, Single))
After(text, j, marker) ==
    At(text, j, marker) /\ (marker = Single => ~ At(text, j + 1, Single))

WordAround(text, i) ==
    [from |-> Min({s \in 0 .. i : \A k \in s + 1 .. i : text[k] \in WordBytes}),
     to |-> Max({e \in i .. Len(text) : \A k \in i + 1 .. e : text[k] \in WordBytes})]

Without(text, i, n) == SubSeq(text, 1, i) \o Drop(text, i + n)
Inserted(text, i, s) == SubSeq(text, 1, i) \o s \o Drop(text, i)

\* Mutant of ToggledInline: wrapping leaves the selection where it was.
ToggledInlineUnmoved(text, sel, marker) ==
    LET target == IF sel.from = sel.to THEN WordAround(text, sel.from) ELSE sel
        i == target.from
        j == target.to
        w == Len(marker)
    IN  IF Before(text, i, marker) /\ After(text, j, marker)
          THEN [text |-> Without(Without(text, j, w), i - w, w),
                sel |-> [from |-> i - w, to |-> j - w]]
        ELSE IF j >= i + 2 * w /\ At(text, i, marker) /\ At(text, j - w, marker)
          THEN [text |-> Without(Without(text, j - w, w), i, w),
                sel |-> [from |-> i, to |-> j - 2 * w]]
        ELSE [text |-> Inserted(Inserted(text, j, marker), i, marker),
              sel |-> [from |-> i, to |-> j]]

\* toggle_inline: the text after it, and the selection it leaves.
ToggledInline(text, sel, marker) ==
    LET target == IF sel.from = sel.to THEN WordAround(text, sel.from) ELSE sel
        i == target.from
        j == target.to
        w == Len(marker)
    IN  IF Before(text, i, marker) /\ After(text, j, marker)
          THEN [text |-> Without(Without(text, j, w), i - w, w),
                sel |-> [from |-> i - w, to |-> j - w]]
        ELSE IF j >= i + 2 * w /\ At(text, i, marker) /\ At(text, j - w, marker)
          THEN [text |-> Without(Without(text, j - w, w), i, w),
                sel |-> [from |-> i, to |-> j - 2 * w]]
        ELSE [text |-> Inserted(Inserted(text, j, marker), i, marker),
              sel |-> [from |-> i + w, to |-> j + w]]

ToggleInline(sel, marker) ==
    /\ sel.from <= sel.to
    /\ inline' = ToggledInline(inline, sel, marker).text
    /\ UNCHANGED lines

\* A text is looked at as lines or as bytes.
Init ==
    /\ commands = 0
    /\ \/ lines \in StartLines /\ inline = << >>
       \/ lines = << >> /\ inline \in StartInline

Next ==
    /\ commands < MaxCommands
    /\ commands' = commands + 1
    /\ \/ \E i, j \in DOMAIN lines, toggle \in Toggles : ToggleLines(i, j, toggle)
       \/ \E i \in DOMAIN lines : CycleHeading(i)
       \/ \E i, j \in DOMAIN lines :
             \E k \in 0 .. Len(lines[i].words), l \in 0 .. Len(lines[j].words) :
                SmartEnter(i, k, j, l)
       \/ \E i, j \in 0 .. Len(inline), marker \in Stars :
             ToggleInline([from |-> i, to |-> j], marker)

Spec == Init /\ [][Next]_vars

-----------------------------------------------------------------------------
(* Properties *)

(***************************************************************************)
(* A toggle of lines of which some have no marker marks them all; of which *)
(* none has one, it is undone by a second toggle ("applying the same       *)
(* toggle twice restores the original", where that is so).                 *)
(***************************************************************************)
TogglesCycle ==
    \A i, j \in DOMAIN lines, toggle \in Toggles :
        LET touched == {k \in i .. j : Participates(lines[k], toggle)}
            without == {k \in touched : Existing(lines[k], toggle) = 0}
            once == Toggled(lines, i, j, toggle)
        IN  (\A k \in i .. j : lines[k].indent = 0) =>
              /\ without # {} => \A k \in touched : Existing(once[k], toggle) > 0
              /\ without = touched => Toggled(once, i, j, toggle) = lines

(***************************************************************************)
(* Enter in a numbered list, with a caret or with words of one line         *)
(* selected, leaves the items below the new one numbered on from it,       *)
(* without a gap or a repetition, whatever numbers they had before.        *)
(***************************************************************************)
EnterNumbersOn ==
    [][\A i \in DOMAIN lines : \A k, l \in 0 .. Len(lines[i].words) :
          k <= l /\ NewItem(i, k, i, l) /\ StartsWith(Prefix(lines[i]), <<"ordered">>)
          => \A j \in Following(lines', i) :
                lines'[j].marks[1].n = lines[i].marks[1].n + j - i]_vars

(***************************************************************************)
(* Where no marker byte touches the span from either side, a second toggle *)
(* of the selection the first one leaves gives the text back.              *)
(***************************************************************************)
InlineReturns ==
    \A i, j \in 0 .. Len(inline), marker \in Stars :
        LET free(k) == k \notin DOMAIN inline \/ inline[k] \in WordBytes
            once == ToggledInline(inline, [from |-> i, to |-> j], marker)
            around == WordAround(inline, i)
            target == IF i = j THEN around ELSE [from |-> i, to |-> j]
        IN  i <= j /\ (\A k \in {target.from, target.from + 1, target.to, target.to + 1} : free(k))
              => ToggledInline(once.text, once.sel, marker).text = inline

\* Module comment of format_engine.rs: "applying the same toggle twice over
\* the resulting selection restores the original markdown".
TogglesReturn ==
    \A i, j \in DOMAIN lines, toggle \in Toggles :
        (\A k \in i .. j : lines[k].indent = 0)
          => Toggled(Toggled(lines, i, j, toggle), i, j, toggle) = lines

\* smart_enter_build (format_engine.rs:741-742): "Renumber the following
\* contiguous ordered items so the list stays in sequence after the insertion",
\* with a selection of any lines.
SelectionsNumberOn ==
    [][\A i, h \in DOMAIN lines :
          \A k \in 0 .. Len(lines[i].words), l \in 0 .. Len(lines[h].words) :
             i <= h /\ NewItem(i, k, h, l) /\ StartsWith(Prefix(lines[i]), <<"ordered">>)
             => \A j \in Following(lines', i) :
                   lines'[j].marks[1].n = lines[i].marks[1].n + j - i]_vars
===============================================================================
