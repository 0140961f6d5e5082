---------------------------- MODULE GtkSessionProofs ----------------------------
(***************************************************************************)
(* Proofs about GtkSession for any files, keys and texts, any limits of    *)
(* the document and any number of tabs, changes and writes.  A change of   *)
(* the document is one edit or two, as in GtkSession.                      *)
(***************************************************************************)
EXTENDS GtkSession, FiniteSetTheorems, WellFoundedInduction, SequenceTheorems, TLAPS

-----------------------------------------------------------------------------
(* Folds over one edit and over two *)

LEMMA OneIndex ==
    /\ Min({1}) = 1 /\ Max({1}) = 1
    /\ SUBSET {1} = {{}, {1}} /\ {1} \ {1} = {} /\ {1} # {}
<1>1. Min({1}) = 1 /\ Max({1}) = 1
  BY DEF Min, Max
<1> QED
  BY <1>1

\* Applying one edit splices it in.
LEMMA ApplyOne ==
    ASSUME NEW e, NEW t
    PROVE  ApplyEdits(t, <<e>>) = Splice(t, e)
<1> DEFINE edits == <<e>>
           w == [k \in 0 .. 1 |-> IF k = 0 THEN t ELSE Splice(t, e)]
           R(it) == it = [k \in 0 .. 1 |-> IF k = 0 THEN t
                                           ELSE Splice(it[k - 1], edits[1 - k + 1])]
<1>1. Len(edits) = 1 /\ edits[1] = e
  OBVIOUS
<1>2. w[0] = t /\ w[1] = Splice(t, e) /\ w = [k \in 0 .. 1 |-> w[k]]
  OBVIOUS
<1> HIDE DEF w, edits
<1>3. R(w)
  <2>1. \A k \in 0 .. 1 : w[k] = IF k = 0 THEN t ELSE Splice(w[k - 1], edits[1 - k + 1])
    BY <1>1, <1>2
  <2> QED
    BY <1>2, <2>1
<1>4. R(CHOOSE it : R(it))
  BY <1>3, Zenon
<1>5. ApplyEdits(t, edits) = (CHOOSE it : R(it))[1]
  BY <1>1 DEF ApplyEdits
<1> DEFINE it == CHOOSE it : R(it)
<1> HIDE DEF it
<1>6. it = [k \in 0 .. 1 |-> IF k = 0 THEN t ELSE Splice(it[k - 1], edits[1 - k + 1])]
  BY <1>4 DEF it
<1>7. it[0] = t /\ it[1] = Splice(it[0], edits[1])
  BY <1>6
<1> QED
  BY <1>1, <1>5, <1>7 DEF it, edits

\* The view splices in what is left of it.
LEMMA FollowOne ==
    ASSUME NEW e, NEW t
    PROVE  Followed(t, <<e>>) = Splice(t, Clamped(t, e))
<1> DEFINE w == [s \in SUBSET {1} |-> IF s = {} THEN t ELSE Splice(t, Clamped(t, e))]
           R(it) == it = [s \in SUBSET {1} |->
                            IF s = {} THEN t
                            ELSE Splice(it[s \ {Min(s)}], Clamped(it[s \ {Min(s)}], <<e>>[Min(s)]))]
<1>1. R(w)
  <2>1. w[{}] = t
    OBVIOUS
  <2>2. ASSUME NEW s \in SUBSET {1}
        PROVE  w[s] = IF s = {} THEN t
                      ELSE Splice(w[s \ {Min(s)}], Clamped(w[s \ {Min(s)}], <<e>>[Min(s)]))
    <3>1. CASE s = {}
      BY <2>1, <3>1
    <3>2. CASE s = {1}
      <4>1. Min(s) = 1 /\ s \ {1} = {} /\ s # {} /\ <<e>>[1] = e
        BY <3>2, OneIndex
      <4>2. w[s] = Splice(t, Clamped(t, e))
        BY <4>1
      <4> HIDE DEF w
      <4> QED
        BY <2>1, <4>1, <4>2
    <3> QED
      BY <3>1, <3>2, OneIndex
  <2>3. w = [s \in SUBSET {1} |-> w[s]]
    OBVIOUS
  <2> HIDE DEF w
  <2> QED
    BY <2>2, <2>3
<1>2. R(CHOOSE it : R(it))
  <2> HIDE DEF w
  <2> QED
    BY <1>1, Zenon
<1>3. Followed(t, <<e>>) = (CHOOSE it : R(it))[{1}]
  <2>1. DOMAIN <<e>> = {1}
    OBVIOUS
  <2> QED
    BY <2>1 DEF Followed, FoldRight, MapThenFoldSet
<1> DEFINE it == CHOOSE it : R(it)
<1> HIDE DEF it
<1>4. it = [s \in SUBSET {1} |->
              IF s = {} THEN t
              ELSE Splice(it[s \ {Min(s)}], Clamped(it[s \ {Min(s)}], <<e>>[Min(s)]))]
  BY <1>2 DEF it
<1>5. it[{}] = t
  BY <1>4
<1>6. it[{1}] = Splice(it[{}], Clamped(it[{}], e))
  <2> DEFINE s == {1}
  <2>1. s \in SUBSET {1} /\ s # {} /\ Min(s) = 1 /\ s \ {1} = {} /\ <<e>>[1] = e
    BY OneIndex
  <2> HIDE DEF s
  <2>2. it[s] = Splice(it[s \ {Min(s)}], Clamped(it[s \ {Min(s)}], <<e>>[Min(s)]))
    BY <1>4, <2>1
  <2>3. it[s] = Splice(it[{}], Clamped(it[{}], e))
    BY <2>1, <2>2
  <2> QED
    BY <2>3 DEF s
<1>7. Followed(t, <<e>>) = it[{1}]
  BY <1>3 DEF it
<1> QED
  BY <1>5, <1>6, <1>7

LEMMA TotalOne ==
    ASSUME NEW numbers, Len(numbers) = 1
    PROVE  Total(numbers) = 0 + numbers[1]
<1> DEFINE w == [k \in 0 .. 1 |-> IF k = 0 THEN 0 ELSE 0 + numbers[1]]
           R(it) == it = [k \in 0 .. 1 |-> IF k = 0 THEN 0 ELSE it[k - 1] + numbers[k]]
<1>1. w[0] = 0 /\ w[1] = 0 + numbers[1] /\ w = [k \in 0 .. 1 |-> w[k]]
  OBVIOUS
<1> HIDE DEF w
<1>2. R(w)
  <2>1. \A k \in 0 .. 1 : w[k] = IF k = 0 THEN 0 ELSE w[k - 1] + numbers[k]
    BY <1>1
  <2> QED
    BY <1>1, <2>1
<1>3. R(CHOOSE it : R(it))
  BY <1>2, Zenon
<1>4. Total(numbers) = (CHOOSE it : R(it))[1]
  BY DEF Total
<1> DEFINE it == CHOOSE it : R(it)
<1> HIDE DEF it
<1>5. it = [k \in 0 .. 1 |-> IF k = 0 THEN 0 ELSE it[k - 1] + numbers[k]]
  BY <1>3 DEF it
<1>6. it[0] = 0 /\ it[1] = it[0] + numbers[1]
  BY <1>5
<1> QED
  BY <1>4, <1>6 DEF it

\* The change of length of one edit.
LEMMA DeltaOne == ASSUME NEW e PROVE Sum(Delta, <<e>>) = 0 + Delta(e)
<1> DEFINE sizes == [k \in DOMAIN <<e>> |-> Delta(<<e>>[k])]
<1>1. Len(sizes) = 1 /\ sizes[1] = Delta(e)
  OBVIOUS
<1>2. Sum(Delta, <<e>>) = Total(sizes)
  BY DEF Sum
<1> HIDE DEF sizes
<1> QED
  BY <1>1, <1>2, TotalOne

\* Its charge.
LEMMA ChargeOne ==
    ASSUME NEW e
    PROVE  Charge(<<e>>) = 0 + (Span(e) + Len(e.with) + EditOverhead)
<1> DEFINE Cost(x) == Span(x) + Len(x.with) + EditOverhead
           sizes == [k \in DOMAIN <<e>> |-> Cost(<<e>>[k])]
<1>1. Len(sizes) = 1 /\ sizes[1] = Cost(e)
  OBVIOUS
<1>2. Charge(<<e>>) = Total(sizes)
  BY DEF Charge, Sum
<1> HIDE DEF sizes
<1> QED
  BY <1>1, <1>2, TotalOne

\* Nothing comes before the first edit.
LEMMA NothingBefore ==
    ASSUME NEW edits, SubSeq(edits, 1, 0) = << >>
    PROVE  Displacement(edits, 1) = 0
<1> DEFINE none == SubSeq(edits, 1, 1 - 1)
           sizes == [k \in DOMAIN none |-> Delta(none[k])]
           R(it) == it = [k \in 0 .. 0 |-> IF k = 0 THEN 0 ELSE it[k - 1] + sizes[k]]
<1>1. none = << >>
  OBVIOUS
<1>2. Len(sizes) = 0
  BY <1>1
<1>3. Displacement(edits, 1) = Total(sizes)
  BY DEF Displacement, Sum
<1> HIDE DEF sizes
<1>4. R([k \in 0 .. 0 |-> 0])
  OBVIOUS
<1>5. R(CHOOSE it : R(it))
  BY <1>4, Zenon
<1>6. Total(sizes) = (CHOOSE it : R(it))[0]
  BY <1>2 DEF Total
<1> DEFINE it == CHOOSE it : R(it)
<1> HIDE DEF it
<1>7. it = [k \in 0 .. 0 |-> IF k = 0 THEN 0 ELSE it[k - 1] + sizes[k]]
  BY <1>5 DEF it
<1>8. it[0] = 0
  BY <1>7
<1> QED
  BY <1>3, <1>6, <1>8 DEF it

LEMMA TwoIndices ==
    /\ Min({1}) = 1 /\ Min({2}) = 2 /\ Min({1, 2}) = 1
    /\ SUBSET {1} = {{}, {1}} /\ SUBSET {1, 2} = {{}, {1}, {2}, {1, 2}}
    /\ {1} \ {1} = {} /\ {2} \ {2} = {} /\ {1, 2} \ {1} = {2}
    /\ {1} # {} /\ {2} # {} /\ {1, 2} # {}
<1>1. Min({1}) = 1 /\ Min({2}) = 2
  BY DEF Min
<1>2. Min({1, 2}) = 1
  <2>1. \A x \in {1, 2} : (\A y \in {1, 2} : x <= y) <=> x = 1
    OBVIOUS
  <2> QED
    BY <2>1 DEF Min
<1>3. SUBSET {1, 2} = {{}, {1}, {2}, {1, 2}}
  <2>1. ASSUME NEW s \in SUBSET {1, 2} PROVE s \in {{}, {1}, {2}, {1, 2}}
    <3>1. CASE 1 \in s /\ 2 \in s
      BY <3>1
    <3>2. CASE 1 \in s /\ 2 \notin s
      BY <3>2
    <3>3. CASE 1 \notin s /\ 2 \in s
      BY <3>3
    <3>4. CASE 1 \notin s /\ 2 \notin s
      BY <3>4
    <3> QED
      BY <3>1, <3>2, <3>3, <3>4
  <2> QED
    BY <2>1
<1> QED
  BY <1>1, <1>2, <1>3

\* Applying two edits splices in the second and then the first.
LEMMA ApplyTwo ==
    ASSUME NEW e, NEW f, NEW t
    PROVE  ApplyEdits(t, <<e, f>>) = Splice(Splice(t, f), e)
<1> DEFINE edits == <<e, f>>
           w == [k \in 0 .. 2 |-> IF k = 0 THEN t
                                  ELSE IF k = 1 THEN Splice(t, f) ELSE Splice(Splice(t, f), e)]
           R(it) == it = [k \in 0 .. 2 |-> IF k = 0 THEN t
                                           ELSE Splice(it[k - 1], edits[2 - k + 1])]
<1>1. Len(edits) = 2 /\ edits[1] = e /\ edits[2] = f
  OBVIOUS
<1>2. /\ w[0] = t /\ w[1] = Splice(t, f) /\ w[2] = Splice(Splice(t, f), e)
      /\ w = [k \in 0 .. 2 |-> w[k]]
  OBVIOUS
<1> HIDE DEF w, edits
<1>3. R(w)
  <2>1. ASSUME NEW k \in 0 .. 2
        PROVE  w[k] = IF k = 0 THEN t ELSE Splice(w[k - 1], edits[2 - k + 1])
    <3>1. CASE k = 0
      BY <1>2, <3>1
    <3>2. CASE k = 1
      <4>1. k - 1 = 0 /\ 2 - k + 1 = 2 /\ k # 0
        BY <3>2
      <4> QED
        BY <1>1, <1>2, <3>2, <4>1
    <3>3. CASE k = 2
      <4>1. k - 1 = 1 /\ 2 - k + 1 = 1 /\ k # 0
        BY <3>3
      <4> QED
        BY <1>1, <1>2, <3>3, <4>1
    <3> QED
      BY <3>1, <3>2, <3>3
  <2> QED
    BY <1>2, <2>1
<1>4. R(CHOOSE it : R(it))
  BY <1>3, Zenon
<1>5. ApplyEdits(t, edits) = (CHOOSE it : R(it))[2]
  BY <1>1 DEF ApplyEdits
<1> DEFINE it == CHOOSE it : R(it)
<1> HIDE DEF it
<1>6. it = [k \in 0 .. 2 |-> IF k = 0 THEN t ELSE Splice(it[k - 1], edits[2 - k + 1])]
  BY <1>4 DEF it
<1>7. it[0] = t /\ it[1] = Splice(it[0], edits[2]) /\ it[2] = Splice(it[1], edits[1])
  <2>1. it[1] = Splice(it[1 - 1], edits[2 - 1 + 1])
    BY <1>6
  <2>2. it[2] = Splice(it[2 - 1], edits[2 - 2 + 1])
    BY <1>6
  <2>3. it[0] = t
    BY <1>6
  <2> QED
    BY <2>1, <2>2, <2>3
<1> QED
  BY <1>1, <1>5, <1>7 DEF it, edits

\* The view splices each in what is left of it.
LEMMA FollowTwo ==
    ASSUME NEW e, NEW f, NEW t, NEW u, u = Splice(t, Clamped(t, f))
    PROVE  Followed(t, <<e, f>>) = Splice(u, Clamped(u, e))
<1> DEFINE edits == <<e, f>>
           Step(x, v) == Splice(v, Clamped(v, x))
           w == [s \in SUBSET {1, 2} |->
                   IF s = {} THEN t
                   ELSE IF s = {1} THEN Step(e, t)
                   ELSE IF s = {2} THEN Step(f, t) ELSE Step(e, u)]
           R(it) == it = [s \in SUBSET {1, 2} |->
                            IF s = {} THEN t
                            ELSE Splice(it[s \ {Min(s)}],
                                        Clamped(it[s \ {Min(s)}], edits[Min(s)]))]
<1>0. DOMAIN edits = {1, 2} /\ edits[1] = e /\ edits[2] = f
  OBVIOUS
<1>1. R(w)
  <2>1. /\ {} \in SUBSET {1, 2} /\ {1} \in SUBSET {1, 2} /\ {2} \in SUBSET {1, 2}
        /\ {1, 2} \in SUBSET {1, 2} /\ {1} # {2} /\ {1, 2} # {1} /\ {1, 2} # {2}
    OBVIOUS
  <2>2. w[{}] = t
    BY <2>1
  <2>3. w[{1}] = Step(e, t)
    BY <2>1, TwoIndices
  <2>4. w[{2}] = Step(f, t)
    BY <2>1, TwoIndices
  <2>5. w[{1, 2}] = Step(e, u)
    BY <2>1, TwoIndices
  <2>6. w = [s \in SUBSET {1, 2} |-> w[s]]
    OBVIOUS
  <2> HIDE DEF w, edits
  <2>7. ASSUME NEW s \in SUBSET {1, 2}
        PROVE  w[s] = IF s = {} THEN t
                      ELSE Splice(w[s \ {Min(s)}], Clamped(w[s \ {Min(s)}], edits[Min(s)]))
    <3>1. CASE s = {}
      BY <2>2, <3>1
    <3>2. CASE s = {1}
      BY <1>0, <2>2, <2>3, <3>2, TwoIndices
    <3>3. CASE s = {2}
      BY <1>0, <2>2, <2>4, <3>3, TwoIndices
    <3>4. CASE s = {1, 2}
      BY <1>0, <2>4, <2>5, <3>4, TwoIndices
    <3> QED
      BY <3>1, <3>2, <3>3, <3>4, TwoIndices
  <2> QED
    BY <2>6, <2>7
<1>2. R(CHOOSE it : R(it))
  <2> HIDE DEF w, edits
  <2> QED
    BY <1>1, Zenon
<1>3. Followed(t, edits) = (CHOOSE it : R(it))[{1, 2}]
  <2> HIDE DEF edits
  <2> QED
    BY <1>0 DEF Followed, FoldRight, MapThenFoldSet
<1> DEFINE it == CHOOSE it : R(it)
<1> HIDE DEF it, edits
<1>4. it = [s \in SUBSET {1, 2} |->
              IF s = {} THEN t
              ELSE Splice(it[s \ {Min(s)}], Clamped(it[s \ {Min(s)}], edits[Min(s)]))]
  BY <1>2 DEF it
<1> DEFINE Rest(s) == Splice(it[s \ {Min(s)}], Clamped(it[s \ {Min(s)}], edits[Min(s)]))
<1> HIDE DEF Rest
<1>5. ASSUME NEW s \in SUBSET {1, 2}
      PROVE  it[s] = IF s = {} THEN t ELSE Rest(s)
  <2>1. it = [x \in SUBSET {1, 2} |-> IF x = {} THEN t ELSE Rest(x)]
    BY <1>4 DEF Rest
  <2> QED
    BY <2>1
<1>6. it[{}] = t
  <2>1. {} \in SUBSET {1, 2}
    OBVIOUS
  <2> QED
    BY <1>5, <2>1
<1>7. it[{2}] = Splice(it[{}], Clamped(it[{}], f))
  <2>1. it[{2}] = Rest({2})
    BY <1>5, TwoIndices
  <2>2. Rest({2}) = Splice(it[{}], Clamped(it[{}], edits[2]))
    BY TwoIndices DEF Rest
  <2> QED
    BY <1>0, <2>1, <2>2
<1>8. it[{1, 2}] = Splice(it[{2}], Clamped(it[{2}], e))
  <2>1. it[{1, 2}] = Rest({1, 2})
    BY <1>5, TwoIndices
  <2>2. Rest({1, 2}) = Splice(it[{2}], Clamped(it[{2}], edits[1]))
    BY TwoIndices DEF Rest
  <2> QED
    BY <1>0, <2>1, <2>2
<1>9. it[{2}] = u
  BY <1>6, <1>7
<1>10. Followed(t, edits) = Splice(u, Clamped(u, e))
  BY <1>3, <1>8, <1>9 DEF it
<1> QED
  BY <1>10 DEF edits

LEMMA TotalTwo ==
    ASSUME NEW numbers, Len(numbers) = 2
    PROVE  Total(numbers) = 0 + numbers[1] + numbers[2]
<1> DEFINE w == [k \in 0 .. 2 |-> IF k = 0 THEN 0
                                  ELSE IF k = 1 THEN 0 + numbers[1] ELSE 0 + numbers[1] + numbers[2]]
           R(it) == it = [k \in 0 .. 2 |-> IF k = 0 THEN 0 ELSE it[k - 1] + numbers[k]]
<1>1. /\ w[0] = 0 /\ w[1] = 0 + numbers[1] /\ w[2] = 0 + numbers[1] + numbers[2]
      /\ w = [k \in 0 .. 2 |-> w[k]]
  OBVIOUS
<1> HIDE DEF w
<1>2. R(w)
  <2>1. \A k \in 0 .. 2 : w[k] = IF k = 0 THEN 0 ELSE w[k - 1] + numbers[k]
    <3>1. w[1] = w[0] + numbers[1] /\ w[2] = w[1] + numbers[2]
      BY <1>1
    <3>2. ASSUME NEW k \in 0 .. 2 PROVE w[k] = IF k = 0 THEN 0 ELSE w[k - 1] + numbers[k]
      <4>1. k = 0 \/ (k = 1 /\ k - 1 = 0 /\ k # 0) \/ (k = 2 /\ k - 1 = 1 /\ k # 0)
        OBVIOUS
      <4> QED
        BY <1>1, <3>1, <4>1
    <3> QED
      BY <3>2
  <2> QED
    BY <1>1, <2>1
<1>3. R(CHOOSE it : R(it))
  BY <1>2, Zenon
<1>4. Total(numbers) = (CHOOSE it : R(it))[2]
  BY DEF Total
<1> DEFINE it == CHOOSE it : R(it)
<1> HIDE DEF it
<1>5. it = [k \in 0 .. 2 |-> IF k = 0 THEN 0 ELSE it[k - 1] + numbers[k]]
  BY <1>3 DEF it
<1>6. it[0] = 0 /\ it[1] = it[0] + numbers[1] /\ it[2] = it[1] + numbers[2]
  <2>1. it[1] = it[1 - 1] + numbers[1] /\ it[2] = it[2 - 1] + numbers[2] /\ it[0] = 0
    BY <1>5
  <2> QED
    BY <2>1
<1> QED
  BY <1>4, <1>6 DEF it

LEMMA DeltaTwo == ASSUME NEW e, NEW f PROVE Sum(Delta, <<e, f>>) = 0 + Delta(e) + Delta(f)
<1> DEFINE sizes == [k \in DOMAIN <<e, f>> |-> Delta(<<e, f>>[k])]
<1>1. Len(sizes) = 2 /\ sizes[1] = Delta(e) /\ sizes[2] = Delta(f)
  OBVIOUS
<1>2. Sum(Delta, <<e, f>>) = Total(sizes)
  BY DEF Sum
<1> HIDE DEF sizes
<1> QED
  BY <1>1, <1>2, TotalTwo

LEMMA ChargeTwo ==
    ASSUME NEW e, NEW f
    PROVE  Charge(<<e, f>>) = 0 + (Span(e) + Len(e.with) + EditOverhead)
                                + (Span(f) + Len(f.with) + EditOverhead)
<1> DEFINE Cost(x) == Span(x) + Len(x.with) + EditOverhead
           sizes == [k \in DOMAIN <<e, f>> |-> Cost(<<e, f>>[k])]
<1>1. Len(sizes) = 2 /\ sizes[1] = Cost(e) /\ sizes[2] = Cost(f)
  OBVIOUS
<1>2. Charge(<<e, f>>) = Total(sizes)
  BY DEF Charge, Sum
<1> HIDE DEF sizes
<1> QED
  BY <1>1, <1>2, TotalTwo

-----------------------------------------------------------------------------
(* Texts, edits and documents *)

Byte == UNION {ToSet(text) : text \in Keys \cup Foreign \cup {Starter, Generated}}
Text == Seq(Byte)

Edit   == [from : Nat, to : Nat, with : Text]
Single == {<<e>> : e \in Edit}
Edits  == Single \cup {<<e, f>> : e, f \in Edit}

\* An entry of the undo or redo stack: what was done, and how to undo it.
Entry == [kind : {"typing", "programmatic"}, edits : Edits, inverse : Edits,
          charge : Int, context : {NoContext}]

\* Edits, in their order, that fit a text of length n and make it one of
\* length m.
Turns(edits, n, m) ==
    /\ \A k \in DOMAIN edits :
          /\ edits[k].from <= edits[k].to /\ edits[k].to <= n
          /\ k > 1 => edits[k - 1].to <= edits[k].from
    /\ m = n + Sum(Delta, edits)

\* An entry leads from a text of length below to one of length above, and back.
Links(x, below, above) ==
    Turns(x.edits, below, above) /\ Turns(x.inverse, above, below)

Linked(x, next, last, undoing) ==
    IF undoing THEN Links(x, next, last) ELSE Links(x, last, next)

\* From a text of length n the entries of a stack can be undone, or redone,
\* one after the other: L[k] is the length of the text entry k is met with.
Chain(stack, n, undoing) ==
    \E L \in [0 .. Len(stack) -> Nat] :
       /\ L[Len(stack)] = n
       /\ \A k \in 1 .. Len(stack) : Linked(stack[k], L[k - 1], L[k], undoing)

IsDoc(d) ==
    /\ d \in [text : Text, revision : Nat, undo : Seq(Entry), redo : Seq(Entry),
              undoBytes : {d.undoBytes}, groupOpen : {FALSE}]
    /\ Chain(d.undo, Len(d.text), TRUE)
    /\ Chain(d.redo, Len(d.text), FALSE)

LEMMA TextsGiven == Keys \cup Foreign \cup {Starter, Generated, << >>} \subseteq Text
<1>1. ASSUME NEW t \in Keys \cup Foreign \cup {Starter, Generated} PROVE t \in Text
  <2>1. t \in Seq(ToSet(t))
    BY GtkAssumption
  <2>2. ToSet(t) \subseteq Byte
    BY DEF Byte
  <2> QED
    BY <2>1, <2>2 DEF Text
<1>2. << >> \in Text
  BY DEF Text
<1> QED
  BY <1>1, <1>2

LEMMA MinOfTwo ==
    ASSUME NEW i \in Int, NEW j \in Int
    PROVE  Min({i, j}) = IF i <= j THEN i ELSE j
BY DEF Min

LEMMA SpliceLength ==
    ASSUME NEW t \in Text, NEW e, e.from \in Nat, e.to \in Nat, e.with \in Text,
           e.from <= e.to, e.to <= Len(t)
    PROVE  /\ Splice(t, e) \in Text
           /\ Delta(e) \in Int
           /\ Len(Splice(t, e)) = Len(t) + Delta(e)
<1> DEFINE a == SubSeq(t, 1, e.from)
           b == SubSeq(t, e.to + 1, Len(t))
<1>1. Len(t) \in Nat /\ Len(e.with) \in Nat
  BY DEF Text
<1>2. a \in Seq(Byte) /\ Len(a) = e.from
  BY <1>1, SubSeqProperties DEF Text
<1>3. b \in Seq(Byte) /\ Len(b) = Len(t) - e.to
  BY <1>1, SubSeqProperties DEF Text
<1>4. Splice(t, e) = a \o e.with \o b
  BY <1>1 DEF Splice, Slice
<1> HIDE DEF a, b
<1>5. a \o e.with \in Seq(Byte) /\ Len(a \o e.with) = e.from + Len(e.with)
  <2>1. e.with \in Seq(Byte)
    BY DEF Text
  <2> QED
    BY <1>2, <2>1, ConcatProperties
<1>6. /\ a \o e.with \o b \in Seq(Byte)
      /\ Len(a \o e.with \o b) = e.from + Len(e.with) + (Len(t) - e.to)
  <2> DEFINE c == a \o e.with
  <2>1. c \in Seq(Byte) /\ Len(c) = e.from + Len(e.with)
    BY <1>5
  <2> HIDE DEF c
  <2>2. c \o b \in Seq(Byte) /\ Len(c \o b) = e.from + Len(e.with) + (Len(t) - e.to)
    BY <1>3, <2>1, ConcatProperties
  <2> QED
    BY <2>2 DEF c
<1>7. Delta(e) \in Int /\ e.from + Len(e.with) + (Len(t) - e.to) = Len(t) + Delta(e)
  BY <1>1 DEF Delta, Span
<1> QED
  BY <1>4, <1>6, <1>7 DEF Text

LEMMA ClampFits ==
    ASSUME NEW t \in Text, NEW e \in Edit, e.from <= e.to
    PROVE  /\ Clamped(t, e) \in Edit
           /\ Clamped(t, e).from <= Clamped(t, e).to /\ Clamped(t, e).to <= Len(t)
           /\ e.to <= Len(t) => Clamped(t, e) = e
<1>1. Len(t) \in Nat /\ e.from \in Nat /\ e.to \in Nat
  BY DEF Text, Edit
<1>2. /\ Min({e.from, Len(t)}) = IF e.from <= Len(t) THEN e.from ELSE Len(t)
      /\ Min({e.to, Len(t)}) = IF e.to <= Len(t) THEN e.to ELSE Len(t)
  BY <1>1, MinOfTwo
<1>3. /\ Clamped(t, e) \in [from : {Min({e.from, Len(t)})}, to : {Min({e.to, Len(t)})}, with : Text]
      /\ Clamped(t, e).with = e.with
  BY DEF Clamped, Edit
<1>4. /\ Clamped(t, e).from = Min({e.from, Len(t)}) /\ Clamped(t, e).to = Min({e.to, Len(t)})
      /\ Clamped(t, e) \in [from : Nat, to : Nat, with : Text]
  BY <1>1, <1>2, <1>3
<1> HIDE DEF Min
<1> QED
  BY <1>1, <1>2, <1>3, <1>4 DEF Edit

\* Deleting a selection and inserting in its place is one splice.
LEMMA DeleteThenInsert ==
    ASSUME NEW t \in Text, NEW del \in Edit, NEW ins \in Edit, NEW both \in Edit,
           del.with = << >>, del.from <= del.to, del.to <= Len(t),
           ins.from = del.from, ins.to = del.from,
           both.from = del.from, both.to = del.to, both.with = ins.with
    PROVE  Splice(Splice(t, del), ins) = Splice(t, both)
<1> DEFINE a == SubSeq(t, 1, del.from)
           b == SubSeq(t, del.to + 1, Len(t))
           u == a \o b
<1>1. Len(t) \in Nat /\ del.from \in Nat /\ del.to \in Nat
  BY DEF Text, Edit
<1>2. a \in Seq(Byte) /\ Len(a) = del.from
  BY <1>1, SubSeqProperties DEF Text
<1>3. b \in Seq(Byte) /\ Len(b) = Len(t) - del.to
  BY <1>1, SubSeqProperties DEF Text
<1>4. Splice(t, del) = a \o del.with \o b
  BY <1>1 DEF Splice, Slice
<1>5. Splice(t, both) = a \o ins.with \o b
  BY <1>1 DEF Splice, Slice
<1> HIDE DEF a, b
<1>6. a \o del.with = a
  BY <1>2, ConcatEmptySeq
<1>7. Splice(t, del) = u
  BY <1>4, <1>6
<1>8. /\ u \in Seq(Byte) /\ Len(u) = del.from + (Len(t) - del.to)
      /\ \A k \in 1 .. Len(u) : u[k] = IF k <= del.from THEN a[k] ELSE b[k - del.from]
      /\ \A k \in 1 .. Len(u) : u[k] \in Byte
  <2>1. /\ u \in Seq(Byte) /\ Len(u) = Len(a) + Len(b)
        /\ \A k \in 1 .. Len(a) + Len(b) : u[k] = IF k <= Len(a) THEN a[k] ELSE b[k - Len(a)]
    BY <1>2, <1>3, ConcatProperties
  <2> HIDE DEF u
  <2>2. \A k \in 1 .. Len(u) : u[k] \in Byte
    BY <2>1
  <2> QED
    BY <1>2, <1>3, <2>1, <2>2
<1> HIDE DEF u
<1>9. SubSeq(u, 1, del.from) = a
  <2> DEFINE v == SubSeq(u, 1, del.from)
  <2>1. \A k \in 1 .. del.from : k \in 1 .. Len(u) /\ u[k] \in Byte /\ 1 + k - 1 = k
    BY <1>1, <1>3, <1>8
  <2>2. /\ v \in Seq(Byte) /\ Len(v) = IF 1 <= del.from THEN del.from - 1 + 1 ELSE 0
        /\ \A k \in 1 .. del.from - 1 + 1 : v[k] = u[1 + k - 1]
    BY <1>1, <2>1, SubSeqProperties
  <2> HIDE DEF v
  <2>3. Len(v) = Len(a) /\ \A k \in 1 .. Len(v) : v[k] = a[k]
    BY <1>1, <1>2, <1>8, <2>1, <2>2
  <2>4. v = a
    BY <1>2, <2>2, <2>3, SeqEqual
  <2> QED
    BY <2>4 DEF v
<1>10. SubSeq(u, del.from + 1, Len(u)) = b
  <2> DEFINE v == SubSeq(u, del.from + 1, Len(u))
           n == del.from + 1
  <2>0. n \in Int /\ Len(u) \in Int /\ \A k \in n .. Len(u) : u[k] \in Byte
    <3>1. n \in Nat /\ 1 <= n /\ Len(u) \in Int
      BY <1>1, <1>8
    <3>2. \A k \in n .. Len(u) : k \in 1 .. Len(u)
      BY <3>1
    <3> QED
      BY <1>8, <3>1, <3>2
  <2>1. /\ v \in Seq(Byte) /\ Len(v) = IF n <= Len(u) THEN Len(u) - n + 1 ELSE 0
        /\ \A k \in 1 .. Len(u) - n + 1 : v[k] = u[n + k - 1]
    <3>1. v = SubSeq(u, n, Len(u))
      OBVIOUS
    <3> HIDE DEF v, n
    <3> QED
      BY <2>0, <3>1, SubSeqProperties
  <2> HIDE DEF v
  <2>2. Len(v) = Len(t) - del.to /\ \A k \in 1 .. Len(v) : v[k] = b[k]
    <3>1. Len(v) = Len(t) - del.to
      BY <1>1, <1>8, <2>1
    <3>2. ASSUME NEW k \in 1 .. Len(v) PROVE v[k] = b[k]
      <4>1. k \in Int /\ 1 <= k /\ k <= Len(t) - del.to
        BY <3>1, <1>1
      <4>2. k \in 1 .. Len(u) - n + 1 /\ n + k - 1 = del.from + k
        BY <1>1, <1>8, <4>1
      <4>3. del.from + k \in 1 .. Len(u) /\ ~ (del.from + k <= del.from) /\ del.from + k - del.from = k
        BY <1>1, <1>8, <4>1
      <4>4. v[k] = u[del.from + k]
        BY <2>1, <4>2
      <4>5. u[del.from + k] = b[k]
        <5> DEFINE m == del.from + k
        <5>1. m \in 1 .. Len(u) /\ ~ (m <= del.from) /\ m - del.from = k
          BY <1>1, <1>8, <4>1
        <5> HIDE DEF m
        <5>2. u[m] = b[m - del.from]
          BY <1>8, <5>1
        <5> QED
          BY <5>1, <5>2 DEF m
      <4> QED
        BY <4>4, <4>5
    <3> QED
      BY <3>1, <3>2
  <2>3. v = b
    BY <1>3, <2>1, <2>2, SeqEqual
  <2> QED
    BY <2>3 DEF v
<1>11. Splice(u, ins) = SubSeq(u, 1, ins.from) \o ins.with \o SubSeq(u, ins.to + 1, Len(u))
  BY <1>1 DEF Splice, Slice
<1> QED
  BY <1>5, <1>7, <1>9, <1>10, <1>11

LEMMA EditTyped ==
    ASSUME NEW e \in Edit
    PROVE  /\ e.from \in Nat /\ e.to \in Nat /\ e.with \in Text /\ Len(e.with) \in Nat
           /\ Span(e) = e.to - e.from /\ Delta(e) = Len(e.with) - (e.to - e.from)
           /\ Delta(e) \in Int
BY DEF Edit, Text, Span, Delta

LEMMA TurnsOne ==
    ASSUME NEW e \in Edit, NEW n \in Nat, NEW m
    PROVE  Turns(<<e>>, n, m) <=> e.from <= e.to /\ e.to <= n /\ m = n + Delta(e)
<1>1. DOMAIN <<e>> = {1} /\ <<e>>[1] = e /\ ~ (1 > 1)
  OBVIOUS
<1>2. Delta(e) \in Int
  BY EditTyped
<1>3. Sum(Delta, <<e>>) = Delta(e)
  <2>1. Sum(Delta, <<e>>) = 0 + Delta(e)
    BY DeltaOne
  <2> QED
    BY <1>2, <2>1
<1> DEFINE total == Sum(Delta, <<e>>)
<1>4. total = Delta(e)
  BY <1>3
<1> HIDE DEF total
<1>5. Turns(<<e>>, n, m) <=> e.from <= e.to /\ e.to <= n /\ m = n + total
  BY <1>1 DEF Turns, total
<1> QED
  BY <1>4, <1>5

LEMMA TurnsTwo ==
    ASSUME NEW e \in Edit, NEW f \in Edit, NEW n \in Nat, NEW m
    PROVE  Turns(<<e, f>>, n, m)
             <=> /\ e.from <= e.to /\ e.to <= f.from /\ f.from <= f.to /\ f.to <= n
                 /\ m = n + (Delta(e) + Delta(f))
<1> DEFINE edits == <<e, f>>
           total == Sum(Delta, edits)
<1>1. DOMAIN edits = {1, 2} /\ edits[1] = e /\ edits[2] = f
  OBVIOUS
<1>2. total = Delta(e) + Delta(f)
  <2>1. Delta(e) \in Int /\ Delta(f) \in Int
    BY EditTyped
  <2>2. total = 0 + Delta(e) + Delta(f)
    BY DeltaTwo
  <2> QED
    BY <2>1, <2>2
<1>3. Turns(edits, n, m)
        <=> /\ \A k \in {1, 2} : /\ edits[k].from <= edits[k].to /\ edits[k].to <= n
                                 /\ k > 1 => edits[k - 1].to <= edits[k].from
            /\ m = n + total
  <2> HIDE DEF edits
  <2> QED
    BY <1>1 DEF Turns
<1> HIDE DEF total, edits
<1>4. (\A k \in {1, 2} : /\ edits[k].from <= edits[k].to /\ edits[k].to <= n
                         /\ k > 1 => edits[k - 1].to <= edits[k].from)
        <=> /\ e.from <= e.to /\ e.to <= n
            /\ f.from <= f.to /\ f.to <= n /\ e.to <= f.from
  <2>1. ~ (1 > 1) /\ 2 > 1 /\ 2 - 1 = 1
    OBVIOUS
  <2> QED
    BY <1>1, <2>1
<1>5. e.to <= f.from /\ f.from <= f.to /\ f.to <= n => e.to <= n
  BY EditTyped
<1> QED
  BY <1>2, <1>3, <1>4, <1>5 DEF edits

LEMMA EditsTyped ==
    ASSUME NEW edits \in Edits
    PROVE  /\ Sum(Delta, edits) \in Int /\ Charge(edits) \in Int
           /\ \A k \in DOMAIN edits : edits[k] \in Edit
<1>1. EditOverhead \in Nat
  BY DocumentAssumption
<1>2. CASE edits \in Single
  <2>1. PICK e \in Edit : edits = <<e>>
    BY <1>2 DEF Single
  <2>2. Sum(Delta, edits) = 0 + Delta(e)
        /\ Charge(edits) = 0 + (Span(e) + Len(e.with) + EditOverhead)
    BY <2>1, DeltaOne, ChargeOne
  <2>3. \A k \in DOMAIN edits : edits[k] \in Edit
    BY <2>1
  <2>4. Delta(e) \in Int /\ Span(e) \in Int /\ Len(e.with) \in Int
    BY EditTyped
  <2> QED
    BY <1>1, <2>2, <2>3, <2>4
<1>3. CASE edits \notin Single
  <2>1. PICK e \in Edit, f \in Edit : edits = <<e, f>>
    BY <1>3 DEF Edits
  <2>2. /\ Sum(Delta, edits) = 0 + Delta(e) + Delta(f)
        /\ Charge(edits) = 0 + (Span(e) + Len(e.with) + EditOverhead)
                             + (Span(f) + Len(f.with) + EditOverhead)
    BY <2>1, DeltaTwo, ChargeTwo
  <2>3. \A k \in DOMAIN edits : edits[k] \in Edit
    BY <2>1
  <2>4. /\ Delta(e) \in Int /\ Span(e) \in Int /\ Len(e.with) \in Int
        /\ Delta(f) \in Int /\ Span(f) \in Int /\ Len(f.with) \in Int
    BY EditTyped
  <2>5. Sum(Delta, edits) \in Int
    <3>1. 0 + Delta(e) + Delta(f) \in Int
      BY <2>4
    <3> QED
      BY <2>2, <3>1
  <2>6. Charge(edits) \in Int
    <3> DEFINE c == Span(e) + Len(e.with) + EditOverhead
               d == Span(f) + Len(f.with) + EditOverhead
    <3>1. c \in Int
      BY <1>1, <2>4
    <3>2. d \in Int
      BY <1>1, <2>4
    <3>3. Charge(edits) = 0 + c + d
      BY <2>2
    <3> HIDE DEF c, d
    <3> QED
      BY <3>1, <3>2, <3>3
  <2> QED
    BY <2>3, <2>5, <2>6
<1> QED
  BY <1>2, <1>3

\* The document and a view that shows it come to the same.
LEMMA EditsFit ==
    ASSUME NEW t \in Text, NEW edits \in Edits, NEW m, Turns(edits, Len(t), m)
    PROVE  /\ ApplyEdits(t, edits) \in Text
           /\ m \in Nat /\ Len(ApplyEdits(t, edits)) = m
           /\ Followed(t, edits) = ApplyEdits(t, edits)
<1>0. Len(t) \in Nat
  BY DEF Text
<1>1. CASE edits \in Single
  <2>1. PICK e \in Edit : edits = <<e>>
    BY <1>1 DEF Single
  <2>2. e.from <= e.to /\ e.to <= Len(t) /\ m = Len(t) + Delta(e)
    BY <1>0, <2>1, TurnsOne
  <2>3. /\ Splice(t, e) \in Text /\ Len(Splice(t, e)) = Len(t) + Delta(e)
        /\ Clamped(t, e) = e
    BY <2>2, EditTyped, SpliceLength, ClampFits
  <2>4. Len(Splice(t, e)) \in Nat
    BY <2>3 DEF Text
  <2>5. ApplyEdits(t, edits) = Splice(t, e) /\ Followed(t, edits) = Splice(t, Clamped(t, e))
    BY <2>1, ApplyOne, FollowOne
  <2> QED
    BY <2>2, <2>3, <2>4, <2>5
<1>2. CASE edits \notin Single
  <2>1. PICK e \in Edit, f \in Edit : edits = <<e, f>>
    BY <1>2 DEF Edits
  <2>2. /\ e.from <= e.to /\ e.to <= f.from /\ f.from <= f.to /\ f.to <= Len(t)
        /\ m = Len(t) + (Delta(e) + Delta(f))
    BY <1>0, <2>1, TurnsTwo
  <2> DEFINE u == Splice(t, f)
             v == Splice(u, e)
  <2>3. u \in Text /\ Len(u) = Len(t) + Delta(f) /\ Clamped(t, f) = f
    BY <2>2, EditTyped, SpliceLength, ClampFits
  <2> HIDE DEF u, v
  <2>4. e.to <= Len(u)
    <3>1. /\ e.to \in Nat /\ f.from \in Nat /\ f.to \in Nat /\ Len(f.with) \in Nat
          /\ Delta(f) = Len(f.with) - (f.to - f.from)
      BY EditTyped
    <3> QED
      BY <1>0, <2>2, <2>3, <3>1
  <2>5. v \in Text /\ Len(v) = Len(u) + Delta(e) /\ Clamped(u, e) = e
    BY <2>2, <2>3, <2>4, EditTyped, SpliceLength, ClampFits DEF v
  <2>6. Len(v) \in Nat
    BY <2>5 DEF Text
  <2>7. ApplyEdits(t, edits) = v
    BY <2>1, ApplyTwo DEF u, v
  <2>8. Followed(t, edits) = Splice(u, Clamped(u, e))
    BY <2>1, <2>3, FollowTwo DEF u
  <2>9. Len(v) = m
    BY <1>0, <2>2, <2>3, <2>5, EditTyped
  <2> QED
    BY <2>5, <2>6, <2>7, <2>8, <2>9 DEF v
<1> QED
  BY <1>1, <1>2

\* Any other view stays a text.
LEMMA FollowedTyped ==
    ASSUME NEW t \in Text, NEW edits \in Edits,
           \A k \in DOMAIN edits : edits[k].from <= edits[k].to
    PROVE  Followed(t, edits) \in Text
<1>1. ASSUME NEW u \in Text, NEW e \in Edit, e.from <= e.to
      PROVE  Splice(u, Clamped(u, e)) \in Text
  <2> DEFINE c == Clamped(u, e)
  <2>1. c \in Edit /\ c.from <= c.to /\ c.to <= Len(u)
    BY <1>1, ClampFits
  <2> HIDE DEF c
  <2>2. Splice(u, c) \in Text
    BY <2>1, EditTyped, SpliceLength
  <2> QED
    BY <2>2 DEF c
<1>2. CASE edits \in Single
  <2>1. PICK e \in Edit : edits = <<e>>
    BY <1>2 DEF Single
  <2>2. e.from <= e.to
    BY <2>1
  <2> QED
    BY <1>1, <2>1, <2>2, FollowOne
<1>3. CASE edits \notin Single
  <2>1. PICK e \in Edit, f \in Edit : edits = <<e, f>>
    BY <1>3 DEF Edits
  <2>2. e.from <= e.to /\ f.from <= f.to
    <3>1. DOMAIN edits = {1, 2} /\ edits[1] = e /\ edits[2] = f
      BY <2>1
    <3> QED
      BY <3>1
  <2> DEFINE u == Splice(t, Clamped(t, f))
  <2>3. u \in Text
    BY <1>1, <2>2
  <2> HIDE DEF u
  <2>4. Splice(u, Clamped(u, e)) \in Text
    BY <1>1, <2>2, <2>3
  <2>5. Followed(t, <<e, f>>) = Splice(u, Clamped(u, e))
    BY FollowTwo DEF u
  <2> QED
    BY <2>1, <2>4, <2>5
<1> QED
  BY <1>2, <1>3

-----------------------------------------------------------------------------
(* Stacks *)

LEMMA ChainOfNone == ASSUME NEW n \in Nat, NEW undoing PROVE Chain(<< >>, n, undoing)
<1> DEFINE L == [k \in 0 .. Len(<< >>) |-> n]
<1>1. Len(<< >>) = 0
  OBVIOUS
<1>2. L \in [0 .. Len(<< >>) -> Nat] /\ L[Len(<< >>)] = n
  BY <1>1
<1>3. \A k \in 1 .. Len(<< >>) : FALSE
  BY <1>1
<1> HIDE DEF L
<1> QED
  BY <1>2, <1>3 DEF Chain

LEMMA ChainGrows ==
    ASSUME NEW stack \in Seq(Entry), NEW n \in Nat, NEW m \in Nat, NEW undoing, NEW x \in Entry,
           Chain(stack, n, undoing), Linked(x, n, m, undoing)
    PROVE  Chain(Append(stack, x), m, undoing)
<1> DEFINE N == Len(stack)
           longer == Append(stack, x)
<1>1. PICK L \in [0 .. N -> Nat] : /\ L[N] = n
                                   /\ \A k \in 1 .. N : Linked(stack[k], L[k - 1], L[k], undoing)
  BY DEF Chain
<1>2. N \in Nat
  OBVIOUS
<1>3. Len(longer) = N + 1 /\ longer[N + 1] = x /\ \A k \in 1 .. N : longer[k] = stack[k]
  OBVIOUS
<1> DEFINE M == [k \in 0 .. N + 1 |-> IF k = N + 1 THEN m ELSE L[k]]
<1>4. /\ M \in [0 .. N + 1 -> Nat] /\ M[N + 1] = m
      /\ \A k \in 0 .. N : M[k] = L[k]
  BY <1>2
<1> HIDE DEF M, N, longer
<1>5. ASSUME NEW k \in 1 .. N + 1 PROVE Linked(longer[k], M[k - 1], M[k], undoing)
  <2>1. CASE k = N + 1
    <3>1. k - 1 = N /\ N \in 0 .. N
      BY <1>2, <2>1
    <3> QED
      BY <1>1, <1>3, <1>4, <2>1, <3>1
  <2>2. CASE k # N + 1
    <3>1. k \in 1 .. N /\ k - 1 \in 0 .. N /\ k \in 0 .. N
      BY <1>2, <2>2
    <3> QED
      BY <1>1, <1>3, <1>4, <3>1
  <2> QED
    BY <2>1, <2>2
<1>6. Chain(longer, m, undoing)
  BY <1>3, <1>4, <1>5 DEF Chain
<1> QED
  BY <1>6 DEF longer

\* The newest entry fits the text, and the others the text it leads back to.
LEMMA ChainPops ==
    ASSUME NEW stack \in Seq(Entry), stack # << >>, NEW n \in Nat, NEW undoing,
           Chain(stack, n, undoing)
    PROVE  \E m \in Nat : Chain(Front(stack), m, undoing) /\ Linked(Last(stack), m, n, undoing)
<1> DEFINE N == Len(stack)
           shorter == Front(stack)
<1>1. PICK L \in [0 .. N -> Nat] : /\ L[N] = n
                                   /\ \A k \in 1 .. N : Linked(stack[k], L[k - 1], L[k], undoing)
  BY DEF Chain
<1>2. N \in Nat \ {0}
  OBVIOUS
<1>3. Len(shorter) = N - 1 /\ \A k \in 1 .. N - 1 : shorter[k] = stack[k]
  BY DEF Front
<1> DEFINE M == [k \in 0 .. N - 1 |-> L[k]]
<1>4. /\ M \in [0 .. N - 1 -> Nat] /\ \A k \in 0 .. N - 1 : M[k] = L[k]
      /\ N - 1 \in 0 .. N - 1
  BY <1>2
<1>5. Last(stack) = stack[N]
  BY DEF Last
<1> HIDE DEF M, N, shorter
<1>6. \A k \in 1 .. N - 1 : Linked(shorter[k], M[k - 1], M[k], undoing)
  <2> TAKE k \in 1 .. N - 1
  <2>1. k \in 1 .. N /\ k - 1 \in 0 .. N - 1 /\ k \in 0 .. N - 1
    BY <1>2
  <2> QED
    BY <1>1, <1>3, <1>4, <2>1
<1>7. Chain(shorter, M[N - 1], undoing)
  BY <1>3, <1>4, <1>6 DEF Chain
<1>8. Linked(stack[N], M[N - 1], n, undoing)
  <2>1. N \in 1 .. N
    BY <1>2
  <2> QED
    BY <1>1, <1>4, <2>1
<1> QED
  BY <1>4, <1>5, <1>7, <1>8 DEF shorter

\* Eviction takes the oldest.
LEMMA ChainLosesOldest ==
    ASSUME NEW stack \in Seq(Entry), NEW n \in Nat, NEW undoing, NEW i \in 0 .. Len(stack),
           Chain(stack, n, undoing)
    PROVE  Chain(SubSeq(stack, i + 1, Len(stack)), n, undoing)
<1> DEFINE N == Len(stack)
           rest == SubSeq(stack, i + 1, Len(stack))
<1>1. PICK L \in [0 .. N -> Nat] : /\ L[N] = n
                                   /\ \A k \in 1 .. N : Linked(stack[k], L[k - 1], L[k], undoing)
  BY DEF Chain
<1>2. N \in Nat /\ i \in Nat /\ i <= N
  OBVIOUS
<1>3. Len(rest) = N - i /\ \A k \in 1 .. N - i : rest[k] = stack[k + i]
  <2> DEFINE j == i + 1
  <2>1. j \in Int /\ N \in Int /\ \A k \in j .. N : stack[k] \in Entry
    BY <1>2
  <2>4. rest = SubSeq(stack, j, N)
    OBVIOUS
  <2> HIDE DEF rest, j, N
  <2>2. /\ Len(rest) = IF j <= N THEN N - j + 1 ELSE 0
        /\ \A k \in 1 .. N - j + 1 : rest[k] = stack[j + k - 1]
    BY <2>1, <2>4, SubSeqProperties
  <2> USE DEF rest, j, N
  <2>3. \A k \in 1 .. N - i : k \in 1 .. N - j + 1 /\ j + k - 1 = k + i
    BY <1>2
  <2> HIDE DEF rest
  <2> QED
    BY <1>2, <2>2, <2>3
<1> DEFINE M == [k \in 0 .. N - i |-> L[k + i]]
<1>4. \A k \in 0 .. N - i : k + i \in 0 .. N
  BY <1>2
<1>5. M \in [0 .. N - i -> Nat] /\ M[N - i] = n
  <2>1. N - i \in 0 .. N - i /\ N - i + i = N
    BY <1>2
  <2> QED
    BY <1>1, <1>4, <2>1
<1>6. \A k \in 0 .. N - i : M[k] = L[k + i]
  OBVIOUS
<1> HIDE DEF M, N, rest
<1>7. \A k \in 1 .. N - i : Linked(rest[k], M[k - 1], M[k], undoing)
  <2> TAKE k \in 1 .. N - i
  <2>1. k + i \in 1 .. N /\ k - 1 \in 0 .. N - i /\ k \in 0 .. N - i /\ k - 1 + i = k + i - 1
    BY <1>2
  <2>2. M[k - 1] = L[k + i - 1] /\ M[k] = L[k + i] /\ rest[k] = stack[k + i]
    BY <1>3, <1>6, <2>1
  <2> QED
    BY <1>1, <2>1, <2>2
<1>8. Chain(rest, n, undoing)
  BY <1>3, <1>5, <1>7 DEF Chain
<1> QED
  BY <1>8 DEF rest


-----------------------------------------------------------------------------
(* What edits, undo and redo do to a document *)

LEMMA Least ==
  ASSUME NEW S, IsFiniteSet(S), S # {}, \A j \in S : j \in Int
  PROVE  \E i \in S : \A j \in S : i <= j
<1> DEFINE Below(i) == {j \in S : j < i}
           T == {Below(i) : i \in S}
<1>1. IsWellFoundedOn(StrictSubsetOrdering(S), SUBSET S)
  <2>1. FiniteSubsetsOf(S) = SUBSET S
    BY FS_FiniteSubsetsOfFinite
  <2>2. IsWellFoundedOn(StrictSubsetOrdering(S), FiniteSubsetsOf(S))
    BY FS_StrictSubsetOrderingWellFounded
  <2> QED
    BY <2>1, <2>2
<1>2. T \subseteq SUBSET S /\ T # {}
  OBVIOUS
<1> HIDE DEF T
<1>3. \E x \in T : \A y \in T : ~ (<<y, x>> \in StrictSubsetOrdering(S))
  BY <1>1, <1>2, WFMin, Zenon
<1>4. PICK i \in S : \A y \in T : ~ (<<y, Below(i)>> \in StrictSubsetOrdering(S))
  BY <1>3 DEF T
<1>5. ASSUME NEW j \in S, j < i PROVE FALSE
  <2>1. i \in Int /\ j \in Int
    OBVIOUS
  <2>2. j \in Below(i) /\ j \notin Below(j)
    BY <1>5, <2>1
  <2>3. ASSUME NEW k \in Below(j) PROVE k \in Below(i)
    <3>1. k \in S /\ k \in Int /\ k < j
      OBVIOUS
    <3> QED
      BY <1>5, <2>1, <3>1
  <2>4. <<Below(j), Below(i)>> \in StrictSubsetOrdering(S)
    <3>1. Below(j) \subseteq S /\ Below(i) \subseteq S /\ Below(j) \subseteq Below(i)
      BY <2>3
    <3> HIDE DEF Below
    <3> QED
      BY <2>2, <3>1 DEF StrictSubsetOrdering
  <2> QED
    BY <1>4, <2>4, Zenon DEF T
<1>6. \A j \in S : j \in Int /\ i \in Int /\ ~(j < i)
  BY <1>5
<1> QED
  BY <1>6

\* The oldest entries go, how many does not matter here.
LEMMA BudgetEnforced ==
    ASSUME NEW d, d.undo \in Seq(Entry)
    PROVE  \E i \in 0 .. Len(d.undo) : \E bytes :
              EnforceUndoBudget(d)
                = [d EXCEPT !.undo = SubSeq(d.undo, i + 1, Len(d.undo)), !.undoBytes = bytes]
<1> DEFINE Left(k) == d.undoBytes - Sum(LAMBDA entry : entry.charge, SubSeq(d.undo, 1, k))
           Enough(k) == Left(k) <= MaxUndo
           N == Len(d.undo)
           First(n) == Enough(n) /\ \A m \in 0 .. n - 1 : ~ Enough(m)
           chosen == CHOOSE n \in 0 .. N : First(n)
           i == IF \E n \in 0 .. N : Enough(n) THEN chosen ELSE N
           bytes == IF Enough(i) THEN Left(i) ELSE 0
<1>1. EnforceUndoBudget(d) = [d EXCEPT !.undo = SubSeq(@, i + 1, Len(@)), !.undoBytes = bytes]
  BY Zenon DEF EnforceUndoBudget
<1>2. N \in Nat
  OBVIOUS
<1> HIDE DEF Enough, Left, N, bytes
<1>3. ASSUME NEW n \in 0 .. N, Enough(n) PROVE \E l \in 0 .. N : First(l)
  <2> DEFINE S == {l \in 0 .. N : Enough(l)}
  <2>1. IsFiniteSet(S)
    <3>1. IsFiniteSet(0 .. N)
      BY <1>2, FS_Interval
    <3> QED
      BY <3>1, FS_Subset
  <2>2. S # {} /\ \A l \in S : l \in Int
    BY <1>2, <1>3
  <2>3. PICK l \in S : \A m \in S : l <= m
    BY <2>1, <2>2, Least
  <2>4. \A m \in 0 .. l - 1 : ~ Enough(m)
    <3> TAKE m \in 0 .. l - 1
    <3>1. l \in 0 .. N /\ m \in 0 .. N /\ ~ (l <= m)
      BY <1>2
    <3> QED
      BY <2>3, <3>1
  <2> QED
    BY <2>3, <2>4
<1>4. i \in 0 .. N
  <2>1. CASE \E n \in 0 .. N : Enough(n)
    <3>1. \E l \in 0 .. N : First(l)
      BY <1>3, <2>1
    <3> HIDE DEF First
    <3>2. chosen \in 0 .. N
      BY <3>1
    <3> QED
      BY <2>1, <3>2
  <2>2. CASE ~ \E n \in 0 .. N : Enough(n)
    BY <1>2, <2>2
  <2> QED
    BY <2>1, <2>2
<1>5. EnforceUndoBudget(d) = [d EXCEPT !.undo = SubSeq(d.undo, i + 1, Len(d.undo)), !.undoBytes = bytes]
  BY <1>1
<1> HIDE DEF i
<1> QED
  BY <1>4, <1>5 DEF N

LEMMA BudgetKeepsDoc ==
    ASSUME NEW d, IsDoc(d)
    PROVE  /\ IsDoc(EnforceUndoBudget(d))
           /\ EnforceUndoBudget(d).text = d.text
           /\ EnforceUndoBudget(d).revision = d.revision
<1> DEFINE r == EnforceUndoBudget(d)
<1>1. /\ d \in [text : Text, revision : Nat, undo : Seq(Entry), redo : Seq(Entry),
                undoBytes : {d.undoBytes}, groupOpen : {FALSE}]
      /\ Chain(d.undo, Len(d.text), TRUE) /\ Chain(d.redo, Len(d.text), FALSE)
  BY DEF IsDoc
<1>2. PICK i \in 0 .. Len(d.undo) : \E bytes :
         r = [d EXCEPT !.undo = SubSeq(d.undo, i + 1, Len(d.undo)), !.undoBytes = bytes]
  BY <1>1, BudgetEnforced
<1>3. PICK bytes : r = [d EXCEPT !.undo = SubSeq(d.undo, i + 1, Len(d.undo)), !.undoBytes = bytes]
  BY <1>2
<1>4. SubSeq(d.undo, i + 1, Len(d.undo)) \in Seq(Entry)
  <2>1. Len(d.undo) \in Nat /\ i \in Nat /\ i <= Len(d.undo) /\ d.undo \in Seq(Entry)
    BY <1>1
  <2> QED
    BY <2>1
<1>5. Len(d.text) \in Nat
  BY <1>1 DEF Text
<1>6. Chain(SubSeq(d.undo, i + 1, Len(d.undo)), Len(d.text), TRUE)
  BY <1>1, <1>5, ChainLosesOldest
<1>7. /\ r \in [text : Text, revision : Nat, undo : Seq(Entry), redo : Seq(Entry),
                undoBytes : {r.undoBytes}, groupOpen : {FALSE}]
      /\ r.undo = SubSeq(d.undo, i + 1, Len(d.undo)) /\ r.redo = d.redo
      /\ r.text = d.text /\ r.revision = d.revision
  BY <1>1, <1>3, <1>4
<1> HIDE DEF r
<1>8. IsDoc(r) /\ r.text = d.text /\ r.revision = d.revision
  BY <1>1, <1>6, <1>7 DEF IsDoc
<1> QED
  BY <1>8 DEF r

-----------------------------------------------------------------------------
(* A change, an undo and a redo *)

LEMMA SliceTyped ==
    ASSUME NEW t \in Text, NEW i \in Nat, NEW j \in Nat, i <= j, j <= Len(t)
    PROVE  Slice(t, i, j) \in Text /\ Len(Slice(t, i, j)) = j - i
<1> DEFINE k == i + 1
<1>1. k \in Int /\ j \in Int /\ Len(t) \in Nat /\ \A l \in k .. j : t[l] \in Byte
  BY DEF Text
<1>2. /\ SubSeq(t, k, j) \in Seq(Byte)
      /\ Len(SubSeq(t, k, j)) = IF k <= j THEN j - k + 1 ELSE 0
  BY <1>1, SubSeqProperties
<1> QED
  BY <1>1, <1>2 DEF Slice, Text

\* What takes the place of edit e back, when those before moved it by n.
Reverted(t, e, n) ==
    [from |-> e.from + n, to |-> e.from + n + Len(e.with), with |-> Slice(t, e.from, e.to)]

LEMMA BackTyped ==
    ASSUME NEW t \in Text, NEW e \in Edit, e.from <= e.to, e.to <= Len(t),
           NEW n \in Int, e.from + n \in Nat, NEW i, i = Reverted(t, e, n)
    PROVE  /\ i \in Edit /\ i.from = e.from + n /\ i.to = e.from + n + Len(e.with)
           /\ Delta(i) = e.to - e.from - Len(e.with)
<1> DEFINE with == Slice(t, e.from, e.to)
<1>1. e.from \in Nat /\ e.to \in Nat /\ Len(e.with) \in Nat
  BY EditTyped
<1>2. with \in Text /\ Len(with) = e.to - e.from
  BY <1>1, SliceTyped
<1>3. i = [from |-> e.from + n, to |-> e.from + n + Len(e.with), with |-> with]
  BY DEF Reverted
<1> HIDE DEF with
<1>4. e.from + n + Len(e.with) \in Nat
  BY <1>1
<1>5. i \in Edit /\ i.from = e.from + n /\ i.to = e.from + n + Len(e.with) /\ i.with = with
  BY <1>2, <1>3, <1>4 DEF Edit
<1>6. Delta(i) = Len(with) - (e.from + n + Len(e.with) - (e.from + n))
  BY <1>5 DEF Delta, Span
<1> QED
  BY <1>1, <1>2, <1>5, <1>6

\* What undoes fitting edits fits what they lead to, and leads back.
LEMMA InverseTurns ==
    ASSUME NEW t \in Text, NEW edits \in Edits, NEW m, Turns(edits, Len(t), m)
    PROVE  InverseOf(t, edits) \in Edits /\ Turns(InverseOf(t, edits), m, Len(t))
<1>0. Len(t) \in Nat /\ m \in Nat
  BY EditsFit DEF Text
<1>1. CASE edits \in Single
  <2>1. PICK e \in Edit : edits = <<e>>
    BY <1>1 DEF Single
  <2>2. e.from <= e.to /\ e.to <= Len(t) /\ m = Len(t) + Delta(e)
    BY <1>0, <2>1, TurnsOne
  <2>3. /\ e.from \in Nat /\ e.to \in Nat /\ Len(e.with) \in Nat
        /\ Delta(e) = Len(e.with) - (e.to - e.from)
    BY EditTyped
  <2> DEFINE i == Reverted(t, e, 0)
  <2>4. InverseOf(t, edits) = <<i>>
    <3>1. DOMAIN edits = {1} /\ edits[1] = e /\ Displacement(edits, 1) = 0
      BY <2>1, NothingBefore
    <3>2. InverseOf(t, edits)
            = [k \in {1} |-> [from |-> e.from + 0, to |-> e.from + 0 + Len(e.with),
                               with |-> Slice(t, e.from, e.to)]]
      BY <3>1 DEF InverseOf
    <3> QED
      BY <3>2 DEF Reverted
  <2>5. e.from + 0 \in Nat /\ 0 \in Int
    BY <2>3
  <2>6. /\ i \in Edit /\ i.from = e.from + 0 /\ i.to = e.from + 0 + Len(e.with)
        /\ Delta(i) = e.to - e.from - Len(e.with)
    BY <2>2, <2>5, BackTyped
  <2> HIDE DEF i
  <2>7. i.from <= i.to /\ i.to <= m /\ Len(t) = m + Delta(i)
    <3> DEFINE a == e.from
               b == e.to
               w == Len(e.with)
               l == Len(t)
               o == Delta(e)
               x == i.from
               y == i.to
               g == Delta(i)
    <3>1. /\ a \in Nat /\ b \in Nat /\ w \in Nat /\ l \in Nat /\ o = w - (b - a)
          /\ a <= b /\ b <= l /\ m = l + o
      BY <1>0, <2>2, <2>3
    <3>2. x = a + 0 /\ y = a + 0 + w /\ g = b - a - w
      BY <2>6
    <3> HIDE DEF a, b, w, l, o, x, y, g
    <3>3. x <= y /\ y <= m /\ l = m + g
      BY <3>1, <3>2
    <3> QED
      BY <3>3 DEF x, y, g, l
  <2>8. Turns(<<i>>, m, Len(t))
    BY <1>0, <2>6, <2>7, TurnsOne
  <2> QED
    BY <2>4, <2>6, <2>8 DEF Edits, Single
<1>2. CASE edits \notin Single
  <2>1. PICK e \in Edit, f \in Edit : edits = <<e, f>>
    BY <1>2 DEF Edits
  <2>2. /\ e.from <= e.to /\ e.to <= f.from /\ f.from <= f.to /\ f.to <= Len(t)
        /\ m = Len(t) + (Delta(e) + Delta(f))
    BY <1>0, <2>1, TurnsTwo
  <2>3. /\ e.from \in Nat /\ e.to \in Nat /\ Len(e.with) \in Nat
        /\ Delta(e) = Len(e.with) - (e.to - e.from) /\ Delta(e) \in Int
        /\ f.from \in Nat /\ f.to \in Nat /\ Len(f.with) \in Nat
        /\ Delta(f) = Len(f.with) - (f.to - f.from) /\ Delta(f) \in Int
    BY EditTyped
  <2> DEFINE n == Delta(e)
             i == Reverted(t, e, 0)
             j == Reverted(t, f, n)
  <2>4. InverseOf(t, edits) = <<i, j>>
    <3>1. /\ DOMAIN edits = {1, 2} /\ edits[1] = e /\ edits[2] = f
          /\ SubSeq(edits, 1, 0) = << >> /\ SubSeq(edits, 1, 2 - 1) = <<e>>
      <4>1. /\ DOMAIN edits = {1, 2} /\ edits[1] = e /\ edits[2] = f
            /\ edits \in Seq({e, f}) /\ Len(edits) = 2
        BY <2>1
      <4>2. SubSeq(edits, 1, 0) = << >>
        BY <4>1
      <4>3. SubSeq(edits, 1, 1) = <<e>>
        <5> DEFINE one == SubSeq(edits, 1, 1)
        <5>1. one \in Seq({e, f}) /\ Len(one) = 1 /\ one[1] = e
          BY <4>1
        <5> HIDE DEF one
        <5>2. <<e>> \in Seq({e, f}) /\ Len(<<e>>) = 1 /\ \A k \in 1 .. 1 : <<e>>[k] = one[k]
          BY <5>1
        <5>3. one = <<e>>
          BY <5>1, <5>2, SeqEqual
        <5> QED
          BY <5>3 DEF one
      <4> QED
        BY <4>1, <4>2, <4>3
    <3>2. Displacement(edits, 1) = 0
      BY <3>1, NothingBefore
    <3>3. Displacement(edits, 2) = n
      <4>1. Displacement(edits, 2) = 0 + Delta(e)
        BY <3>1, DeltaOne DEF Displacement
      <4> QED
        BY <2>3, <4>1
    <3> HIDE DEF n
    <3>4. InverseOf(t, edits)
            = [k \in {1, 2} |-> Reverted(t, edits[k], Displacement(edits, k))]
      BY <3>1 DEF InverseOf, Reverted
    <3>5. InverseOf(t, edits) = [k \in {1, 2} |-> IF k = 1 THEN i ELSE j]
      <4> HIDE DEF i, j
      <4>1. ASSUME NEW k \in {1, 2}
            PROVE  Reverted(t, edits[k], Displacement(edits, k)) = IF k = 1 THEN i ELSE j
        BY <3>1, <3>2, <3>3 DEF i, j
      <4> QED
        BY <3>4, <4>1
    <3> HIDE DEF i, j
    <3>6. <<i, j>> = [k \in {1, 2} |-> IF k = 1 THEN i ELSE j]
      OBVIOUS
    <3> QED
      BY <3>5, <3>6
  <2>5. /\ e.from + 0 \in Nat /\ 0 \in Int /\ f.from + n \in Nat /\ n \in Int
        /\ e.to <= Len(t)
    <3> DEFINE a == e.from
               b == e.to
               w == Len(e.with)
               c == f.from
               d == f.to
               l == Len(t)
    <3>1. /\ a \in Nat /\ b \in Nat /\ w \in Nat /\ c \in Nat /\ d \in Nat /\ l \in Nat
          /\ a <= b /\ b <= c /\ c <= d /\ d <= l /\ n = w - (b - a) /\ n \in Int
      BY <1>0, <2>2, <2>3
    <3> HIDE DEF a, b, w, c, d, l, n
    <3>2. a + 0 \in Nat /\ c + n \in Nat /\ b <= l
      BY <3>1
    <3> QED
      BY <3>1, <3>2 DEF a, b, c, l
  <2>6. /\ i \in Edit /\ i.from = e.from + 0 /\ i.to = e.from + 0 + Len(e.with)
        /\ Delta(i) = e.to - e.from - Len(e.with)
    BY <2>2, <2>5, BackTyped
  <2>7. /\ j \in Edit /\ j.from = f.from + n /\ j.to = f.from + n + Len(f.with)
        /\ Delta(j) = f.to - f.from - Len(f.with)
    <3> HIDE DEF n
    <3> QED
      BY <2>2, <2>5, BackTyped
  <2>8. n = Len(e.with) - (e.to - e.from)
    BY <2>3
  <2> HIDE DEF i, j, n
  <2>9. /\ i.from <= i.to /\ i.to <= j.from /\ j.from <= j.to /\ j.to <= m
        /\ Len(t) = m + (Delta(i) + Delta(j))
    <3> DEFINE a == e.from
               b == e.to
               w == Len(e.with)
               c == f.from
               d == f.to
               v == Len(f.with)
               l == Len(t)
               o == Delta(f)
               xi == i.from
               yi == i.to
               gi == Delta(i)
               xj == j.from
               yj == j.to
               gj == Delta(j)
    <3>1. /\ a \in Nat /\ b \in Nat /\ w \in Nat /\ l \in Nat
          /\ c \in Nat /\ d \in Nat /\ v \in Nat
          /\ n = w - (b - a) /\ o = v - (d - c)
          /\ a <= b /\ b <= c /\ c <= d /\ d <= l /\ m = l + (n + o)
      BY <1>0, <2>2, <2>3, <2>8 DEF n
    <3>2. /\ xi = a + 0 /\ yi = a + 0 + w /\ gi = b - a - w
          /\ xj = c + n /\ yj = c + n + v /\ gj = d - c - v
      BY <2>6, <2>7
    <3> HIDE DEF a, b, w, c, d, v, l, o, xi, yi, gi, xj, yj, gj
    <3>3. xi <= yi /\ yi <= xj /\ xj <= yj /\ yj <= m /\ l = m + (gi + gj)
      BY <3>1, <3>2
    <3> QED
      BY <3>3 DEF xi, yi, xj, yj, gi, gj, l
  <2>10. Turns(<<i, j>>, m, Len(t))
    BY <1>0, <2>6, <2>7, <2>9, TurnsTwo
  <2> QED
    BY <2>4, <2>6, <2>7, <2>10 DEF Edits
<1> QED
  BY <1>1, <1>2

LEMMA DocTyped ==
    ASSUME NEW d, IsDoc(d)
    PROVE  d.text \in Text /\ Len(d.text) \in Nat /\ d.revision \in Nat
BY DEF IsDoc, Text

LEMMA AppliedTurns ==
    ASSUME NEW d, IsDoc(d), NEW edits \in Edits, NEW m, Turns(edits, Len(d.text), m),
           NEW tx, tx.edits = edits, tx.kind \in {"typing", "programmatic"}
    PROVE  /\ IsDoc(Applied(d, tx, NoContext))
           /\ Applied(d, tx, NoContext).text = ApplyEdits(d.text, edits)
           /\ Applied(d, tx, NoContext).revision = d.revision + 1
<1> DEFINE charge == Charge(tx.edits)
           x == [kind |-> tx.kind, edits |-> tx.edits, inverse |-> InverseOf(d.text, tx.edits),
                 charge |-> charge, context |-> NoContext]
           r == Entered(d, tx, NoContext)
<1>1. /\ d \in [text : Text, revision : Nat, undo : Seq(Entry), redo : Seq(Entry),
                undoBytes : {d.undoBytes}, groupOpen : {FALSE}]
      /\ Chain(d.undo, Len(d.text), TRUE) /\ Len(d.text) \in Nat /\ d.text \in Text
  BY DocTyped DEF IsDoc
<1> DEFINE u == ApplyEdits(d.text, edits)
<1>2. InverseOf(d.text, edits) \in Edits /\ Turns(InverseOf(d.text, edits), m, Len(d.text))
  BY <1>1, InverseTurns
<1>3. charge \in Int
  BY EditsTyped
<1>4. u \in Text /\ m \in Nat /\ Len(u) = m
  BY <1>1, EditsFit
<1>5. x \in Entry
  BY <1>2, <1>3 DEF Entry
<1>6. Linked(x, Len(d.text), m, TRUE)
  BY <1>2 DEF Linked, Links
<1> HIDE DEF u
<1>7. r = [d EXCEPT !.text = u, !.revision = d.revision + 1, !.redo = << >>,
                    !.undoBytes = d.undoBytes + charge, !.undo = Append(d.undo, x), !.groupOpen = FALSE]
  <2>1. ~ CoalescibleTyping(tx, NoContext)
    BY DEF CoalescibleTyping
  <2>2. d.groupOpen = FALSE
    BY <1>1
  <2>3. ApplyEdits(d.text, tx.edits) = u
    BY DEF u
  <2>4. CoalescibleTyping(tx, NoContext) = FALSE
    BY <2>1 DEF CoalescibleTyping
  <2> QED
    BY <2>2, <2>3, <2>4 DEF Entered
<1> HIDE DEF x, charge
<1>8. /\ r \in [text : Text, revision : Nat, undo : Seq(Entry), redo : Seq(Entry),
                undoBytes : {r.undoBytes}, groupOpen : {FALSE}]
      /\ r.undo = Append(d.undo, x) /\ r.redo = << >>
      /\ r.text = u /\ r.revision = d.revision + 1
  <2>1. /\ Append(d.undo, x) \in Seq(Entry) /\ << >> \in Seq(Entry)
        /\ d.revision + 1 \in Nat
    BY <1>1, <1>5
  <2> HIDE DEF r
  <2> QED
    BY <1>1, <1>4, <1>7, <2>1
<1>9. Chain(Append(d.undo, x), Len(u), TRUE)
  <2>1. Len(u) \in Nat
    BY <1>4
  <2>2. d.undo \in Seq(Entry)
    BY <1>1
  <2> QED
    BY <1>1, <1>4, <1>5, <1>6, <2>1, <2>2, ChainGrows
<1>10. Chain(<< >>, Len(u), FALSE)
  <2>1. Len(u) \in Nat
    BY <1>4
  <2> QED
    BY <2>1, ChainOfNone
<1> HIDE DEF r
<1>11. IsDoc(r)
  BY <1>8, <1>9, <1>10 DEF IsDoc
<1>12. Applied(d, tx, NoContext) = EnforceUndoBudget(r)
  BY DEF Applied, r
<1> QED
  BY <1>8, <1>11, <1>12, BudgetKeepsDoc DEF u

LEMMA FrontTyped ==
    ASSUME NEW stack \in Seq(Entry), stack # << >>
    PROVE  Front(stack) \in Seq(Entry) /\ Last(stack) \in Entry
<1>1. Len(stack) \in Nat /\ Len(stack) >= 1
  OBVIOUS
<1>2. Last(stack) \in Entry
  BY <1>1 DEF Last
<1>3. \A k \in 1 .. Len(stack) - 1 : stack[k] \in Entry
  BY <1>1
<1>4. SubSeq(stack, 1, Len(stack) - 1) \in Seq(Entry)
  <2> DEFINE n == Len(stack) - 1
  <2>1. 1 \in Int /\ n \in Int /\ \A k \in 1 .. n : stack[k] \in Entry
    BY <1>1, <1>3
  <2> HIDE DEF n
  <2>2. SubSeq(stack, 1, n) \in Seq(Entry)
    BY <2>1, SubSeqProperties
  <2> QED
    BY <2>2 DEF n
<1>5. Front(stack) = SubSeq(stack, 1, Len(stack) - 1)
  BY DEF Front
<1> QED
  BY <1>2, <1>4, <1>5

\* What is undone fits the document's text.
LEMMA UndoneTurns ==
    ASSUME NEW d, IsDoc(d), d.undo # << >>
    PROVE  \E edits \in Edits, m \in Nat :
              /\ Last(d.undo).inverse = edits
              /\ Turns(edits, Len(d.text), m)
              /\ IsDoc(Undone(d))
              /\ Undone(d).text = ApplyEdits(d.text, edits)
              /\ Undone(d).revision = d.revision + 1
<1> DEFINE x == Last(d.undo)
           edits == x.inverse
           u == ApplyEdits(d.text, edits)
           r == Undone(d)
<1>1. /\ d \in [text : Text, revision : Nat, undo : Seq(Entry), redo : Seq(Entry),
                undoBytes : {d.undoBytes}, groupOpen : {FALSE}]
      /\ Chain(d.undo, Len(d.text), TRUE) /\ Chain(d.redo, Len(d.text), FALSE)
      /\ Len(d.text) \in Nat /\ d.text \in Text
  BY DocTyped DEF IsDoc
<1>2. d.undo \in Seq(Entry) /\ d.redo \in Seq(Entry)
  BY <1>1
<1>3. Front(d.undo) \in Seq(Entry) /\ x \in Entry
  BY <1>2, FrontTyped
<1>4. edits \in Edits
  BY <1>3 DEF Entry
<1>5. PICK m \in Nat : Chain(Front(d.undo), m, TRUE) /\ Linked(x, m, Len(d.text), TRUE)
  BY <1>1, <1>2, ChainPops
<1>6. Links(x, m, Len(d.text))
  BY <1>5 DEF Linked
<1>7. Turns(edits, Len(d.text), m)
  BY <1>6 DEF Links
<1>8. u \in Text /\ Len(u) = m
  BY <1>1, <1>4, <1>7, EditsFit
<1>9. Chain(Append(d.redo, x), m, FALSE)
  <2>1. Linked(x, Len(d.text), m, FALSE)
    BY <1>6 DEF Linked
  <2> QED
    BY <1>1, <1>2, <1>3, <2>1, ChainGrows
<1>10. r = [d EXCEPT !.text = u, !.revision = d.revision + 1, !.undo = Front(d.undo),
                     !.undoBytes = d.undoBytes - x.charge, !.redo = Append(d.redo, x), !.groupOpen = FALSE]
  BY DEF Undone
<1> HIDE DEF x, edits, u
<1>11. /\ r \in [text : Text, revision : Nat, undo : Seq(Entry), redo : Seq(Entry),
                 undoBytes : {r.undoBytes}, groupOpen : {FALSE}]
       /\ r.undo = Front(d.undo) /\ r.redo = Append(d.redo, x)
       /\ r.text = u /\ r.revision = d.revision + 1
  <2>1. Append(d.redo, x) \in Seq(Entry) /\ d.revision + 1 \in Nat
    BY <1>1, <1>3
  <2> HIDE DEF r
  <2> QED
    BY <1>1, <1>3, <1>8, <1>10, <2>1
<1> HIDE DEF r
<1>12. IsDoc(r)
  BY <1>5, <1>8, <1>9, <1>11 DEF IsDoc
<1> QED
  BY <1>4, <1>7, <1>11, <1>12 DEF r, x, edits, u

LEMMA RedoneTurns ==
    ASSUME NEW d, IsDoc(d), d.redo # << >>
    PROVE  \E edits \in Edits, m \in Nat :
              /\ Last(d.redo).edits = edits
              /\ Turns(edits, Len(d.text), m)
              /\ IsDoc(Redone(d))
              /\ Redone(d).text = ApplyEdits(d.text, edits)
              /\ Redone(d).revision = d.revision + 1
<1> DEFINE x == Last(d.redo)
           edits == x.edits
           u == ApplyEdits(d.text, edits)
           r == Reentered(d)
<1>1. /\ d \in [text : Text, revision : Nat, undo : Seq(Entry), redo : Seq(Entry),
                undoBytes : {d.undoBytes}, groupOpen : {FALSE}]
      /\ Chain(d.undo, Len(d.text), TRUE) /\ Chain(d.redo, Len(d.text), FALSE)
      /\ Len(d.text) \in Nat /\ d.text \in Text
  BY DocTyped DEF IsDoc
<1>2. d.undo \in Seq(Entry) /\ d.redo \in Seq(Entry)
  BY <1>1
<1>3. Front(d.redo) \in Seq(Entry) /\ x \in Entry
  BY <1>2, FrontTyped
<1>4. edits \in Edits
  BY <1>3 DEF Entry
<1>5. PICK m \in Nat : Chain(Front(d.redo), m, FALSE) /\ Linked(x, m, Len(d.text), FALSE)
  BY <1>1, <1>2, ChainPops
<1>6. Links(x, Len(d.text), m)
  BY <1>5 DEF Linked
<1>7. Turns(edits, Len(d.text), m)
  BY <1>6 DEF Links
<1>8. u \in Text /\ Len(u) = m
  BY <1>1, <1>4, <1>7, EditsFit
<1>9. Chain(Append(d.undo, x), m, TRUE)
  <2>1. Linked(x, Len(d.text), m, TRUE)
    BY <1>6 DEF Linked
  <2> QED
    BY <1>1, <1>2, <1>3, <2>1, ChainGrows
<1>10. r = [d EXCEPT !.text = u, !.revision = d.revision + 1, !.redo = Front(d.redo),
                     !.undo = Append(d.undo, x), !.undoBytes = d.undoBytes + x.charge, !.groupOpen = FALSE]
  BY DEF Reentered
<1> HIDE DEF x, edits, u
<1>11. /\ r \in [text : Text, revision : Nat, undo : Seq(Entry), redo : Seq(Entry),
                 undoBytes : {r.undoBytes}, groupOpen : {FALSE}]
       /\ r.redo = Front(d.redo) /\ r.undo = Append(d.undo, x)
       /\ r.text = u /\ r.revision = d.revision + 1
  <2>1. Append(d.undo, x) \in Seq(Entry) /\ d.revision + 1 \in Nat
    BY <1>1, <1>3
  <2> HIDE DEF r
  <2> QED
    BY <1>1, <1>3, <1>8, <1>10, <2>1
<1> HIDE DEF r
<1>12. IsDoc(r)
  BY <1>5, <1>8, <1>9, <1>11 DEF IsDoc
<1>13. Redone(d) = EnforceUndoBudget(r)
  BY DEF Redone, r
<1> QED
  BY <1>4, <1>7, <1>11, <1>12, <1>13, BudgetKeepsDoc DEF x, edits, u

LEMMA NewDocumentIsDoc == ASSUME NEW t \in Text PROVE IsDoc(NewDocument(t))
<1>1. Len(t) \in Nat
  BY DEF Text
<1>2. Chain(<< >>, Len(t), TRUE) /\ Chain(<< >>, Len(t), FALSE)
  BY <1>1, ChainOfNone
<1> DEFINE d == NewDocument(t)
<1>3. /\ d \in [text : Text, revision : Nat, undo : Seq(Entry), redo : Seq(Entry),
                undoBytes : {d.undoBytes}, groupOpen : {FALSE}]
      /\ d.undo = << >> /\ d.redo = << >> /\ d.text = t
  BY DEF NewDocument
<1> HIDE DEF d
<1>4. IsDoc(d)
  BY <1>2, <1>3 DEF IsDoc
<1> QED
  BY <1>4 DEF d

-----------------------------------------------------------------------------
(* The view, its adapter and the queue beside the document *)

View == [text : Text, editable : BOOLEAN]

Composition == {NoComposition} \cup [base : Nat, from : Nat, to : Nat]

Adapter == [composition : Composition, guard : BOOLEAN, len : Int, revision : Nat,
            pending : BOOLEAN, suppressed : BOOLEAN, astray : BOOLEAN]

Commit == [base : Nat, kind : {"typing"}, edits : Single]

IsPane(s) ==
    /\ s \in [doc : {s.doc}, view : View, adapter : Adapter, queue : Seq(Commit)]
    /\ IsDoc(s.doc)

\* The pump will end the process: the commit that it meets is refused, or is
\* not the last one asked for since the last snapshot was installed.
Doomed(s) ==
    \/ Len(s.queue) >= 2
    \/ Len(s.queue) = 1 /\ (~ s.adapter.pending \/ s.queue[1].base < s.doc.revision)

\* The view is the document, or the document with the commit that waits.
InStep(s) ==
    /\ ~ s.adapter.suppressed
    /\ s.adapter.len = Len(s.view.text)
    /\ s.adapter.revision = s.doc.revision
    /\ s.queue = << >> => s.view.text = s.doc.text
    /\ s.queue # << >> => /\ s.queue[1].base = s.doc.revision
                          /\ s.view.text = Splice(s.doc.text, s.queue[1].edits[1])

Agrees(s) == ~ s.adapter.astray /\ s.view.editable /\ ~ Doomed(s) => InStep(s)

Pane(s) == IsPane(s) /\ Agrees(s)

LEMMA PaneTyped ==
    ASSUME NEW s, IsPane(s)
    PROVE  /\ s.view \in View /\ s.view.text \in Text /\ Len(s.view.text) \in Nat
           /\ s.adapter \in Adapter /\ s.adapter.len \in Int /\ s.adapter.revision \in Nat
           /\ s.adapter.composition \in Composition
           /\ s.queue \in Seq(Commit) /\ Len(s.queue) \in Nat
           /\ (s.queue = << >>) <=> (Len(s.queue) = 0)
           /\ s.queue # << >> => s.queue[1] \in Commit
           /\ IsDoc(s.doc) /\ s.doc.text \in Text /\ Len(s.doc.text) \in Nat
           /\ s.doc.revision \in Nat
<1>1. s.view \in View /\ s.adapter \in Adapter /\ s.queue \in Seq(Commit) /\ IsDoc(s.doc)
  BY DEF IsPane
<1>2. s.view.text \in Text /\ Len(s.view.text) \in Nat
  BY <1>1 DEF View, Text
<1>3. /\ s.adapter.len \in Int /\ s.adapter.revision \in Nat
      /\ s.adapter.composition \in Composition
  BY <1>1 DEF Adapter
<1>4. /\ Len(s.queue) \in Nat /\ ((s.queue = << >>) <=> (Len(s.queue) = 0))
      /\ s.queue # << >> => s.queue[1] \in Commit
  <2> DEFINE q == s.queue
  <2>1. q \in Seq(Commit)
    BY <1>1
  <2> HIDE DEF q
  <2>2. Len(q) \in Nat /\ ((q = << >>) <=> (Len(q) = 0)) /\ (q # << >> => q[1] \in Commit)
    BY <2>1
  <2> QED
    BY <2>2 DEF q
<1> QED
  BY <1>1, <1>2, <1>3, <1>4, DocTyped

\* Installing a snapshot brings the view in step, or dooms what waits.
LEMMA InstalledPane ==
    ASSUME NEW s, IsPane(s)
    PROVE  Pane(Installed(s)) /\ Installed(s).doc = s.doc
<1> DEFINE r == Installed(s)
           v == [s.view EXCEPT !.text = s.doc.text]
           a == [s.adapter EXCEPT !.len = Len(s.doc.text), !.revision = s.doc.revision,
                                  !.pending = FALSE, !.suppressed = FALSE, !.astray = FALSE]
<1>1. /\ s \in [doc : {s.doc}, view : View, adapter : Adapter, queue : Seq(Commit)]
      /\ IsDoc(s.doc) /\ s.doc.text \in Text /\ Len(s.doc.text) \in Nat /\ s.doc.revision \in Nat
  BY PaneTyped DEF IsPane
<1>2. v \in View /\ v.text = s.doc.text
  BY <1>1 DEF View
<1>3. /\ a \in Adapter /\ a.len = Len(s.doc.text) /\ a.revision = s.doc.revision
      /\ a.pending = FALSE /\ a.suppressed = FALSE
  <2>1. s.adapter \in Adapter /\ Len(s.doc.text) \in Int
    BY <1>1, PaneTyped
  <2> QED
    BY <1>1, <2>1 DEF Adapter
<1>4. r = [s EXCEPT !.view = v, !.adapter = a]
  BY <1>1 DEF Installed, View, Adapter
<1> HIDE DEF v, a
<1>5. /\ r \in [doc : {r.doc}, view : View, adapter : Adapter, queue : Seq(Commit)]
      /\ r.doc = s.doc /\ r.view = v /\ r.adapter = a
  BY <1>1, <1>2, <1>3, <1>4
<1> HIDE DEF r
<1>6. IsPane(r)
  BY <1>1, <1>5 DEF IsPane
<1>7. Len(r.queue) \in Nat /\ ((r.queue = << >>) <=> (Len(r.queue) = 0))
  BY <1>6, PaneTyped
<1>8. ~ Doomed(r) => r.queue = << >>
  <2>1. ~ r.adapter.pending
    BY <1>3, <1>5
  <2>2. Len(r.queue) = 1 => Doomed(r)
    BY <2>1 DEF Doomed
  <2>3. Len(r.queue) >= 2 => Doomed(r)
    BY DEF Doomed
  <2> DEFINE n == Len(r.queue)
  <2>4. n \in Nat /\ (n = 0 => r.queue = << >>) /\ (n = 1 => Doomed(r)) /\ (n >= 2 => Doomed(r))
    BY <1>7, <2>2, <2>3
  <2> HIDE DEF n
  <2> QED
    BY <2>4
<1>9. Agrees(r)
  BY <1>2, <1>3, <1>5, <1>8 DEF Agrees, InStep
<1> QED
  BY <1>5, <1>6, <1>9 DEF Pane, r

\* A change of the document that the view is told: what waited is doomed, and
\* a view that was in step still is.
LEMMA ChangedPane ==
    ASSUME NEW s, Pane(s), NEW d, IsDoc(d), NEW edits \in Edits, NEW m,
           Turns(edits, Len(s.doc.text), m),
           d.text = ApplyEdits(s.doc.text, edits), d.revision = s.doc.revision + 1
    PROVE  /\ Pane(Changed([s EXCEPT !.doc = d], edits))
           /\ Changed([s EXCEPT !.doc = d], edits).doc = d
<1> DEFINE u == [s EXCEPT !.doc = d]
           ends == /\ u.adapter.composition # NoComposition
                   /\ u.adapter.composition.base # u.doc.revision
           a == [u.adapter EXCEPT !.composition = IF ends THEN NoComposition ELSE @,
                                  !.guard = @ \/ ends]
           r == Changed(u, edits)
<1>1. /\ s \in [doc : {s.doc}, view : View, adapter : Adapter, queue : Seq(Commit)]
      /\ IsPane(s) /\ Agrees(s)
  BY DEF Pane, IsPane
<1>2. /\ s.view \in View /\ s.view.text \in Text /\ Len(s.view.text) \in Nat
      /\ s.adapter \in Adapter /\ s.adapter.len \in Int
      /\ s.queue \in Seq(Commit) /\ Len(s.queue) \in Nat
      /\ (s.queue = << >>) <=> (Len(s.queue) = 0)
      /\ s.doc.text \in Text /\ s.doc.revision \in Nat /\ d.revision \in Nat
  BY <1>1, PaneTyped, DocTyped
<1>3. /\ u \in [doc : {u.doc}, view : View, adapter : Adapter, queue : Seq(Commit)]
      /\ u.doc = d /\ u.view = s.view /\ u.adapter = s.adapter /\ u.queue = s.queue
  BY <1>1
<1> HIDE DEF u
<1>4. /\ a \in Adapter /\ a.len = s.adapter.len /\ a.pending = s.adapter.pending
      /\ a.astray = s.adapter.astray
  <2>1. u.adapter \in Adapter /\ ends \in BOOLEAN
    BY <1>2, <1>3
  <2> HIDE DEF ends
  <2> QED
    BY <1>3, <2>1 DEF Adapter, Composition
<1> HIDE DEF a
<1>5. ASSUME s.view.editable, ~ s.adapter.astray, Len(s.queue) <= 1,
             Len(s.queue) = 1 => s.adapter.pending /\ ~ (s.queue[1].base < d.revision)
      PROVE  /\ s.queue = << >> /\ s.view.text = s.doc.text
             /\ s.adapter.len = Len(s.view.text) /\ ~ s.adapter.suppressed
  <2>1. Len(s.queue) = 1 => s.queue[1].base \in Nat
    BY <1>1, <1>2, PaneTyped DEF Commit
  <2>2. ~ Doomed(s)
    BY <1>2, <1>5, <2>1 DEF Doomed
  <2>3. InStep(s)
    BY <1>1, <1>5, <2>2 DEF Agrees
  <2>4. s.queue = << >>
    <3> SUFFICES ASSUME s.queue # << >> PROVE FALSE
      OBVIOUS
    <3>1. Len(s.queue) = 1
      <4> DEFINE n == Len(s.queue)
      <4>1. n \in Nat /\ n # 0 /\ n <= 1
        BY <1>2, <1>5
      <4> HIDE DEF n
      <4>2. n = 1
        BY <4>1
      <4> QED
        BY <4>2 DEF n
    <3>2. s.queue[1].base = s.doc.revision
      BY <2>3 DEF InStep
    <3> QED
      BY <1>2, <1>5, <3>1, <3>2
  <2> QED
    BY <2>3, <2>4 DEF InStep
<1>0. \A k \in DOMAIN edits : edits[k].from <= edits[k].to /\ edits[k].to <= Len(s.doc.text)
  BY DEF Turns
<1>6. CASE ~ ChangeFits(u, edits)
  <2> DEFINE b == [a EXCEPT !.suppressed = TRUE]
  <2>1. r = [u EXCEPT !.adapter = b]
    BY <1>6 DEF Changed, a
  <2>2. b \in Adapter /\ b.pending = s.adapter.pending /\ b.astray = s.adapter.astray
    BY <1>4 DEF Adapter
  <2> HIDE DEF b
  <2>3. /\ r \in [doc : {r.doc}, view : View, adapter : Adapter, queue : Seq(Commit)]
        /\ r.doc = d /\ r.view = s.view /\ r.adapter = b /\ r.queue = s.queue
    BY <1>3, <2>1, <2>2
  <2> HIDE DEF r
  <2>4. PICK k \in DOMAIN edits : ~ (edits[k].to <= s.adapter.len)
    BY <1>3, <1>6 DEF ChangeFits, ToSet
  <2>5. Agrees(r)
    <3> SUFFICES ASSUME ~ r.adapter.astray, r.view.editable, ~ Doomed(r) PROVE FALSE
      BY DEF Agrees
    <3>1. /\ Len(s.queue) <= 1
          /\ Len(s.queue) = 1 => s.adapter.pending /\ ~ (s.queue[1].base < d.revision)
      BY <1>2, <2>2, <2>3 DEF Doomed
    <3>2. s.adapter.len = Len(s.doc.text)
      BY <1>5, <2>2, <2>3, <3>1
    <3> QED
      BY <1>0, <2>4, <3>2
  <2>6. IsPane(r)
    BY <2>3 DEF IsPane
  <2> QED
    BY <2>3, <2>5, <2>6 DEF Pane, r, u
<1>7. CASE ChangeFits(u, edits)
  <2> DEFINE w == Followed(s.view.text, edits)
             v == [s.view EXCEPT !.text = w]
             l == Sum(Delta, edits)
             b == [a EXCEPT !.suppressed = FALSE, !.len = @ + l, !.revision = u.doc.revision]
  <2>1. r = [u EXCEPT !.view = v, !.adapter = b]
    BY <1>3, <1>7 DEF Changed, a, View
  <2>3. w \in Text
    BY <1>0, <1>2, FollowedTyped
  <2>4. l \in Int
    BY EditsTyped
  <2> HIDE DEF w, l
  <2>5. v \in View /\ v.text = w /\ v.editable = s.view.editable
    BY <1>2, <2>3 DEF View
  <2>7. /\ b \in Adapter /\ b.pending = s.adapter.pending /\ b.astray = s.adapter.astray
        /\ ~ b.suppressed /\ b.len = s.adapter.len + l /\ b.revision = d.revision
    <3>1. u.doc.revision = d.revision
      BY <1>3
    <3>2. s.adapter.len + l \in Int
      BY <1>2, <2>4
    <3>3. b = [a EXCEPT !.suppressed = FALSE, !.len = s.adapter.len + l, !.revision = d.revision]
      BY <1>4, <3>1
    <3> HIDE DEF b
    <3>4. a \in Adapter /\ s.adapter.len + l \in Int /\ d.revision \in Nat
      BY <1>2, <1>4, <3>2
    <3>5. /\ b \in Adapter /\ b.pending = a.pending /\ b.astray = a.astray
          /\ b.suppressed = FALSE /\ b.len = s.adapter.len + l /\ b.revision = d.revision
      BY <3>3, <3>4 DEF Adapter
    <3> QED
      BY <1>4, <3>5
  <2> HIDE DEF b, v
  <2>8. /\ r \in [doc : {r.doc}, view : View, adapter : Adapter, queue : Seq(Commit)]
        /\ r.doc = d /\ r.view = v /\ r.adapter = b /\ r.queue = s.queue
    BY <1>3, <2>1, <2>5, <2>7
  <2> HIDE DEF r
  <2>9. Agrees(r)
    <3> SUFFICES ASSUME ~ r.adapter.astray, r.view.editable, ~ Doomed(r) PROVE InStep(r)
      BY DEF Agrees
    <3>1. /\ Len(s.queue) <= 1
          /\ Len(s.queue) = 1 => s.adapter.pending /\ ~ (s.queue[1].base < d.revision)
      BY <1>2, <2>7, <2>8 DEF Doomed
    <3>2. /\ s.queue = << >> /\ s.view.text = s.doc.text /\ s.adapter.len = Len(s.view.text)
      BY <1>5, <2>5, <2>7, <2>8, <3>1
    <3>3. w = d.text /\ Len(w) = Len(s.doc.text) + l
      <4>1. ApplyEdits(s.doc.text, edits) = w /\ Len(ApplyEdits(s.doc.text, edits)) = m
        BY <1>2, <3>2, EditsFit DEF w
      <4>2. m = Len(s.doc.text) + l
        BY DEF Turns, l
      <4> QED
        BY <4>1, <4>2
    <3> QED
      BY <2>5, <2>7, <2>8, <3>2, <3>3 DEF InStep
  <2>10. IsPane(r)
    BY <2>8 DEF IsPane
  <2> QED
    BY <2>8, <2>9, <2>10 DEF Pane, r, u
<1> QED
  BY <1>6, <1>7 DEF u

LEMMA FollowSharedPane ==
    ASSUME NEW s, Pane(s), NEW d, IsDoc(d), NEW edits \in Edits, NEW m,
           Turns(edits, Len(s.doc.text), m),
           d.text = ApplyEdits(s.doc.text, edits), d.revision = s.doc.revision + 1
    PROVE  Pane(FollowShared([s EXCEPT !.doc = d], edits))
<1> DEFINE r == Changed([s EXCEPT !.doc = d], edits)
<1>1. Pane(r)
  BY ChangedPane
<1> HIDE DEF r
<1>2. Pane(Installed(r))
  BY <1>1, InstalledPane DEF Pane
<1> QED
  BY <1>1, <1>2 DEF FollowShared, r

\* What insert-text or delete-range leaves.
Seen(s, e) == ~ s.adapter.suppressed /\ e.to <= s.adapter.len

Typed(base, e) == [base |-> base, kind |-> "typing", edits |-> <<e>>]

ComposedAt(c, e) == [from |-> c.from, to |-> c.to, with |-> e.with]

LEMMA TypedIsCommit ==
    ASSUME NEW base \in Nat, NEW e \in Edit PROVE Typed(base, e) \in Commit
BY DEF Typed, Commit, Single

LEMMA NativeFields ==
    ASSUME NEW s, IsPane(s), NEW e \in Edit, e.from <= e.to, e.to <= Len(s.view.text),
           NEW n, n = NativeEdit(s, e)
    PROVE  /\ IsPane(n) /\ n.doc = s.doc
           /\ n.view.text = Splice(s.view.text, e) /\ n.view.editable = s.view.editable
           /\ Len(n.view.text) = Len(s.view.text) + Delta(e) /\ Delta(e) \in Int
           /\ n.adapter.astray = s.adapter.astray
           /\ n.adapter.suppressed = s.adapter.suppressed
           /\ n.adapter.revision = s.adapter.revision
           /\ ~ Seen(s, e) => n.queue = s.queue /\ n.adapter = s.adapter
           /\ Seen(s, e) => n.adapter.len = s.adapter.len + Delta(e)
           /\ Seen(s, e) /\ s.adapter.composition = NoComposition
                => n.queue = Append(s.queue, Typed(s.adapter.revision, e)) /\ n.adapter.pending
                   /\ n.adapter.composition = NoComposition
           /\ Seen(s, e) /\ s.adapter.composition # NoComposition /\ e.with = << >>
                => n.queue = s.queue /\ n.adapter.pending = s.adapter.pending
                   /\ n.adapter.composition = s.adapter.composition
           /\ Seen(s, e) /\ s.adapter.composition # NoComposition /\ e.with # << >>
                => n.queue = Append(s.queue, Typed(s.adapter.composition.base,
                                                   ComposedAt(s.adapter.composition, e)))
                   /\ n.adapter.pending
<1> DEFINE c == s.adapter.composition
           v == [s.view EXCEPT !.text = Splice(@, e)]
           a == [s.adapter EXCEPT !.len = @ + Delta(e)]
           b == [a EXCEPT !.pending = TRUE, !.composition = NoComposition]
           own == Append(s.queue, Typed(s.adapter.revision, e))
           composed == Append(s.queue, Typed(c.base, ComposedAt(c, e)))
<1>1. /\ s \in [doc : {s.doc}, view : View, adapter : Adapter, queue : Seq(Commit)]
      /\ IsDoc(s.doc)
  BY DEF IsPane
<1>2. /\ s.view \in View /\ s.view.text \in Text /\ s.adapter \in Adapter /\ s.adapter.len \in Int
      /\ s.adapter.revision \in Nat /\ c \in Composition /\ s.queue \in Seq(Commit)
  BY PaneTyped
<1>3. /\ Splice(s.view.text, e) \in Text /\ Delta(e) \in Int
      /\ Len(Splice(s.view.text, e)) = Len(s.view.text) + Delta(e)
  BY <1>2, SpliceLength DEF Edit
<1>4. v \in View /\ v.text = Splice(s.view.text, e) /\ v.editable = s.view.editable
  BY <1>2, <1>3 DEF View
<1>5. /\ a \in Adapter /\ a.len = s.adapter.len + Delta(e) /\ a.pending = s.adapter.pending
      /\ a.astray = s.adapter.astray /\ a.suppressed = s.adapter.suppressed
      /\ a.revision = s.adapter.revision /\ a.composition = c
  <2>1. s.adapter.len + Delta(e) \in Int
    BY <1>2, <1>3
  <2> QED
    BY <1>2, <2>1 DEF Adapter
<1>6. /\ b \in Adapter /\ b.len = a.len /\ b.pending = TRUE /\ b.astray = a.astray
      /\ b.suppressed = a.suppressed /\ b.revision = a.revision /\ b.composition = NoComposition
  <2> HIDE DEF a
  <2> QED
    BY <1>5 DEF Adapter, Composition
<1>7. own \in Seq(Commit)
  <2>1. Typed(s.adapter.revision, e) \in Commit
    BY <1>2, TypedIsCommit
  <2> QED
    BY <1>2, <2>1
<1>8. c # NoComposition => composed \in Seq(Commit)
  <2> SUFFICES ASSUME c # NoComposition PROVE composed \in Seq(Commit)
    OBVIOUS
  <2>1. c.base \in Nat /\ c.from \in Nat /\ c.to \in Nat
    BY <1>2 DEF Composition
  <2>2. ComposedAt(c, e) \in Edit
    BY <2>1 DEF ComposedAt, Edit
  <2>3. Typed(c.base, ComposedAt(c, e)) \in Commit
    BY <2>1, <2>2, TypedIsCommit
  <2> QED
    BY <1>2, <2>3
<1>9. n = IF ~ Seen(s, e) THEN [s EXCEPT !.view = v]
          ELSE IF c = NoComposition THEN [s EXCEPT !.view = v, !.adapter = b, !.queue = own]
          ELSE IF e.with = << >> THEN [s EXCEPT !.view = v, !.adapter = a]
          ELSE [s EXCEPT !.view = v, !.adapter = b, !.queue = composed]
  BY <1>1 DEF NativeEdit, Seen, Typed, ComposedAt, View, Adapter
<1> HIDE DEF v, a, b, own, composed, c
<1>10. /\ n \in [doc : {n.doc}, view : View, adapter : Adapter, queue : Seq(Commit)]
       /\ n.doc = s.doc /\ n.view = v
       /\ ~ Seen(s, e) => n.queue = s.queue /\ n.adapter = s.adapter
       /\ Seen(s, e) /\ c = NoComposition => n.queue = own /\ n.adapter = b
       /\ Seen(s, e) /\ c # NoComposition /\ e.with = << >> => n.queue = s.queue /\ n.adapter = a
       /\ Seen(s, e) /\ c # NoComposition /\ e.with # << >> => n.queue = composed /\ n.adapter = b
  <2>1. CASE ~ Seen(s, e)
    BY <1>1, <1>4, <1>9, <2>1
  <2>2. CASE Seen(s, e) /\ c = NoComposition
    BY <1>1, <1>4, <1>6, <1>7, <1>9, <2>2
  <2>3. CASE Seen(s, e) /\ c # NoComposition /\ e.with = << >>
    BY <1>1, <1>4, <1>5, <1>9, <2>3
  <2>4. CASE Seen(s, e) /\ c # NoComposition /\ e.with # << >>
    BY <1>1, <1>4, <1>6, <1>8, <1>9, <2>4
  <2> QED
    BY <2>1, <2>2, <2>3, <2>4
<1>11. IsPane(n)
  BY <1>1, <1>10 DEF IsPane
<1>12. /\ n.view.text = Splice(s.view.text, e) /\ n.view.editable = s.view.editable
       /\ Len(n.view.text) = Len(s.view.text) + Delta(e)
  BY <1>3, <1>4, <1>10
<1>13. /\ n.adapter.astray = s.adapter.astray
       /\ n.adapter.suppressed = s.adapter.suppressed
       /\ n.adapter.revision = s.adapter.revision
       /\ Seen(s, e) => n.adapter.len = s.adapter.len + Delta(e)
  BY <1>5, <1>6, <1>10
<1>14. /\ Seen(s, e) /\ c = NoComposition
            => n.queue = own /\ n.adapter.pending /\ n.adapter.composition = NoComposition
       /\ Seen(s, e) /\ c # NoComposition /\ e.with = << >>
            => n.queue = s.queue /\ n.adapter.pending = s.adapter.pending /\ n.adapter.composition = c
       /\ Seen(s, e) /\ c # NoComposition /\ e.with # << >> => n.queue = composed /\ n.adapter.pending
  BY <1>5, <1>6, <1>10
<1> QED
  BY <1>3, <1>10, <1>11, <1>12, <1>13, <1>14 DEF own, composed, c

LEMMA NativeQueue ==
    ASSUME NEW s, IsPane(s), NEW e \in Edit, e.from <= e.to, e.to <= Len(s.view.text),
           NEW n, n = NativeEdit(s, e)
    PROVE  \/ n.queue = s.queue /\ n.adapter.pending = s.adapter.pending
           \/ Len(n.queue) = Len(s.queue) + 1
<1>1. s.queue \in Seq(Commit)
  BY PaneTyped
<1>2. ASSUME NEW x PROVE Len(Append(s.queue, x)) = Len(s.queue) + 1
  BY <1>1
<1>3. CASE ~ Seen(s, e)
  BY <1>3, NativeFields
<1>4. CASE Seen(s, e) /\ s.adapter.composition = NoComposition
  BY <1>2, <1>4, NativeFields
<1>5. CASE Seen(s, e) /\ s.adapter.composition # NoComposition /\ e.with = << >>
  BY <1>5, NativeFields
<1>6. CASE Seen(s, e) /\ s.adapter.composition # NoComposition /\ e.with # << >>
  BY <1>2, <1>6, NativeFields
<1> QED
  BY <1>3, <1>4, <1>5, <1>6

\* A key in a view that is in step asks for what it did to the view; in any
\* other, or where something waits already, it leaves what waits doomed.
LEMMA KeyedPane ==
    ASSUME NEW s, Pane(s), NEW from \in Nat, NEW to \in Nat, NEW word \in Text,
           from <= to, to <= Len(s.view.text),
           from # to \/ word # << >>,
           s.adapter.composition # NoComposition => word # << >>
    PROVE  Pane(Keyed(s, from, to, word)) /\ Keyed(s, from, to, word).doc = s.doc
<1> DEFINE c == s.adapter.composition
           good == \/ c = NoComposition
                   \/ c.from = from /\ c.to = to /\ c.base = s.adapter.revision
           b == IF good THEN s ELSE [s EXCEPT !.adapter.astray = TRUE]
           del == [from |-> from, to |-> to, with |-> << >>]
           ins == [from |-> from, to |-> from, with |-> word]
           d == IF from = to THEN b ELSE NativeEdit(b, del)
           k == IF word = << >> THEN d ELSE NativeEdit(d, ins)
<1>1. /\ s \in [doc : {s.doc}, view : View, adapter : Adapter, queue : Seq(Commit)]
      /\ IsPane(s) /\ Agrees(s)
  BY DEF Pane, IsPane
<1>2. /\ s.adapter \in Adapter /\ Len(s.view.text) \in Nat /\ s.view.text \in Text
      /\ s.queue \in Seq(Commit) /\ Len(s.queue) \in Nat
      /\ ((s.queue = << >>) <=> (Len(s.queue) = 0)) /\ s.adapter.len \in Int
  BY <1>1, PaneTyped
<1>3. Keyed(s, from, to, word) = k
  BY DEF Keyed
<1>4. /\ IsPane(b) /\ b.doc = s.doc /\ b.view = s.view /\ b.queue = s.queue
      /\ b.adapter.pending = s.adapter.pending
      /\ ~ b.adapter.astray => b = s /\ good
  <2>1. CASE good
    BY <1>1, <2>1
  <2>2. CASE ~ good
    <3> DEFINE a == [s.adapter EXCEPT !.astray = TRUE]
    <3>1. a \in Adapter /\ a.pending = s.adapter.pending /\ a.astray = TRUE
      BY <1>2 DEF Adapter
    <3>2. b = [s EXCEPT !.adapter = a]
      BY <1>1, <2>2
    <3> HIDE DEF a, b
    <3>3. /\ b \in [doc : {b.doc}, view : View, adapter : Adapter, queue : Seq(Commit)]
          /\ b.doc = s.doc /\ b.view = s.view /\ b.queue = s.queue /\ b.adapter = a
      BY <1>1, <3>1, <3>2
    <3> QED
      BY <1>1, <3>1, <3>3 DEF IsPane
  <2> QED
    BY <2>1, <2>2
<1>5. /\ del \in Edit /\ del.from = from /\ del.to = to /\ del.with = << >>
      /\ ins \in Edit /\ ins.from = from /\ ins.to = from /\ ins.with = word
  BY DEF Edit, Text
<1>6. Delta(del) = from - to
  BY <1>5 DEF Delta, Span
<1> HIDE DEF b, del, ins, good, c
<1>7. /\ IsPane(d) /\ d.doc = s.doc /\ d.view.editable = s.view.editable
      /\ d.adapter.astray = b.adapter.astray
      /\ from <= Len(d.view.text)
      /\ \/ d.queue = s.queue /\ d.adapter.pending = s.adapter.pending
         \/ Len(d.queue) = Len(s.queue) + 1
  <2>1. CASE from = to
    BY <1>4, <2>1
  <2>2. CASE from # to
    <3>1. d = NativeEdit(b, del) /\ del.from <= del.to /\ del.to <= Len(b.view.text)
      BY <1>4, <1>5, <2>2
    <3> HIDE DEF d
    <3>2. /\ IsPane(d) /\ d.doc = b.doc /\ d.view.editable = b.view.editable
          /\ d.adapter.astray = b.adapter.astray
          /\ Len(d.view.text) = Len(b.view.text) + Delta(del)
      BY <1>4, <1>5, <3>1, NativeFields
    <3>3. \/ d.queue = b.queue /\ d.adapter.pending = b.adapter.pending
          \/ Len(d.queue) = Len(b.queue) + 1
      BY <1>4, <1>5, <3>1, NativeQueue
    <3>4. from <= Len(d.view.text)
      BY <1>2, <1>4, <1>6, <3>2
    <3> QED
      BY <1>4, <3>2, <3>3, <3>4
  <2> QED
    BY <2>1, <2>2
<1> HIDE DEF d
<1>8. /\ IsPane(k) /\ k.doc = s.doc /\ k.view.editable = s.view.editable
      /\ k.adapter.astray = b.adapter.astray
      /\ \/ k.queue = d.queue /\ k.adapter.pending = d.adapter.pending
         \/ Len(k.queue) = Len(d.queue) + 1
  <2>1. CASE word = << >>
    BY <1>7, <2>1
  <2>2. CASE word # << >>
    <3>1. k = NativeEdit(d, ins) /\ ins.from <= ins.to /\ ins.to <= Len(d.view.text)
      BY <1>5, <1>7, <2>2
    <3> HIDE DEF k
    <3>2. /\ IsPane(k) /\ k.doc = d.doc /\ k.view.editable = d.view.editable
          /\ k.adapter.astray = d.adapter.astray
      BY <1>5, <1>7, <3>1, NativeFields
    <3>3. \/ k.queue = d.queue /\ k.adapter.pending = d.adapter.pending
          \/ Len(k.queue) = Len(d.queue) + 1
      BY <1>5, <1>7, <3>1, NativeQueue
    <3> QED
      BY <1>7, <3>2, <3>3
  <2> QED
    BY <2>1, <2>2
<1>9. k = IF word = << >> THEN d ELSE NativeEdit(d, ins)
  OBVIOUS
<1> HIDE DEF k
<1>10. /\ Len(d.queue) \in Nat /\ Len(k.queue) \in Nat
       /\ Len(k.queue) >= Len(d.queue) /\ Len(d.queue) >= Len(s.queue)
  <2>1. Len(d.queue) \in Nat /\ Len(k.queue) \in Nat
    BY <1>7, <1>8, PaneTyped
  <2> QED
    BY <1>2, <1>7, <1>8, <2>1
<1>11. ASSUME ~ k.adapter.astray, k.view.editable, ~ Doomed(k) PROVE InStep(k)
  <2>1. Len(k.queue) <= 1
    BY <1>10, <1>11 DEF Doomed
  <2>2. b = s /\ good /\ ~ s.adapter.astray /\ s.view.editable
    BY <1>4, <1>8, <1>11
  <2>3. d = IF from = to THEN s ELSE NativeEdit(s, del)
    BY <2>2 DEF d
  <2>4. InStep(s)
    <3> SUFFICES ASSUME Doomed(s) PROVE FALSE
      BY <1>1, <2>2 DEF Agrees
    <3>1. Len(s.queue) = 1
      BY <1>2, <1>10, <2>1 DEF Doomed
    <3>2. k.queue = s.queue /\ k.adapter.pending = s.adapter.pending
      <4> DEFINE m == Len(d.queue)
      <4>5. m \in Nat /\ m <= 1
        BY <1>10, <2>1
      <4> HIDE DEF m
      <4>6. m # 1 + 1
        BY <4>5
      <4>1. ~ (Len(d.queue) = Len(s.queue) + 1)
        BY <3>1, <4>6 DEF m
      <4>2. d.queue = s.queue /\ d.adapter.pending = s.adapter.pending
        BY <1>7, <4>1
      <4>3. ~ (Len(k.queue) = Len(d.queue) + 1)
        BY <1>10, <2>1, <3>1
      <4> QED
        BY <1>8, <4>2, <4>3
    <3>3. Doomed(k)
      BY <1>8, <3>2 DEF Doomed
    <3> QED
      BY <1>11, <3>3
  <2>5. /\ ~ s.adapter.suppressed /\ s.adapter.len = Len(s.view.text)
        /\ s.adapter.revision = s.doc.revision
    BY <2>4 DEF InStep
  <2>6. Seen(s, del) /\ Seen(s, ins)
    BY <1>2, <1>5, <2>5 DEF Seen
  <2>7. CASE from # to
    <3>1. /\ IsPane(s) /\ del.from <= del.to /\ del.to <= Len(s.view.text)
          /\ d = NativeEdit(s, del)
      BY <1>1, <1>5, <2>3, <2>7
    <3>2. /\ d.view.text = Splice(s.view.text, del)
          /\ Len(d.view.text) = Len(s.view.text) + Delta(del)
          /\ d.adapter.suppressed = s.adapter.suppressed
          /\ d.adapter.revision = s.adapter.revision
          /\ d.adapter.len = s.adapter.len + Delta(del)
      BY <1>5, <2>6, <3>1, NativeFields
    <3>7. ASSUME c = NoComposition
          PROVE  d.queue = Append(s.queue, Typed(s.adapter.revision, del))
      BY <1>5, <2>6, <3>1, <3>7, NativeFields DEF c
    <3>8. ASSUME c # NoComposition
          PROVE  d.queue = s.queue /\ d.adapter.composition = c
      BY <1>5, <2>6, <3>1, <3>8, NativeFields DEF c
    <3>9. ASSUME c = NoComposition PROVE d.adapter.composition = NoComposition
      BY <1>5, <2>6, <3>1, <3>9, NativeFields DEF c
    <3>3. Seen(d, ins)
      BY <1>2, <1>5, <1>6, <2>5, <3>2 DEF Seen
    <3>4. word # << >> =>
            /\ ins.from <= ins.to /\ ins.to <= Len(d.view.text)
            /\ k = NativeEdit(d, ins)
      BY <1>5, <1>7, <1>9
    <3>5. CASE c = NoComposition
      <4>1. Len(d.queue) = Len(s.queue) + 1
        BY <1>2, <3>5, <3>7
      <4>2. word = << >>
        <5> SUFFICES ASSUME word # << >> PROVE FALSE
          OBVIOUS
        <5>1. k.queue = Append(d.queue, Typed(d.adapter.revision, ins))
          BY <1>5, <1>7, <3>3, <3>4, <3>5, <3>9, NativeFields
        <5>2. d.queue \in Seq(Commit)
          BY <1>7, PaneTyped
        <5>3. Len(k.queue) = Len(d.queue) + 1
          BY <5>1, <5>2
        <5> QED
          BY <1>2, <1>10, <2>1, <4>1, <5>3
      <4>3. k = d
        BY <1>9, <4>2
      <4>4. s.queue = << >>
        BY <1>2, <1>10, <2>1, <4>1
      <4>5. k.queue = <<Typed(s.adapter.revision, del)>>
        BY <3>5, <3>7, <4>3, <4>4
      <4>6. k.queue # << >> /\ k.queue[1].base = s.adapter.revision /\ k.queue[1].edits[1] = del
        BY <4>5 DEF Typed
      <4>7. s.view.text = s.doc.text
        BY <2>4, <4>4 DEF InStep
      <4> QED
        BY <1>8, <2>5, <3>2, <4>3, <4>6, <4>7 DEF InStep
    <3>6. CASE c # NoComposition
      <4>1. word # << >> /\ c.from = from /\ c.to = to /\ c.base = s.adapter.revision
        BY <2>2, <3>6 DEF good, c
      <4>2. d.adapter.composition = c /\ d.queue = s.queue
        BY <3>6, <3>8
      <4>0. /\ IsPane(d) /\ ins \in Edit /\ ins.from <= ins.to /\ ins.to <= Len(d.view.text)
            /\ k = NativeEdit(d, ins) /\ ins.with # << >>
        BY <1>5, <1>7, <3>4, <4>1
      <4>9. k.queue = Append(s.queue, Typed(c.base, ComposedAt(c, ins)))
        BY <3>3, <3>6, <4>0, <4>2, NativeFields
      <4>3. /\ k.view.text = Splice(d.view.text, ins)
            /\ Len(k.view.text) = Len(d.view.text) + Delta(ins)
            /\ k.adapter.suppressed = d.adapter.suppressed
            /\ k.adapter.revision = d.adapter.revision
            /\ k.adapter.len = d.adapter.len + Delta(ins)
        BY <3>3, <4>0, NativeFields
      <4>4. s.queue = << >>
        <5>1. Len(k.queue) = Len(s.queue) + 1
          BY <1>2, <4>9
        <5> QED
          BY <1>2, <2>1, <5>1
      <4>5. k.queue = <<Typed(c.base, ComposedAt(c, ins))>>
        BY <4>4, <4>9
      <4>6. /\ k.queue # << >> /\ k.queue[1].base = s.adapter.revision
            /\ k.queue[1].edits[1] = ComposedAt(c, ins)
        BY <4>1, <4>5 DEF Typed
      <4>7. s.view.text = s.doc.text
        BY <2>4, <4>4 DEF InStep
      <4>8. k.view.text = Splice(s.view.text, ComposedAt(c, ins))
        <5> DEFINE both == ComposedAt(c, ins)
        <5>1. both \in Edit /\ both.from = from /\ both.to = to /\ both.with = word
          BY <1>5, <4>1 DEF ComposedAt, Edit
        <5> HIDE DEF both
        <5>2. Splice(Splice(s.view.text, del), ins) = Splice(s.view.text, both)
          BY <1>2, <1>5, <5>1, DeleteThenInsert
        <5> QED
          BY <3>2, <4>3, <5>2 DEF both
      <4> QED
        BY <1>8, <2>5, <3>2, <4>3, <4>6, <4>7, <4>8 DEF InStep
    <3> QED
      BY <3>5, <3>6
  <2>8. CASE from = to
    <3>1. d = s /\ word # << >> /\ k = NativeEdit(s, ins)
      BY <1>9, <2>3, <2>8
    <3>2. IsPane(s) /\ ins.from <= ins.to /\ ins.to <= Len(s.view.text)
      BY <1>1, <1>5
    <3> DEFINE base == IF c = NoComposition THEN s.adapter.revision ELSE c.base
               e == IF c = NoComposition THEN ins ELSE ComposedAt(c, ins)
    <3>3. /\ k.queue = Append(s.queue, Typed(base, e))
          /\ k.view.text = Splice(s.view.text, ins)
          /\ Len(k.view.text) = Len(s.view.text) + Delta(ins)
          /\ k.adapter.suppressed = s.adapter.suppressed
          /\ k.adapter.revision = s.adapter.revision
          /\ k.adapter.len = s.adapter.len + Delta(ins)
      <4> HIDE DEF base, e
      <4>0. /\ IsPane(s) /\ ins \in Edit /\ ins.from <= ins.to /\ ins.to <= Len(s.view.text)
            /\ k = NativeEdit(s, ins) /\ Seen(s, ins)
        BY <1>5, <2>6, <3>1, <3>2
      <4>1. /\ k.view.text = Splice(s.view.text, ins)
            /\ Len(k.view.text) = Len(s.view.text) + Delta(ins)
            /\ k.adapter.suppressed = s.adapter.suppressed
            /\ k.adapter.revision = s.adapter.revision
            /\ k.adapter.len = s.adapter.len + Delta(ins)
        BY <4>0, NativeFields
      <4>2. CASE c = NoComposition
        <5>1. k.queue = Append(s.queue, Typed(s.adapter.revision, ins))
          BY <4>0, <4>2, NativeFields DEF c
        <5>2. base = s.adapter.revision /\ e = ins
          BY <4>2 DEF base, e
        <5> QED
          BY <4>1, <5>1, <5>2
      <4>3. CASE c # NoComposition
        <5>0. ins.with # << >>
          BY <1>5, <3>1
        <5>1. k.queue = Append(s.queue, Typed(c.base, ComposedAt(c, ins)))
          BY <4>0, <4>3, <5>0, NativeFields DEF c
        <5>2. base = c.base /\ e = ComposedAt(c, ins)
          BY <4>3 DEF base, e
        <5> QED
          BY <4>1, <5>1, <5>2
      <4> QED
        BY <4>2, <4>3
    <3>4. base = s.adapter.revision /\ e = ins
      <4>1. CASE c = NoComposition
        BY <4>1
      <4>2. CASE c # NoComposition
        <5>1. c.from = from /\ c.to = from /\ c.base = s.adapter.revision
          BY <2>2, <2>8, <4>2 DEF good
        <5> QED
          BY <1>5, <4>2, <5>1 DEF ComposedAt, ins
      <4> QED
        BY <4>1, <4>2
    <3> HIDE DEF base, e
    <3>5. s.queue = << >>
      <4>1. Len(k.queue) = Len(s.queue) + 1
        BY <1>2, <3>3
      <4> QED
        BY <1>2, <2>1, <4>1
    <3>6. k.queue = <<Typed(s.adapter.revision, ins)>>
      BY <3>3, <3>4, <3>5
    <3>7. k.queue # << >> /\ k.queue[1].base = s.adapter.revision /\ k.queue[1].edits[1] = ins
      BY <3>6 DEF Typed
    <3>8. s.view.text = s.doc.text
      BY <2>4, <3>5 DEF InStep
    <3> QED
      BY <1>8, <2>5, <3>3, <3>7, <3>8 DEF InStep
  <2> QED
    BY <2>7, <2>8
<1> QED
  BY <1>3, <1>8, <1>11 DEF Pane, Agrees

\* A commit that is heard makes the document what the view is already.
LEMMA CommittedPane ==
    ASSUME Pane(Shown), Heard
    PROVE  Pane(Committed)
<1> DEFINE s == Shown
           x == queue[1]
           e == x.edits[1]
           now == Applied(doc, x, NoContext)
           a == [adapter EXCEPT !.pending = FALSE, !.revision = now.revision]
           r == Committed
<1>1. /\ s.doc = doc /\ s.view = view /\ s.adapter = adapter /\ s.queue = queue
      /\ s = [doc |-> doc, view |-> view, adapter |-> adapter, queue |-> queue]
  BY DEF Shown
<1>2. /\ view \in View /\ view.text \in Text /\ adapter \in Adapter /\ queue \in Seq(Commit)
      /\ IsDoc(doc) /\ Len(view.text) \in Nat /\ Len(doc.text) \in Nat
  BY <1>1, PaneTyped DEF Pane
<1>3. Len(queue) = 1 /\ queue # << >> /\ adapter.pending /\ Accepts(doc, x)
  <2>1. Len(queue) = 1 /\ adapter.pending /\ Accepts(doc, x)
    BY DEF Heard
  <2>2. Len(<< >>) = 0 /\ 1 # 0
    OBVIOUS
  <2> QED
    BY <2>1, <2>2
<1>4. x \in Commit /\ x.edits = <<e>> /\ e \in Edit /\ x.kind = "typing"
  <2>1. x \in Commit
    BY <1>2, <1>3
  <2>2. x.edits \in Single /\ x.kind = "typing"
    BY <2>1 DEF Commit
  <2> QED
    BY <2>1, <2>2 DEF Single
<1>5. x.base = doc.revision /\ e.from <= e.to /\ e.to <= Len(doc.text)
  <2>1. x.base = doc.revision /\ ValidEdits(doc.text, x.edits)
    BY <1>3 DEF Accepts
  <2>2. DOMAIN x.edits = {1}
    BY <1>4
  <2>3. e.from <= e.to /\ e.to \in Boundaries(doc.text)
    BY <2>1, <2>2 DEF ValidEdits
  <2>4. e.to \in 0 .. Len(doc.text)
    BY <2>3 DEF Boundaries
  <2> QED
    BY <1>2, <2>1, <2>3, <2>4
<1>6. /\ IsDoc(now) /\ now.text = Splice(doc.text, e) /\ now.revision = doc.revision + 1
      /\ now.revision \in Nat
  <2>1. Turns(<<e>>, Len(doc.text), Len(doc.text) + Delta(e))
    BY <1>2, <1>4, <1>5, TurnsOne
  <2>2. <<e>> \in Edits
    BY <1>4 DEF Edits, Single
  <2>3. /\ IsDoc(now) /\ now.text = ApplyEdits(doc.text, <<e>>)
        /\ now.revision = doc.revision + 1
    BY <1>2, <1>4, <2>1, <2>2, AppliedTurns
  <2>4. ApplyEdits(doc.text, <<e>>) = Splice(doc.text, e)
    BY ApplyOne
  <2> QED
    BY <2>3, <2>4, DocTyped
<1>7. r = [doc |-> now, view |-> view, adapter |-> a, queue |-> << >>]
  <2>1. r = [Shown EXCEPT !.doc = now, !.queue = << >>, !.adapter.pending = FALSE,
                          !.adapter.revision = now.revision]
    BY Zenon DEF Committed
  <2> DEFINE n == now
  <2> HIDE DEF r, n
  <2>2. r = [Shown EXCEPT !.doc = n, !.queue = << >>, !.adapter.pending = FALSE,
                          !.adapter.revision = n.revision]
    BY <2>1 DEF n
  <2>3. [adapter EXCEPT !.pending = FALSE, !.revision = n.revision] = a
    BY DEF n
  <2>4. adapter \in Adapter
    BY <1>2
  <2>5. r = [doc |-> n, view |-> view,
             adapter |-> [adapter EXCEPT !.pending = FALSE, !.revision = n.revision], queue |-> << >>]
    BY <2>2, <2>4 DEF Shown, Adapter
  <2> QED
    BY <2>3, <2>5 DEF n
<1> HIDE DEF now
<1>8. /\ a \in Adapter /\ a.len = adapter.len /\ a.suppressed = adapter.suppressed
      /\ a.astray = adapter.astray /\ a.revision = now.revision
  BY <1>2, <1>6 DEF Adapter
<1> HIDE DEF a, r, x, e, s
<1>9. /\ r.doc = now /\ r.view = view /\ r.adapter = a /\ r.queue = << >>
      /\ r \in [doc : {r.doc}, view : View, adapter : Adapter, queue : Seq(Commit)]
  BY <1>2, <1>7, <1>8
<1>10. IsPane(r)
  BY <1>6, <1>9 DEF IsPane
<1>11. ASSUME ~ r.adapter.astray, r.view.editable PROVE InStep(r)
  <2>1. doc.revision \in Nat
    BY <1>2, DocTyped
  <2>2. ~ Doomed(s)
    BY <1>1, <1>3, <1>5, <2>1 DEF Doomed, x
  <2>3. Agrees(s) /\ ~ s.adapter.astray /\ s.view.editable
    BY <1>1, <1>8, <1>9, <1>11 DEF Pane, s
  <2>4. InStep(s)
    BY <2>2, <2>3 DEF Agrees
  <2>5. ~ adapter.suppressed /\ adapter.len = Len(view.text) /\ view.text = Splice(doc.text, e)
    BY <1>1, <1>3, <2>4 DEF InStep, e, x
  <2> QED
    BY <1>6, <1>8, <1>9, <2>5 DEF InStep
<1> QED
  BY <1>10, <1>11 DEF Pane, Agrees, r

-----------------------------------------------------------------------------
(* Tabs, and the window over them *)

Version == [text : Text, stamp : Int]

PathOrNone == Path \cup {Untitled}

\* A conflict stands only against unsaved text, of a document that has a file.
TabOK(t) ==
    /\ t \in [doc : {t.doc}, dirty : BOOLEAN, path : PathOrNone,
              saved : {None} \cup Version, conflict : {None} \cup Version]
    /\ IsDoc(t.doc)
    /\ t.conflict # None => t.dirty /\ t.path \in Path
    /\ ~ t.dirty /\ t.saved # None => t.saved.text = t.doc.text

TabsOK(ts) == (\E S : ts \in Seq(S)) /\ \A i \in DOMAIN ts : TabOK(ts[i])

WindowOK == TabsOK(tabs) /\ active \in DOMAIN tabs /\ Pane(Shown)

LEMMA SeqGrows ==
    ASSUME NEW S, NEW ts \in Seq(S), NEW x PROVE ts \in Seq(S \cup {x})
<1>1. Len(ts) \in Nat /\ ts \in [1 .. Len(ts) -> S]
  OBVIOUS
<1>2. ts \in [1 .. Len(ts) -> S \cup {x}]
  BY <1>1
<1> QED
  BY <1>1, <1>2

LEMMA TabsReplaced ==
    ASSUME NEW ts, TabsOK(ts), NEW i \in DOMAIN ts, NEW x, TabOK(x)
    PROVE  /\ TabsOK([ts EXCEPT ![i] = x])
           /\ DOMAIN [ts EXCEPT ![i] = x] = DOMAIN ts
           /\ [ts EXCEPT ![i] = x][i] = x
<1> DEFINE r == [ts EXCEPT ![i] = x]
<1>1. PICK S : ts \in Seq(S)
  BY DEF TabsOK
<1>2. ts \in Seq(S \cup {x})
  BY <1>1, SeqGrows
<1>3. /\ r \in Seq(S \cup {x}) /\ DOMAIN r = DOMAIN ts
      /\ \A j \in DOMAIN ts : r[j] = IF j = i THEN x ELSE ts[j]
  BY <1>2
<1> HIDE DEF r
<1>4. \A j \in DOMAIN r : TabOK(r[j])
  BY <1>3 DEF TabsOK
<1>5. TabsOK(r) /\ r[i] = x
  BY <1>3, <1>4 DEF TabsOK
<1> QED
  BY <1>3, <1>5 DEF r

LEMMA TabsGrown ==
    ASSUME NEW ts, TabsOK(ts), NEW x, TabOK(x)
    PROVE  /\ TabsOK(Append(ts, x))
           /\ Len(ts) + 1 \in DOMAIN Append(ts, x)
           /\ Append(ts, x)[Len(ts) + 1] = x
<1> DEFINE r == Append(ts, x)
<1>1. PICK S : ts \in Seq(S)
  BY DEF TabsOK
<1>2. ts \in Seq(S \cup {x})
  BY <1>1, SeqGrows
<1>3. /\ r \in Seq(S \cup {x}) /\ Len(ts) \in Nat /\ DOMAIN ts = 1 .. Len(ts)
      /\ DOMAIN r = 1 .. Len(ts) + 1
      /\ \A j \in 1 .. Len(ts) : r[j] = ts[j]
      /\ r[Len(ts) + 1] = x
  BY <1>2
<1> HIDE DEF r
<1>4. ASSUME NEW j \in DOMAIN r PROVE TabOK(r[j])
  <2>1. CASE j = Len(ts) + 1
    BY <1>3, <2>1
  <2>2. CASE j # Len(ts) + 1
    <3>1. j \in 1 .. Len(ts)
      BY <1>3, <2>2
    <3> QED
      BY <1>3, <3>1 DEF TabsOK
  <2> QED
    BY <2>1, <2>2
<1>5. TabsOK(r) /\ Len(ts) + 1 \in DOMAIN r
  BY <1>3, <1>4 DEF TabsOK
<1> QED
  BY <1>3, <1>5 DEF r

LEMMA OneTab == ASSUME NEW x, TabOK(x) PROVE TabsOK(<<x>>) /\ 1 \in DOMAIN <<x>> /\ <<x>>[1] = x
<1>1. <<x>> \in Seq({x}) /\ DOMAIN <<x>> = {1} /\ <<x>>[1] = x
  OBVIOUS
<1> DEFINE r == <<x>>
<1>2. r \in Seq({x}) /\ DOMAIN r = {1} /\ r[1] = x
  BY <1>1
<1> HIDE DEF r
<1>3. TabsOK(r) /\ 1 \in DOMAIN r
  BY <1>2 DEF TabsOK
<1> QED
  BY <1>2, <1>3 DEF r

LEMMA ShownTyped ==
    ASSUME WindowOK
    PROVE  /\ IsPane(Shown) /\ Agrees(Shown) /\ TabOK(tab) /\ IsDoc(doc)
           /\ view \in View /\ view.text \in Text /\ Len(view.text) \in Nat
           /\ adapter \in Adapter /\ queue \in Seq(Commit)
           /\ Shown.doc = doc /\ Shown.view = view /\ Shown.adapter = adapter /\ Shown.queue = queue
<1>1. IsPane(Shown) /\ Agrees(Shown)
  BY DEF WindowOK, Pane
<1>2. Shown.doc = doc /\ Shown.view = view /\ Shown.adapter = adapter /\ Shown.queue = queue
  BY DEF Shown
<1>3. TabOK(tab)
  BY DEF WindowOK, TabsOK, tab
<1> QED
  BY <1>1, <1>2, <1>3, PaneTyped DEF TabOK

LEMMA BecomesKeeps ==
    ASSUME WindowOK, NEW next, Pane(next), Becomes(next)
    PROVE  WindowOK'
<1> DEFINE t == tabs[active]
           x == IF next.doc = t.doc THEN t ELSE Edited(t, next.doc)
<1>1. /\ tabs' = [tabs EXCEPT ![active] = x] /\ active' = active
      /\ view' = next.view /\ adapter' = next.adapter /\ queue' = next.queue
  BY DEF Becomes
<1>2. TabOK(t)
  BY DEF WindowOK, TabsOK
<1>3. /\ IsDoc(next.doc)
      /\ next \in [doc : {next.doc}, view : View, adapter : Adapter, queue : Seq(Commit)]
  BY DEF Pane, IsPane
<1>4. TabOK(x) /\ x.doc = next.doc
  <2>1. CASE next.doc = t.doc
    BY <1>2, <2>1
  <2>2. CASE next.doc # t.doc
    <3>1. x = [t EXCEPT !.doc = next.doc, !.dirty = TRUE]
      BY <2>2 DEF Edited
    <3>2. t \in [doc : {t.doc}, dirty : BOOLEAN, path : PathOrNone,
                 saved : {None} \cup Version, conflict : {None} \cup Version]
      BY <1>2 DEF TabOK
    <3> HIDE DEF t, x
    <3>3. /\ x \in [doc : {x.doc}, dirty : BOOLEAN, path : PathOrNone,
                    saved : {None} \cup Version, conflict : {None} \cup Version]
          /\ x.doc = next.doc /\ x.dirty /\ x.conflict = t.conflict /\ x.path = t.path
      BY <3>1, <3>2
    <3>4. x.conflict # None => x.path \in Path
      BY <1>2, <3>3 DEF TabOK
    <3> QED
      BY <1>3, <3>3, <3>4 DEF TabOK
  <2> QED
    BY <2>1, <2>2
<1> HIDE DEF x
<1>5. TabsOK(tabs') /\ DOMAIN tabs' = DOMAIN tabs /\ tabs'[active] = x
  BY <1>1, <1>4, TabsReplaced DEF WindowOK
<1>6. Shown' = next
  BY <1>1, <1>3, <1>4, <1>5 DEF Shown, doc, tab
<1>7. Pane(Shown')
  BY <1>6
<1> QED
  BY <1>1, <1>5, <1>7 DEF WindowOK, Pane, IsPane, Agrees, Doomed, InStep, TabsOK, TabOK

LEMMA NoneIsThere == None \in {None} \cup Version /\ NoComposition \in Composition
BY DEF Composition

\* A tab that has never been on disk.
NeverSaved(text, dirty, path) ==
    [doc |-> NewDocument(text), dirty |-> dirty, path |-> path, saved |-> None, conflict |-> None]

LEMMA NeverSavedOK ==
    ASSUME NEW text \in Text, NEW dirty \in BOOLEAN, NEW path \in PathOrNone
    PROVE  TabOK(NeverSaved(text, dirty, path))
<1> DEFINE d == NewDocument(text)
           t == NeverSaved(text, dirty, path)
<1>1. IsDoc(d)
  BY NewDocumentIsDoc
<1>2. t = [doc |-> d, dirty |-> dirty, path |-> path, saved |-> None, conflict |-> None]
  BY DEF NeverSaved
<1> HIDE DEF d, t
<1>3. /\ t \in [doc : {t.doc}, dirty : BOOLEAN, path : PathOrNone,
                saved : {None} \cup Version, conflict : {None} \cup Version]
      /\ t.doc = d /\ t.conflict = None /\ t.saved = None
  BY <1>2
<1>4. TabOK(t)
  BY <1>1, <1>3 DEF TabOK
<1> QED
  BY <1>4 DEF t

LEMMA RecoveredOK ==
    ASSUME NEW text \in Text, NEW path \in PathOrNone
    PROVE  TabOK([Untouched(text) EXCEPT !.dirty = TRUE, !.path = path])
<1> DEFINE d == NewDocument(text)
<1>1. Untouched(text) = [doc |-> d, dirty |-> FALSE, path |-> Untitled,
                         saved |-> None, conflict |-> None]
  BY DEF Untouched
<1> HIDE DEF d
<1>2. ASSUME NEW dirty \in BOOLEAN, NEW u, NEW w,
             w = [u EXCEPT !.dirty = dirty, !.path = path],
             u = [doc |-> d, dirty |-> FALSE, path |-> Untitled, saved |-> None, conflict |-> None]
      PROVE  w = [doc |-> d, dirty |-> dirty, path |-> path, saved |-> None, conflict |-> None]
  BY <1>2
<1>3. [Untouched(text) EXCEPT !.dirty = TRUE, !.path = path] = NeverSaved(text, TRUE, path)
  BY <1>1, <1>2 DEF NeverSaved, d
<1> QED
  BY <1>3, NeverSavedOK

LEMMA StarterOK == TabOK(Untouched(Starter))
<1>1. Starter \in Text /\ FALSE \in BOOLEAN /\ Untitled \in PathOrNone
  BY TextsGiven DEF PathOrNone
<1>2. Untouched(Starter) = NeverSaved(Starter, FALSE, Untitled)
  BY DEF Untouched, NeverSaved
<1> QED
  BY <1>1, <1>2, NeverSavedOK

LEMMA NewWindowPane ==
    ASSUME NEW t, TabOK(t)
    PROVE  /\ Pane(NewWindow(t)) /\ NewWindow(t).doc = t.doc /\ NewWindow(t).queue = << >>
<1> DEFINE s == [doc |-> t.doc, view |-> [text |-> << >>, editable |-> TRUE],
                 adapter |-> NewAdapter, queue |-> << >>]
<1>1. NewAdapter \in Adapter
  BY NoneIsThere DEF NewAdapter, Adapter
<1>2. [text |-> << >>, editable |-> TRUE] \in View
  BY DEF View, Text
<1>3. << >> \in Seq(Commit)
  OBVIOUS
<1>4. /\ s \in [doc : {s.doc}, view : View, adapter : Adapter, queue : Seq(Commit)]
      /\ s.doc = t.doc /\ s.queue = << >>
  BY <1>1, <1>2, <1>3
<1> HIDE DEF s
<1>5. IsPane(s)
  BY <1>4 DEF IsPane, TabOK
<1>6. NewWindow(t) = Installed(s)
  BY DEF NewWindow, s
<1>7. Installed(s).queue = s.queue
  BY <1>4 DEF Installed
<1> QED
  BY <1>4, <1>5, <1>6, <1>7, InstalledPane

LEMMA WindowMade ==
    ASSUME NEW t, TabOK(t), Window(t)
    PROVE  WindowOK'
<1> DEFINE n == NewWindow(t)
<1>1. /\ tabs' = <<t>> /\ active' = 1 /\ queue' = << >>
      /\ view' = n.view /\ adapter' = n.adapter
  BY DEF Window
<1>2. Pane(n) /\ n.doc = t.doc /\ n.queue = << >>
  BY NewWindowPane
<1>3. TabsOK(<<t>>) /\ 1 \in DOMAIN <<t>> /\ <<t>>[1] = t
  BY OneTab
<1> HIDE DEF n
<1>4. n \in [doc : {n.doc}, view : View, adapter : Adapter, queue : Seq(Commit)]
  BY <1>2 DEF Pane, IsPane
<1>5. Shown' = n
  BY <1>1, <1>2, <1>3, <1>4 DEF Shown, doc, tab
<1>6. Pane(Shown')
  BY <1>2, <1>5
<1>7. TabsOK(tabs') /\ active' \in DOMAIN tabs'
  BY <1>1, <1>3
<1> QED
  BY <1>6, <1>7 DEF WindowOK, Pane, IsPane, Agrees, Doomed, InStep, TabsOK, TabOK

Files == [Path -> {None} \cup Version]

LEMMA OpenedOK ==
    ASSUME files \in Files, NEW p \in Path, Exists(p)
    PROVE  TabOK(OpenedTab(p))
<1> DEFINE f == files[p]
           d == NewDocument(f.text)
           t == OpenedTab(p)
<1>1. f \in Version
  BY DEF Files, Exists
<1> HIDE DEF f
<1>2. f.text \in Text
  BY <1>1 DEF Version
<1>3. IsDoc(d) /\ d.text = f.text
  BY <1>2, NewDocumentIsDoc DEF NewDocument
<1>4. t = [doc |-> d, dirty |-> FALSE, path |-> p, saved |-> f, conflict |-> None]
  BY DEF OpenedTab, f
<1> HIDE DEF d, t
<1>5. /\ t \in [doc : {t.doc}, dirty : BOOLEAN, path : PathOrNone,
                saved : {None} \cup Version, conflict : {None} \cup Version]
      /\ t.doc = d /\ t.conflict = None /\ t.saved = f
  BY <1>1, <1>4 DEF PathOrNone
<1>6. TabOK(t)
  BY <1>3, <1>5 DEF TabOK
<1> QED
  BY <1>6 DEF t

LEMMA LeastIn == ASSUME NEW S, IsFiniteSet(S), S # {}, \A j \in S : j \in Int PROVE Min(S) \in S
<1>1. \E i \in S : \A j \in S : i <= j
  BY Least
<1> QED
  BY <1>1 DEF Min

LEMMA AdoptedOK ==
    ASSUME NEW open, TabsOK(open), NEW shown \in DOMAIN open, files \in Files,
           NEW p \in Path, Exists(p)
    PROVE  \E now : /\ now = Adopted(open, shown, p)
                     /\ TabsOK(now.tabs) /\ now.active \in DOMAIN now.tabs
<1> DEFINE same == {i \in DOMAIN open : open[i].path = p}
           alone == Len(open) = 1 /\ ~ open[1].dirty /\ open[1].path = Untitled
           now == Adopted(open, shown, p)
           t == OpenedTab(p)
           m == Min(same)
<1>1. TabOK(t)
  BY OpenedOK
<1> HIDE DEF t
<1>2. same # {} => m \in DOMAIN open
  <2>1. PICK S : open \in Seq(S)
    BY DEF TabsOK
  <2>2. Len(open) \in Nat /\ DOMAIN open = 1 .. Len(open)
    BY <2>1
  <2>3. IsFiniteSet(1 .. Len(open))
    BY <2>2, FS_Interval
  <2>4. IsFiniteSet(same)
    BY <2>2, <2>3, FS_Subset
  <2>5. \A j \in same : j \in Int
    BY <2>2
  <2> HIDE DEF same
  <2>6. same # {} => m \in same
    BY <2>4, <2>5, LeastIn
  <2> QED
    BY <2>6 DEF same
<1>3. now = IF same # {} THEN [tabs |-> [open EXCEPT ![m] = t], active |-> m]
                   ELSE IF alone THEN [tabs |-> <<t>>, active |-> 1]
                   ELSE IF Len(open) < MaxTabs
                     THEN [tabs |-> Append(open, t), active |-> Len(open) + 1]
                   ELSE [tabs |-> open, active |-> shown]
  BY DEF Adopted, t
<1> SUFFICES TabsOK(now.tabs) /\ now.active \in DOMAIN now.tabs
  OBVIOUS
<1> HIDE DEF same, alone, m, now
<1>4. CASE same # {}
  <2>1. now.tabs = [open EXCEPT ![m] = t] /\ now.active = m
    BY <1>3, <1>4
  <2> QED
    BY <1>1, <1>2, <1>4, <2>1, TabsReplaced
<1>5. CASE same = {} /\ alone
  <2>1. now.tabs = <<t>> /\ now.active = 1
    BY <1>3, <1>5
  <2> QED
    BY <1>1, <2>1, OneTab
<1>6. CASE same = {} /\ ~ alone /\ Len(open) < MaxTabs
  <2>1. now.tabs = Append(open, t) /\ now.active = Len(open) + 1
    BY <1>3, <1>6
  <2> QED
    BY <1>1, <2>1, TabsGrown
<1>7. CASE same = {} /\ ~ alone /\ ~ (Len(open) < MaxTabs)
  <2>1. now.tabs = open /\ now.active = shown
    BY <1>3, <1>7
  <2> QED
    BY <2>1
<1> QED
  BY <1>4, <1>5, <1>6, <1>7

LEMMA ShowKeeps ==
    ASSUME NEW pane, IsPane(pane), NEW open, TabsOK(open), NEW shown \in DOMAIN open,
           files \in Files, NEW p \in Path, Exists(p), Show(pane, open, shown, p)
    PROVE  WindowOK'
<1>1. PICK now \in {Adopted(open, shown, p)} :
         \E s \in {Installed([pane EXCEPT !.doc = now.tabs[now.active].doc])} :
            /\ tabs' = now.tabs /\ active' = now.active
            /\ view' = s.view /\ adapter' = s.adapter /\ queue' = s.queue
  BY DEF Show
<1> DEFINE d == now.tabs[now.active].doc
           u == [pane EXCEPT !.doc = d]
           s == Installed(u)
<1>2. /\ tabs' = now.tabs /\ active' = now.active
      /\ view' = s.view /\ adapter' = s.adapter /\ queue' = s.queue
  BY <1>1
<1>3. TabsOK(now.tabs) /\ now.active \in DOMAIN now.tabs
  BY <1>1, AdoptedOK
<1>4. IsDoc(d)
  BY <1>3 DEF TabsOK, TabOK
<1>5. d = doc'
  BY <1>2 DEF doc, tab
<1> HIDE DEF d
<1>6. /\ u \in [doc : {u.doc}, view : View, adapter : Adapter, queue : Seq(Commit)]
      /\ u.doc = d
  <2>1. pane \in [doc : {pane.doc}, view : View, adapter : Adapter, queue : Seq(Commit)]
    BY DEF IsPane
  <2> QED
    BY <2>1
<1> HIDE DEF u
<1>7. IsPane(u)
  BY <1>4, <1>6 DEF IsPane
<1>8. Pane(s) /\ s.doc = d
  BY <1>6, <1>7, InstalledPane
<1> HIDE DEF s
<1>9. s \in [doc : {s.doc}, view : View, adapter : Adapter, queue : Seq(Commit)]
  BY <1>8 DEF Pane, IsPane
<1>10. Shown' = s
  BY <1>2, <1>5, <1>8, <1>9 DEF Shown
<1>11. Pane(Shown')
  BY <1>8, <1>10
<1>12. TabsOK(tabs') /\ active' \in DOMAIN tabs'
  BY <1>2, <1>3
<1> QED
  BY <1>11, <1>12 DEF WindowOK, Pane, IsPane, Agrees, Doomed, InStep, TabsOK, TabOK

-----------------------------------------------------------------------------
(* The invariant *)

Saving == [step : {"temporary", "renamed"}, path : Path, stamp : Nat]

StorageOK ==
    /\ files \in Files /\ stable \in Files
    /\ writes \in Nat
    /\ saving \in {NotSaving} \cup Saving
    /\ journal \in {None} \cup [text : Text, path : PathOrNone]

GInv == WindowOK /\ StorageOK

LEMMA WindowStays ==
    ASSUME WindowOK, UNCHANGED window
    PROVE  WindowOK'
<1>1. tabs' = tabs /\ active' = active /\ view' = view /\ adapter' = adapter /\ queue' = queue
  BY DEF window
<1>2. Shown' = Shown
  BY <1>1 DEF Shown, doc, tab
<1>3. Pane(Shown')
  BY <1>2 DEF WindowOK
<1>4. TabsOK(tabs') /\ active' \in DOMAIN tabs'
  BY <1>1 DEF WindowOK
<1> QED
  BY <1>3, <1>4 DEF WindowOK, Pane, IsPane, Agrees, Doomed, InStep, TabsOK, TabOK

\* What is known of the shown document's file changes, the document does not.
LEMMA TabChanged ==
    ASSUME WindowOK, NEW x, TabOK(x), x.doc = doc, tabs' = [tabs EXCEPT ![active] = x],
           UNCHANGED <<active, view, adapter, queue>>
    PROVE  WindowOK'
<1>1. TabsOK(tabs') /\ DOMAIN tabs' = DOMAIN tabs /\ tabs'[active] = x
  BY TabsReplaced DEF WindowOK
<1>2. Shown' = Shown
  BY <1>1 DEF Shown, doc, tab
<1>3. Pane(Shown')
  BY <1>2 DEF WindowOK
<1>4. TabsOK(tabs') /\ active' \in DOMAIN tabs'
  BY <1>1 DEF WindowOK
<1> QED
  BY <1>3, <1>4 DEF WindowOK, Pane, IsPane, Agrees, Doomed, InStep, TabsOK, TabOK

\* The adapter or the view changes in what the invariant does not look at.
LEMMA ViewChanged ==
    ASSUME WindowOK, NEW v \in View, NEW a \in Adapter, view' = v, adapter' = a,
           UNCHANGED <<tabs, active, queue>>,
           \/ ~ v.editable
           \/ /\ v = view /\ a.len = adapter.len /\ a.revision = adapter.revision
              /\ a.pending = adapter.pending /\ a.suppressed = adapter.suppressed
              /\ a.astray = adapter.astray
    PROVE  WindowOK'
<1> DEFINE s == Shown
           n == [doc |-> doc, view |-> v, adapter |-> a, queue |-> queue]
<1>1. /\ IsPane(s) /\ Agrees(s) /\ IsDoc(doc) /\ queue \in Seq(Commit)
      /\ s.doc = doc /\ s.view = view /\ s.adapter = adapter /\ s.queue = queue
  BY ShownTyped
<1>2. Shown' = n
  BY DEF Shown, doc, tab
<1>3. /\ n \in [doc : {n.doc}, view : View, adapter : Adapter, queue : Seq(Commit)]
      /\ n.doc = doc /\ n.view = v /\ n.adapter = a /\ n.queue = queue
  BY <1>1
<1> HIDE DEF n, s
<1>4. IsPane(n)
  BY <1>1, <1>3 DEF IsPane
<1>5. Agrees(n)
  <2>1. CASE ~ v.editable
    BY <1>3, <2>1 DEF Agrees
  <2>2. CASE /\ v = view /\ a.len = adapter.len /\ a.revision = adapter.revision
             /\ a.pending = adapter.pending /\ a.suppressed = adapter.suppressed
             /\ a.astray = adapter.astray
    <3>1. (Doomed(n) <=> Doomed(s)) /\ (InStep(n) <=> InStep(s))
      BY <1>1, <1>3, <2>2 DEF Doomed, InStep
    <3> QED
      BY <1>1, <1>3, <2>2, <3>1 DEF Agrees
  <2> QED
    BY <2>1, <2>2
<1>6. Pane(Shown')
  BY <1>2, <1>4, <1>5 DEF Pane
<1>7. TabsOK(tabs') /\ active' \in DOMAIN tabs'
  BY DEF WindowOK
<1> QED
  BY <1>6, <1>7 DEF WindowOK, Pane, IsPane, Agrees, Doomed, InStep, TabsOK, TabOK

LEMMA StorageStays ==
    ASSUME StorageOK, UNCHANGED <<files, stable, writes, saving, journal>>
    PROVE  StorageOK'
BY DEF StorageOK

LEMMA EndsKeeps == ASSUME Ends PROVE WindowOK'
<1>1. Window(Untouched(Starter))
  BY DEF Ends
<1> QED
  BY <1>1, StarterOK, WindowMade

LEMMA AbortsKeeps == ASSUME GInv, Aborts PROVE GInv'
<1>1. WindowOK'
  BY EndsKeeps DEF Aborts
<1>2. StorageOK'
  BY StorageStays DEF GInv, Aborts, storage, kept
<1> QED
  BY <1>1, <1>2 DEF GInv

LEMMA StartSaveKeeps ==
    ASSUME GInv, NEW p \in Path, StartSave(p)
    PROVE  GInv'
<1>1. WindowOK'
  BY WindowStays DEF GInv, StartSave
<1>2. StorageOK'
  <2>1. /\ saving' = [step |-> "temporary", path |-> p, stamp |-> writes] /\ writes' = writes + 1
        /\ UNCHANGED <<files, stable, journal>>
    BY DEF StartSave, kept
  <2>2. writes \in Nat
    BY DEF GInv, StorageOK
  <2>3. saving' \in Saving /\ writes' \in Nat
    BY <2>1, <2>2 DEF Saving
  <2> QED
    BY <2>1, <2>3 DEF GInv, StorageOK
<1> QED
  BY <1>1, <1>2 DEF GInv

-----------------------------------------------------------------------------
(* Every action keeps it *)

LEMMA TypeKeeps == ASSUME GInv, Type PROVE GInv'
<1>1. PICK r \in Spans, word \in Keys \cup {<< >>} :
         /\ r[1] # r[2] \/ word # << >>
         /\ adapter.composition # NoComposition => word # << >>
         /\ Becomes(Keyed(Shown, r[1], r[2], word))
  BY DEF Type
<1>2. WindowOK
  BY DEF GInv
<1>3. r[1] \in Nat /\ r[2] \in Nat /\ r[1] <= r[2] /\ r[2] <= Len(view.text)
  <2>1. Len(view.text) \in Nat
    BY <1>2, ShownTyped
  <2> QED
    BY <2>1 DEF Spans
<1>4. word \in Text
  BY TextsGiven
<1>5. Pane(Keyed(Shown, r[1], r[2], word))
  BY <1>1, <1>2, <1>3, <1>4, ShownTyped, KeyedPane DEF WindowOK
<1>6. WindowOK'
  BY <1>1, <1>2, <1>5, BecomesKeeps
<1>7. StorageOK'
  BY StorageStays DEF GInv, Type, storage, kept
<1> QED
  BY <1>6, <1>7 DEF GInv

LEMMA PreeditKeeps == ASSUME GInv, Preedit \/ PreeditEnds PROVE GInv'
<1>1. WindowOK /\ view \in View /\ adapter \in Adapter /\ Len(view.text) \in Nat
  BY ShownTyped DEF GInv
<1>2. \E a \in Adapter :
         /\ adapter' = a
         /\ a.len = adapter.len /\ a.revision = adapter.revision
         /\ a.pending = adapter.pending /\ a.suppressed = adapter.suppressed
         /\ a.astray = adapter.astray
  <2>1. CASE Preedit
    <3>1. PICK r \in Spans :
             adapter' = [adapter EXCEPT !.composition =
                           [base |-> adapter.revision, from |-> r[1], to |-> r[2]]]
      BY <2>1 DEF Preedit
    <3>2. r[1] \in Nat /\ r[2] \in Nat
      BY <1>1 DEF Spans
    <3> DEFINE c == [base |-> adapter.revision, from |-> r[1], to |-> r[2]]
    <3>3. c \in Composition
      BY <1>1, <3>2 DEF Composition, Adapter
    <3> HIDE DEF c
    <3>4. adapter' = [adapter EXCEPT !.composition = c]
      BY <3>1 DEF c
    <3> QED
      BY <1>1, <3>3, <3>4 DEF Adapter
  <2>2. CASE PreeditEnds
    <3>1. \/ adapter' = [adapter EXCEPT !.guard = FALSE]
          \/ adapter' = [adapter EXCEPT !.composition = NoComposition]
      BY <2>2 DEF PreeditEnds
    <3>2. CASE adapter' = [adapter EXCEPT !.guard = FALSE]
      <4> DEFINE a == [adapter EXCEPT !.guard = FALSE]
      <4>1. /\ a \in Adapter /\ a.len = adapter.len /\ a.revision = adapter.revision
            /\ a.pending = adapter.pending /\ a.suppressed = adapter.suppressed
            /\ a.astray = adapter.astray
        BY <1>1 DEF Adapter
      <4>2. adapter' = a
        BY <3>2
      <4> HIDE DEF a
      <4> QED
        BY <4>1, <4>2
    <3>3. CASE adapter' = [adapter EXCEPT !.composition = NoComposition]
      BY <1>1, <3>3, NoneIsThere DEF Adapter
    <3> QED
      BY <3>1, <3>2, <3>3
  <2> QED
    BY <2>1, <2>2
<1>3. UNCHANGED <<tabs, active, view, queue>> /\ UNCHANGED <<storage, kept>>
  BY DEF Preedit, PreeditEnds
<1>4. WindowOK'
  BY <1>1, <1>2, <1>3, ViewChanged
<1>5. StorageOK'
  BY <1>3, StorageStays DEF GInv, storage, kept
<1> QED
  BY <1>4, <1>5 DEF GInv

LEMMA PumpKeeps == ASSUME GInv, Pump PROVE GInv'
<1>1. CASE Heard
  <2>1. Becomes(Committed) /\ UNCHANGED <<storage, kept>>
    BY <1>1 DEF Pump
  <2>2. Pane(Committed)
    BY <1>1, CommittedPane DEF GInv, WindowOK
  <2>3. WindowOK'
    BY <2>1, <2>2, BecomesKeeps DEF GInv
  <2>4. StorageOK'
    BY <2>1, StorageStays DEF GInv, storage, kept
  <2> QED
    BY <2>3, <2>4 DEF GInv
<1>2. CASE ~ Heard
  BY <1>2, AbortsKeeps DEF Pump
<1> QED
  BY <1>1, <1>2

LEMMA HistoryKeeps == ASSUME GInv, History PROVE GInv'
<1>1. WindowOK /\ Pane(Shown) /\ IsDoc(doc) /\ Shown.doc = doc
  BY ShownTyped DEF GInv, WindowOK
<1>2. WindowOK'
  <2>1. CASE /\ CanUndo(doc)
             /\ Becomes(Changed([Shown EXCEPT !.doc = Undone(doc)], Last(doc.undo).inverse))
    <3>1. doc.undo # << >>
      BY <2>1 DEF CanUndo
    <3>2. PICK edits \in Edits, m \in Nat :
             /\ Last(doc.undo).inverse = edits
             /\ Turns(edits, Len(doc.text), m)
             /\ IsDoc(Undone(doc))
             /\ Undone(doc).text = ApplyEdits(doc.text, edits)
             /\ Undone(doc).revision = doc.revision + 1
      BY <1>1, <3>1, UndoneTurns
    <3>3. Pane(Changed([Shown EXCEPT !.doc = Undone(doc)], edits))
      BY <1>1, <3>2, ChangedPane
    <3>4. Becomes(Changed([Shown EXCEPT !.doc = Undone(doc)], edits))
      BY <2>1, <3>2
    <3> QED
      BY <1>1, <3>3, <3>4, BecomesKeeps
  <2>2. CASE /\ CanRedo(doc)
             /\ Becomes(Changed([Shown EXCEPT !.doc = Redone(doc)], Last(doc.redo).edits))
    <3>1. doc.redo # << >>
      BY <2>2 DEF CanRedo
    <3>2. PICK edits \in Edits, m \in Nat :
             /\ Last(doc.redo).edits = edits
             /\ Turns(edits, Len(doc.text), m)
             /\ IsDoc(Redone(doc))
             /\ Redone(doc).text = ApplyEdits(doc.text, edits)
             /\ Redone(doc).revision = doc.revision + 1
      BY <1>1, <3>1, RedoneTurns
    <3>3. Pane(Changed([Shown EXCEPT !.doc = Redone(doc)], edits))
      BY <1>1, <3>2, ChangedPane
    <3>4. Becomes(Changed([Shown EXCEPT !.doc = Redone(doc)], edits))
      BY <2>2, <3>2
    <3> QED
      BY <1>1, <3>3, <3>4, BecomesKeeps
  <2> QED
    BY <2>1, <2>2 DEF History
<1>3. StorageOK'
  BY StorageStays DEF GInv, History, storage, kept
<1> QED
  BY <1>2, <1>3 DEF GInv

\* What a command asks for and the document accepts fits its text.
LEMMA AcceptedTurns ==
    ASSUME IsDoc(doc), NEW edits \in Changes, NEW tx, tx.edits = edits, Accepts(doc, tx)
    PROVE  edits \in Edits /\ \E m : Turns(edits, Len(doc.text), m)
<1>1. doc.text \in Text /\ Len(doc.text) \in Nat
  BY DocTyped
<1>2. edits \in Edits
  <2> DEFINE Places == 0 .. Len(doc.text)
             Some == [from : Places, to : Places, with : Keys]
                       \cup {e \in [from : Places, to : Places, with : {<< >>}] : e.from < e.to}
  <2>1. Some \subseteq Edit
    <3>1. Places \subseteq Nat /\ Keys \subseteq Text /\ << >> \in Text
      BY <1>1, TextsGiven
    <3> HIDE DEF Places
    <3> QED
      BY <3>1 DEF Edit
  <2>2. edits \in {<<e>> : e \in Some} \cup {<<e, f>> : e, f \in Some}
    BY DEF Changes
  <2> HIDE DEF Some
  <2> QED
    BY <2>1, <2>2 DEF Edits, Single
<1>3. ASSUME NEW k \in DOMAIN edits
      PROVE  /\ edits[k].from <= edits[k].to /\ edits[k].to <= Len(doc.text)
             /\ k > 1 => edits[k - 1].to <= edits[k].from
  <2>1. /\ edits[k].from <= edits[k].to /\ edits[k].to \in Boundaries(doc.text)
        /\ k > 1 => edits[k - 1].to <= edits[k].from
    BY DEF Accepts, ValidEdits
  <2>2. edits[k].to \in 0 .. Len(doc.text)
    BY <2>1 DEF Boundaries
  <2> QED
    BY <1>1, <2>1, <2>2
<1>4. Turns(edits, Len(doc.text), Len(doc.text) + Sum(Delta, edits))
  BY <1>3 DEF Turns
<1> QED
  BY <1>2, <1>4

LEMMA CommandKeeps == ASSUME GInv, Command PROVE GInv'
<1>1. WindowOK /\ Pane(Shown) /\ IsDoc(doc) /\ Shown.doc = doc
  BY ShownTyped DEF GInv, WindowOK
<1>2. PICK edits \in Changes :
         LET tx == [base |-> doc.revision, kind |-> "programmatic", edits |-> edits]
         IN  /\ Accepts(doc, tx)
             /\ Becomes(FollowShared([Shown EXCEPT !.doc = Applied(doc, tx, NoContext)], edits))
  BY DEF Command
<1> DEFINE tx == [base |-> doc.revision, kind |-> "programmatic", edits |-> edits]
           d == Applied(doc, tx, NoContext)
<1>3. Accepts(doc, tx) /\ Becomes(FollowShared([Shown EXCEPT !.doc = d], edits))
  BY <1>2
<1>4. tx.edits = edits /\ tx.kind = "programmatic"
  OBVIOUS
<1> HIDE DEF tx
<1>5. edits \in Edits
  BY <1>1, <1>3, <1>4, AcceptedTurns
<1>6. PICK m : Turns(edits, Len(doc.text), m)
  BY <1>1, <1>3, <1>4, AcceptedTurns
<1>7. IsDoc(d) /\ d.text = ApplyEdits(doc.text, edits) /\ d.revision = doc.revision + 1
  BY <1>1, <1>4, <1>5, <1>6, AppliedTurns
<1> HIDE DEF d
<1>8. Pane(FollowShared([Shown EXCEPT !.doc = d], edits))
  BY <1>1, <1>5, <1>6, <1>7, FollowSharedPane
<1>9. WindowOK'
  BY <1>1, <1>3, <1>8, BecomesKeeps
<1>10. StorageOK'
  BY StorageStays DEF GInv, Command, storage, kept
<1> QED
  BY <1>9, <1>10 DEF GInv

LEMMA InspectKeeps == ASSUME GInv, Inspect PROVE GInv'
<1>1. WindowOK /\ adapter \in Adapter
  BY ShownTyped DEF GInv
<1>2. Generated \in Text /\ Len(Generated) \in Int
  BY TextsGiven DEF Text
<1> DEFINE v == [text |-> Generated, editable |-> FALSE]
           a == [adapter EXCEPT !.len = Len(Generated), !.suppressed = FALSE]
<1>3. v \in View /\ ~ v.editable
  BY <1>2 DEF View
<1>4. a \in Adapter
  BY <1>1, <1>2 DEF Adapter
<1>5. view' = v /\ adapter' = a /\ UNCHANGED <<tabs, active, queue>>
  BY DEF Inspect
<1> HIDE DEF v, a
<1>6. WindowOK'
  BY <1>1, <1>3, <1>4, <1>5, ViewChanged
<1>7. StorageOK'
  BY StorageStays DEF GInv, Inspect, storage, kept
<1> QED
  BY <1>6, <1>7 DEF GInv

LEMMA OpenKeeps == ASSUME GInv, Open PROVE GInv'
BY AbortsKeeps DEF Open

LEMMA PollKeeps == ASSUME GInv, Poll PROVE GInv'
<1>1. CASE tab.dirty /\ Exists(tab.path)
  <2> DEFINE t == tab
             f == files[t.path]
             x == [t EXCEPT !.conflict = f]
  <2>1. /\ tabs' = [tabs EXCEPT ![active].conflict = f]
        /\ UNCHANGED <<active, view, adapter, queue, storage, kept>>
    BY <1>1 DEF Poll
  <2>2. tabs' = [tabs EXCEPT ![active] = x]
    BY <2>1 DEF tab
  <2>3. TabOK(t) /\ t.path # Untitled
    BY ShownTyped DEF GInv, Poll
  <2>4. t.path \in Path /\ f \in Version
    <3>1. t.path \in Path
      BY <2>3 DEF TabOK, PathOrNone
    <3> QED
      BY <1>1, <3>1 DEF GInv, StorageOK, Files, Exists
  <2>5. t.doc = doc
    BY DEF doc
  <2>6. t.dirty
    BY <1>1
  <2> HIDE DEF t, f
  <2>7. /\ x \in [doc : {x.doc}, dirty : BOOLEAN, path : PathOrNone,
                  saved : {None} \cup Version, conflict : {None} \cup Version]
        /\ x.doc = t.doc /\ x.dirty = t.dirty /\ x.path = t.path
    BY <2>3, <2>4 DEF TabOK
  <2> HIDE DEF x
  <2>8. TabOK(x)
    BY <2>3, <2>4, <2>6, <2>7 DEF TabOK
  <2>9. WindowOK'
    BY <2>1, <2>2, <2>5, <2>7, <2>8, TabChanged DEF GInv
  <2>10. StorageOK'
    BY <2>1, StorageStays DEF GInv, storage, kept
  <2> QED
    BY <2>9, <2>10 DEF GInv
<1>2. CASE ~ (tab.dirty /\ Exists(tab.path))
  BY <1>2, AbortsKeeps DEF Poll
<1> QED
  BY <1>1, <1>2

LEMMA ReloadKeeps == ASSUME GInv, ReloadDisk PROVE GInv'
<1>1. TabOK(tab) /\ tab.conflict # None
  BY ShownTyped DEF GInv, ReloadDisk
<1>2. tab.path \in Path
  BY <1>1 DEF TabOK
<1>3. CASE Exists(tab.path)
  <2>1. Show(Shown, tabs, active, tab.path) /\ UNCHANGED <<storage, kept>>
    BY <1>3 DEF ReloadDisk
  <2>2. IsPane(Shown) /\ TabsOK(tabs) /\ active \in DOMAIN tabs
    BY DEF GInv, WindowOK, Pane
  <2>4. WindowOK'
    BY <1>2, <1>3, <2>1, <2>2, ShowKeeps DEF GInv, StorageOK
  <2>3. StorageOK'
    BY <2>1, StorageStays DEF GInv, storage, kept
  <2> QED
    BY <2>3, <2>4 DEF GInv
<1>4. CASE ~ Exists(tab.path)
  <2> DEFINE t == tab
             x == [t EXCEPT !.conflict = None]
  <2>1. /\ tabs' = [tabs EXCEPT ![active].conflict = None]
        /\ UNCHANGED <<active, view, adapter, queue, storage, kept>>
    BY <1>4 DEF ReloadDisk
  <2>2. tabs' = [tabs EXCEPT ![active] = x]
    BY <2>1 DEF tab
  <2>3. TabOK(t) /\ t.doc = doc
    BY <1>1 DEF doc
  <2> HIDE DEF t
  <2>4. /\ x \in [doc : {x.doc}, dirty : BOOLEAN, path : PathOrNone,
                  saved : {None} \cup Version, conflict : {None} \cup Version]
        /\ x.doc = t.doc /\ x.dirty = t.dirty /\ x.saved = t.saved /\ x.conflict = None
    BY <2>3 DEF TabOK
  <2> HIDE DEF x
  <2>5. TabOK(x)
    BY <2>3, <2>4 DEF TabOK
  <2>6. WindowOK'
    BY <2>1, <2>2, <2>3, <2>4, <2>5, TabChanged DEF GInv
  <2>7. StorageOK'
    BY <2>1, StorageStays DEF GInv, storage, kept
  <2> QED
    BY <2>6, <2>7 DEF GInv
<1> QED
  BY <1>3, <1>4

LEMMA KeepKeeps == ASSUME GInv, KeepBuffer PROVE GInv'
<1> DEFINE t == tab
           x == [t EXCEPT !.saved = t.conflict, !.conflict = None]
<1>1. /\ tabs' = [tabs EXCEPT ![active].saved = tab.conflict, ![active].conflict = None]
      /\ UNCHANGED <<active, view, adapter, queue, storage, kept>>
      /\ tab.conflict # None
  BY DEF KeepBuffer
<1>2. tabs' = [tabs EXCEPT ![active] = x]
  <2>1. active \in DOMAIN tabs /\ tabs[active] = t
    BY DEF GInv, WindowOK, tab
  <2> DEFINE c == tab.conflict
             ts == [tabs EXCEPT ![active].saved = c]
  <2>2. tabs' = [ts EXCEPT ![active].conflict = None]
    BY <1>1
  <2> HIDE DEF c, t
  <2>3. ts[active] = [t EXCEPT !.saved = c] /\ ts = [tabs EXCEPT ![active] = [t EXCEPT !.saved = c]]
    BY <2>1
  <2>4. c = t.conflict
    BY DEF c, t
  <2> DEFINE y == [t EXCEPT !.saved = c]
  <2>5. ts = [tabs EXCEPT ![active] = y]
    BY <2>3
  <2>6. x = [y EXCEPT !.conflict = None]
    BY <2>4
  <2> HIDE DEF ts, y, x
  <2>7. tabs' = [[tabs EXCEPT ![active] = y] EXCEPT ![active].conflict = None]
    BY <2>2, <2>5
  <2> QED
    BY <2>1, <2>6, <2>7
<1>3. TabOK(t) /\ t.doc = doc /\ t.conflict # None
  BY <1>1, ShownTyped DEF GInv, doc
<1> HIDE DEF t
<1>4. /\ t.dirty /\ t.path \in Path
      /\ x \in [doc : {x.doc}, dirty : BOOLEAN, path : PathOrNone,
                saved : {None} \cup Version, conflict : {None} \cup Version]
      /\ x.doc = t.doc /\ x.dirty = t.dirty /\ x.conflict = None
  BY <1>3 DEF TabOK
<1> HIDE DEF x
<1>5. TabOK(x)
  BY <1>3, <1>4 DEF TabOK
<1>6. WindowOK'
  BY <1>1, <1>2, <1>3, <1>4, <1>5, TabChanged DEF GInv
<1>7. StorageOK'
  BY <1>1, StorageStays DEF GInv, storage, kept
<1> QED
  BY <1>6, <1>7 DEF GInv

LEMMA SaveKeyKeeps == ASSUME GInv, SaveKey PROVE GInv'
<1>1. CASE tab.path = Untitled
  <2>1. UNCHANGED <<window, storage, kept>>
    BY <1>1 DEF SaveKey
  <2>2. WindowOK' /\ StorageOK'
    BY <2>1, WindowStays, StorageStays DEF GInv, storage, kept
  <2> QED
    BY <2>2 DEF GInv
<1>2. CASE tab.path # Untitled
  BY <1>2, AbortsKeeps DEF SaveKey
<1> QED
  BY <1>1, <1>2

LEMMA ChooseKeeps == ASSUME GInv, Choose PROVE GInv'
<1>1. CASE \E p \in Path : StartSave(p)
  BY <1>1, StartSaveKeeps
<1>2. CASE UNCHANGED <<window, storage, kept>>
  <2>1. WindowOK' /\ StorageOK'
    BY <1>2, WindowStays, StorageStays DEF GInv, storage, kept
  <2> QED
    BY <2>1 DEF GInv
<1> QED
  BY <1>1, <1>2 DEF Choose

LEMMA AnswerSaveKeeps == ASSUME GInv, AnswerSave PROVE GInv'
<1>1. TabOK(tab)
  BY ShownTyped DEF GInv
<1>2. CASE ~ tab.dirty
  <2>1. Ends /\ UNCHANGED <<storage, journal>>
    BY <1>2 DEF AnswerSave, Closes
  <2>2. WindowOK'
    BY <2>1, EndsKeeps
  <2>3. StorageOK'
    BY <2>1, StorageStays DEF GInv, storage
  <2> QED
    BY <2>2, <2>3 DEF GInv
<1>3. CASE tab.dirty
  <2>1. \/ \E p \in IF tab.path # Untitled THEN {tab.path} ELSE Path : StartSave(p)
        \/ Aborts
    BY <1>3 DEF AnswerSave
  <2>2. (IF tab.path # Untitled THEN {tab.path} ELSE Path) \subseteq Path
    BY <1>1 DEF TabOK, PathOrNone
  <2> QED
    BY <2>1, <2>2, AbortsKeeps, StartSaveKeeps
<1> QED
  BY <1>2, <1>3

LEMMA NotCommittedKeeps == ASSUME GInv, SaveNotCommitted PROVE GInv'
<1>1. WindowOK'
  BY EndsKeeps, WindowStays DEF GInv, SaveNotCommitted
<1>2. saving' = NotSaving /\ UNCHANGED <<files, stable, writes, journal>>
  BY DEF SaveNotCommitted, kept
<1>3. StorageOK'
  BY <1>2 DEF GInv, StorageOK
<1> QED
  BY <1>1, <1>3 DEF GInv

LEMMA UnderWay ==
    ASSUME StorageOK, saving.step # "none"
    PROVE  saving \in Saving /\ saving.path \in Path /\ saving.stamp \in Nat
<1>1. saving \in Saving
  BY DEF StorageOK, NotSaving
<1> QED
  BY <1>1 DEF Saving

LEMMA RenameKeeps == ASSUME GInv, Rename PROVE GInv'
<1>1. saving \in Saving /\ saving.path \in Path /\ saving.stamp \in Nat
  <2>1. saving.step # "none"
    BY DEF Rename
  <2> QED
    BY <2>1, UnderWay DEF GInv
<1>2. WindowOK'
  BY WindowStays DEF GInv, Rename
<1> DEFINE f == [text |-> doc.text, stamp |-> saving.stamp]
<1>3. f \in Version
  BY <1>1, ShownTyped, DocTyped DEF GInv, Version
<1> HIDE DEF f
<1>4. /\ saving' = [saving EXCEPT !.step = "renamed"]
      /\ files' = [files EXCEPT ![saving.path] = f]
      /\ UNCHANGED <<stable, writes, journal>>
  BY DEF Rename, kept, f
<1>5. saving' \in Saving
  BY <1>1, <1>4 DEF Saving
<1>6. files' \in Files
  BY <1>1, <1>3, <1>4 DEF GInv, StorageOK, Files
<1>7. StorageOK'
  BY <1>4, <1>5, <1>6 DEF GInv, StorageOK
<1> QED
  BY <1>2, <1>7 DEF GInv

\* What a save leaves in the tab, or the end of the program.
LEMMA SaveReturnsKeeps ==
    ASSUME GInv, NEW unsure \in BOOLEAN, SaveReturns(unsure)
    PROVE  WindowOK' /\ saving.path \in Path
<1>1. saving \in Saving /\ saving.path \in Path /\ saving.stamp \in Nat
  <2>1. saving.step # "none"
    BY DEF SaveReturns
  <2> QED
    BY <2>1, UnderWay DEF GInv
<1>2. CASE phase = "prompt" /\ ~ DirtyAfter(unsure)
  BY <1>1, <1>2, EndsKeeps DEF SaveReturns
<1>3. CASE ~ (phase = "prompt" /\ ~ DirtyAfter(unsure))
  <2> DEFINE t == tab
             f == SavedDisk(unsure)
             x == [t EXCEPT !.dirty = unsure, !.path = saving.path, !.saved = f, !.conflict = None]
  <2>1. /\ tabs' = [tabs EXCEPT ![active] = x]
        /\ UNCHANGED <<active, view, adapter, queue>>
    BY <1>3 DEF SaveReturns, DirtyAfter, tab
  <2>2. TabOK(t) /\ t.doc = doc
    BY ShownTyped DEF GInv, doc
  <2>3. f \in Version /\ f.text = doc.text
    <3>1. files[saving.path] \in {None} \cup Version
      BY <1>1 DEF GInv, StorageOK, Files
    <3>2. files[saving.path].stamp \in Int
      BY <3>1 DEF None, Version
    <3>3. doc.text \in Text
      BY ShownTyped, DocTyped DEF GInv
    <3> DEFINE stamp == IF unsure THEN saving.stamp ELSE files[saving.path].stamp
    <3>4. stamp \in Int
      BY <1>1, <3>2
    <3>5. f = [text |-> doc.text, stamp |-> stamp]
      BY DEF SavedDisk
    <3> HIDE DEF f, stamp
    <3> QED
      BY <3>3, <3>4, <3>5 DEF Version
  <2> HIDE DEF t, f
  <2>4. /\ x \in [doc : {x.doc}, dirty : BOOLEAN, path : PathOrNone,
                  saved : {None} \cup Version, conflict : {None} \cup Version]
        /\ x.doc = t.doc /\ x.saved = f /\ x.conflict = None
    BY <1>1, <2>2, <2>3 DEF TabOK, PathOrNone
  <2> HIDE DEF x
  <2>5. TabOK(x)
    BY <2>2, <2>3, <2>4 DEF TabOK
  <2>6. WindowOK'
    BY <2>1, <2>2, <2>4, <2>5, TabChanged DEF GInv
  <2> QED
    BY <1>1, <2>6
<1> QED
  BY <1>2, <1>3

LEMMA SavedKeeps == ASSUME GInv, SaveSynced \/ SaveUnsure PROVE GInv'
<1>1. PICK unsure \in BOOLEAN : SaveReturns(unsure)
  BY DEF SaveSynced, SaveUnsure
<1>2. WindowOK' /\ saving.path \in Path
  BY <1>1, SaveReturnsKeeps
<1>3. saving' = NotSaving /\ UNCHANGED <<files, writes, journal>>
  BY <1>1 DEF SaveReturns
<1>4. stable' \in Files
  <2>1. stable' = stable \/ stable' = [stable EXCEPT ![saving.path] = files[saving.path]]
    BY DEF SaveSynced, SaveUnsure, DirectorySynced
  <2>2. files[saving.path] \in {None} \cup Version
    BY <1>2 DEF GInv, StorageOK, Files
  <2> QED
    BY <1>2, <2>1, <2>2 DEF GInv, StorageOK, Files
<1>5. StorageOK'
  BY <1>3, <1>4 DEF GInv, StorageOK
<1> QED
  BY <1>2, <1>5 DEF GInv

LEMMA OtherWritesKeeps == ASSUME GInv, OtherWrites PROVE GInv'
<1>1. PICK p \in Path, now \in {None} \cup {[text |-> text, stamp |-> writes] : text \in Foreign} :
         files' = [files EXCEPT ![p] = now] /\ stable' = [stable EXCEPT ![p] = files'[p]]
  BY DEF OtherWrites
<1>2. writes \in Nat /\ files \in Files /\ stable \in Files
  BY DEF GInv, StorageOK
<1>3. now \in {None} \cup Version
  BY <1>1, <1>2, TextsGiven DEF Version
<1>4. files' \in Files /\ files'[p] = now
  BY <1>1, <1>2, <1>3 DEF Files
<1>5. stable' \in Files
  BY <1>1, <1>2, <1>3, <1>4 DEF Files
<1>6. writes' = writes + 1 /\ UNCHANGED <<saving, journal>> /\ UNCHANGED window
  BY DEF OtherWrites, kept
<1>7. WindowOK'
  BY <1>6, WindowStays DEF GInv
<1>8. StorageOK'
  BY <1>2, <1>4, <1>5, <1>6 DEF GInv, StorageOK
<1> QED
  BY <1>7, <1>8 DEF GInv

LEMMA CloseKeeps ==
    ASSUME GInv, CloseRequest \/ AnswerCancel \/ AnswerDiscard PROVE GInv'
<1>1. \/ Ends /\ UNCHANGED <<storage, journal>>
      \/ UNCHANGED <<window, storage, kept>>
  BY DEF CloseRequest, AnswerCancel, AnswerDiscard, Closes
<1>2. WindowOK'
  BY <1>1, EndsKeeps, WindowStays DEF GInv
<1>3. StorageOK'
  BY <1>1, StorageStays DEF GInv, storage, kept
<1> QED
  BY <1>2, <1>3 DEF GInv

LEMMA TickKeeps == ASSUME GInv, Tick PROVE GInv'
<1>1. WindowOK'
  BY WindowStays DEF GInv, Tick
<1>2. journal' = [text |-> doc.text, path |-> tab.path] /\ UNCHANGED <<files, stable, writes, saving>>
  BY DEF Tick, storage
<1>3. doc.text \in Text /\ tab.path \in PathOrNone
  BY ShownTyped, DocTyped DEF GInv, TabOK
<1>4. journal' \in [text : Text, path : PathOrNone]
  BY <1>2, <1>3
<1>5. StorageOK'
  BY <1>2, <1>4 DEF GInv, StorageOK
<1> QED
  BY <1>1, <1>5 DEF GInv

LEMMA CrashKeeps == ASSUME GInv, Crash PROVE GInv'
<1>1. WindowOK'
  BY EndsKeeps DEF Crash
<1>2. saving' = NotSaving /\ files' \in {files, stable} /\ UNCHANGED <<stable, writes, journal>>
  BY DEF Crash, kept
<1>3. StorageOK'
  BY <1>2 DEF GInv, StorageOK
<1> QED
  BY <1>1, <1>3 DEF GInv

LEMMA FirstTabOK == ASSUME StorageOK, NEW t \in FirstTab PROVE TabOK(t)
<1>1. CASE t = Untouched(Starter)
  BY <1>1, StarterOK
<1>2. CASE t # Untouched(Starter)
  <2>1. /\ journal # None
        /\ t = [Untouched(journal.text) EXCEPT !.dirty = TRUE, !.path = journal.path]
    BY <1>2 DEF FirstTab
  <2>2. journal.text \in Text /\ journal.path \in PathOrNone
    BY <2>1 DEF StorageOK
  <2> QED
    BY <2>1, <2>2, RecoveredOK
<1> QED
  BY <1>1, <1>2

LEMMA StartKeeps == ASSUME GInv, Start PROVE GInv'
<1>1. PICK t \in FirstTab :
         \/ Window(t)
         \/ \E p \in Path : Exists(p) /\ Show(NewWindow(t), <<t>>, 1, p)
  BY DEF Start
<1>2. TabOK(t)
  BY FirstTabOK DEF GInv
<1>3. WindowOK'
  <2>1. CASE Window(t)
    BY <1>2, <2>1, WindowMade
  <2>2. CASE \E p \in Path : Exists(p) /\ Show(NewWindow(t), <<t>>, 1, p)
    <3> DEFINE n == NewWindow(t)
               open == <<t>>
    <3>1. PICK p \in Path : Exists(p) /\ Show(n, open, 1, p)
      BY <2>2
    <3>2. IsPane(n)
      BY <1>2, NewWindowPane DEF Pane
    <3>3. TabsOK(open) /\ 1 \in DOMAIN open
      BY <1>2, OneTab
    <3> HIDE DEF n, open
    <3> QED
      BY <3>1, <3>2, <3>3, ShowKeeps DEF GInv, StorageOK
  <2> QED
    BY <1>1, <2>1, <2>2
<1>4. StorageOK'
  BY StorageStays DEF GInv, Start, storage, kept
<1> QED
  BY <1>3, <1>4 DEF GInv

LEMMA InitGInv == ASSUME Init PROVE GInv
<1> DEFINE t == Untouched(Starter)
           n == NewWindow(t)
<1>1. TabOK(t)
  BY StarterOK
<1>2. tabs = <<t>> /\ active = 1 /\ queue = << >> /\ view = n.view /\ adapter = n.adapter
  BY DEF Init
<1> HIDE DEF t
<1>3. Pane(n) /\ n.doc = t.doc /\ n.queue = << >>
  BY <1>1, NewWindowPane
<1> HIDE DEF n
<1>4. n \in [doc : {n.doc}, view : View, adapter : Adapter, queue : Seq(Commit)]
  BY <1>3 DEF Pane, IsPane
<1>5. TabsOK(tabs) /\ active \in DOMAIN tabs /\ tabs[active] = t
  BY <1>1, <1>2, OneTab
<1>6. Shown = n
  BY <1>2, <1>3, <1>4, <1>5 DEF Shown, doc, tab
<1>7. WindowOK
  BY <1>3, <1>5, <1>6 DEF WindowOK
<1>8. files \in Files
  <2>1. files \in [Path -> {None} \cup {[text |-> text, stamp |-> 0] : text \in Foreign}]
    BY DEF Init
  <2>2. {[text |-> text, stamp |-> 0] : text \in Foreign} \subseteq Version
    BY TextsGiven DEF Version
  <2> QED
    BY <2>1, <2>2 DEF Files
<1>9. StorageOK
  BY <1>8 DEF Init, StorageOK
<1> QED
  BY <1>7, <1>9 DEF GInv

LEMMA StepGInv == ASSUME GInv, [Next]_vars PROVE GInv'
<1>1. CASE Type
  BY <1>1, TypeKeeps
<1>2. CASE Preedit \/ PreeditEnds
  BY <1>2, PreeditKeeps
<1>3. CASE Pump
  BY <1>3, PumpKeeps
<1>4. CASE History
  BY <1>4, HistoryKeeps
<1>5. CASE Command
  BY <1>5, CommandKeeps
<1>6. CASE Inspect
  BY <1>6, InspectKeeps
<1>7. CASE Open
  BY <1>7, OpenKeeps
<1>8. CASE Poll
  BY <1>8, PollKeeps
<1>9. CASE ReloadDisk
  BY <1>9, ReloadKeeps
<1>10. CASE KeepBuffer
  BY <1>10, KeepKeeps
<1>11. CASE SaveKey
  BY <1>11, SaveKeyKeeps
<1>12. CASE SaveNotCommitted
  BY <1>12, NotCommittedKeeps
<1>13. CASE Rename
  BY <1>13, RenameKeeps
<1>14. CASE SaveSynced \/ SaveUnsure
  BY <1>14, SavedKeeps
<1>15. CASE OtherWrites
  BY <1>15, OtherWritesKeeps
<1>16. CASE CloseRequest \/ AnswerCancel \/ AnswerDiscard
  BY <1>16, CloseKeeps
<1>17. CASE AnswerSave
  BY <1>17, AnswerSaveKeeps
<1>18. CASE Tick
  BY <1>18, TickKeeps
<1>19. CASE Crash
  BY <1>19, CrashKeeps
<1>20. CASE Start
  BY <1>20, StartKeeps
<1>21. CASE Choose
  BY <1>21, ChooseKeeps
<1>22. CASE UNCHANGED vars
  <2>1. UNCHANGED window /\ UNCHANGED <<files, stable, writes, saving, journal>>
    BY <1>22 DEF vars, storage, kept
  <2> QED
    BY <2>1, WindowStays, StorageStays DEF GInv
<1> QED
  BY <1>1, <1>2, <1>3, <1>4, <1>5, <1>6, <1>7, <1>8, <1>9, <1>10, <1>11, <1>12, <1>13,
     <1>14, <1>15, <1>16, <1>17, <1>18, <1>19, <1>20, <1>21, <1>22 DEF Next

LEMMA GInvAlways == Spec => []GInv
<1>1. Init => GInv
  BY InitGInv
<1>2. GInv /\ [Next]_vars => GInv'
  BY StepGInv
<1> QED
  BY <1>1, <1>2, PTL DEF Spec

\* Once the pump has taken what was typed the view shows the document, whatever
\* keys, compositions, commands, undo, reloads and other files came between,
\* and the signals of the buffer are not suppressed any more; unless it shows
\* the generated page or a composition went astray (GtkEditorInner,
\* follow_shared_edit, acknowledge_local_commit, install_open_snapshot).
THEOREM ViewFollows == Spec => []ViewShowsDocument
<1>1. GInv => ViewShowsDocument
  <2> SUFFICES ASSUME GInv, queue = << >>, view.editable, ~ adapter.astray
               PROVE  view.text = doc.text /\ ~ adapter.suppressed
    BY DEF ViewShowsDocument
  <2>1. /\ Agrees(Shown) /\ Shown.queue = queue /\ Shown.view = view
        /\ Shown.doc = doc /\ Shown.adapter = adapter
    BY ShownTyped DEF GInv
  <2>2. Len(<< >>) = 0 /\ ~ (0 >= 2) /\ 0 # 1
    OBVIOUS
  <2>3. ~ Doomed(Shown)
    BY <2>1, <2>2 DEF Doomed
  <2>4. InStep(Shown)
    BY <2>1, <2>3 DEF Agrees
  <2> QED
    BY <2>1, <2>4 DEF InStep
<1> QED
  BY <1>1, GInvAlways, PTL

\* A document that is not marked as changed and has been on disk is, in every
\* tab, what was read from there or written there last (DocumentEdited,
\* SaveCompleted, adopt_opened_document).
THEOREM CleanMeansSaved == Spec => []CleanIsSaved
<1>1. GInv => CleanIsSaved
  BY DEF GInv, WindowOK, TabsOK, TabOK, CleanIsSaved
<1> QED
  BY <1>1, GInvAlways, PTL

\* A save that leaves the document clean, or lets the window close, has what
\* it wrote where a power failure leaves it (SaveCompleted is reported only
\* when the directory was synced; SaveDurabilityUnknown keeps the mark).
THEOREM CleanMeansDurable == Spec => SavedIsStable
<1>1. ASSUME GInv, SaveSynced \/ SaveUnsure, ~ tabs'[active'].dirty
      PROVE  stable'[saving.path] = files'[saving.path]
  <2>1. CASE SaveSynced
    <3>1. saving.step # "none" /\ stable' = [stable EXCEPT ![saving.path] = files[saving.path]]
          /\ files' = files
      BY <2>1 DEF SaveSynced, SaveReturns, DirectorySynced
    <3>2. saving.path \in Path /\ stable \in Files
      BY <1>1, <3>1, UnderWay DEF GInv, StorageOK
    <3> QED
      BY <3>1, <3>2 DEF Files
  <2>2. CASE SaveUnsure
    <3>1. /\ tabs' = [tabs EXCEPT ![active] =
                        [@ EXCEPT !.dirty = TRUE, !.path = saving.path,
                                  !.saved = SavedDisk(TRUE), !.conflict = None]]
          /\ active' = active
      BY <2>2 DEF SaveUnsure, SaveReturns, DirtyAfter
    <3>2. active \in DOMAIN tabs /\ TabOK(tabs[active])
      BY <1>1 DEF GInv, WindowOK, TabsOK
    <3> DEFINE t == tabs[active]
               f == SavedDisk(TRUE)
               x == [t EXCEPT !.dirty = TRUE, !.path = saving.path, !.saved = f, !.conflict = None]
    <3>3. tabs'[active'] = x
      BY <3>1, <3>2
    <3> HIDE DEF t, f
    <3>4. TabOK(t)
      BY <3>2 DEF t
    <3>5. x.dirty
      BY <3>4 DEF TabOK
    <3> HIDE DEF x
    <3> QED
      BY <1>1, <3>3, <3>5
  <2> QED
    BY <1>1, <2>1, <2>2
<1>2. GInv /\ [Next]_vars =>
        [(SaveSynced \/ SaveUnsure) /\ ~ tabs'[active'].dirty
           => stable'[saving.path] = files'[saving.path]]_vars
  BY <1>1
<1> QED
  BY <1>2, GInvAlways, PTL DEF Spec, SavedIsStable
===============================================================================
